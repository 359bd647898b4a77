-------------------------- MODULE OwnerFenceProofs --------------------------
(***************************************************************************)
(* The owner fence of one directory, for any number of hosts, parents and  *)
(* spellings, whichever of them die and whatever calls fail.               *)
(***************************************************************************)
EXTENDS OwnerFence, TLAPS

USE ActorAssumption, BoundAssumption

(***************************************************************************)
(* Types.                                                                  *)
(***************************************************************************)
LEMMA BodyType ==
  ASSUME TypeOK, writes < MaxWrites, NEW h \in Host, NEW state \in State,
         NEW outcome \in {"never-held", "held", "released", "failed"}, NEW clean \in BOOLEAN,
         NEW adopted \in Generation
  PROVE  Body(h, state, outcome, clean, adopted) \in Claim
<1>1. writes + 1 \in Generation  BY DEF TypeOK, Generation
<1>2. NoRow \in Row  BY DEF NoRow, Row, Generation, State
<1>3. QED  BY <1>1, <1>2, Zenon DEF Body, Native, Claim, Row, TypeOK, Process

LEMMA ReservationType ==
  ASSUME TypeOK, writes < MaxWrites, NEW p \in Process
  PROVE  Reservation(p) \in Claim
<1>1. writes + 1 \in Generation  BY DEF TypeOK, Generation
<1>2. Donor \in Row  BY Zenon DEF Donor, TypeOK, Claim
<1>3. Snapshot \in {"absent", "attributed"}  BY Zenon DEF Snapshot
<1>4. Donor.dir \in Spelling \cup {None} /\ record \in Host \cup {None}
  BY <1>2, Zenon DEF TypeOK, Row
<1>5. "reserved" \in State /\ 0 \in Generation  BY DEF State, Generation
<1>6. QED  BY <1>1, <1>2, <1>3, <1>4, <1>5, Zenon DEF Reservation, Claim, Row

LEMMA WithdrawnType ==
  ASSUME TypeOK, writes < MaxWrites
  PROVE  Native([claim.donor EXCEPT !.gen = writes + 1], 0) \in Claim
<1>1. writes + 1 \in Generation /\ 0 \in Generation  BY DEF TypeOK, Generation
<1>2. NoRow \in Row  BY DEF NoRow, Row, Generation, State
<1>3. claim.donor \in Row  BY DEF TypeOK, Claim
<1>4. [claim.donor EXCEPT !.gen = writes + 1] \in Row  BY <1>1, <1>3 DEF Row
<1>5. QED  BY <1>1, <1>2, <1>4, Zenon DEF Native, Claim

LEMMA NoClaimType == NoClaim \in Claim
BY DEF NoClaim, NoRow, Native, Claim, Row, Generation, State

LEMMA FaultType ==
  ASSUME TypeOK, Fault \/ NoFault
  PROVE  faults' \in 0..MaxFaults
BY DEF TypeOK, Fault, NoFault

LEMMA OverType ==
  ASSUME TypeOK, NEW p \in Process, NEW place \in Place,
         NEW a \in {"none", "withdrawn", "adopted", "lost"}, Over(p, place, a),
         ticket' \in [Process -> Claim], writes' \in Generation, tx' \in Process \cup {None},
         faults' \in 0..MaxFaults
  PROVE  TypeOK'
<1>1. answer' \in [Parent -> {"none", "withdrawn", "adopted", "lost"}] /\ target' \in Parent \cup {None}
  BY DEF TypeOK, Over, Answer
<1>2. draft' \in [Process -> Claim]  BY NoClaimType DEF TypeOK, Over
<1>3. pc' \in [Process -> Place] /\ hold' \in [Process -> {"no", "drafted", "written"}]
  BY DEF TypeOK, Over, Goto
<1>4. QED  BY <1>1, <1>2, <1>3 DEF TypeOK, Over, history

LEMMA RefusedType ==
  ASSUME TypeOK, NEW p \in Process, Refused(p), tx' \in Process \cup {None},
         faults' \in 0..MaxFaults
  PROVE  TypeOK'
<1>1. Instead(p) \in Place  BY DEF Instead, Rest, Place
<1>2. Over(p, Instead(p), "none") /\ UNCHANGED <<ticket, writes>>  BY DEF Refused
<1>3. QED  BY <1>1, <1>2, OverType DEF TypeOK

LEMMA DraftType ==
  ASSUME TypeOK, NEW p \in Process, NEW b \in Claim, Draft(p, b)
  PROVE  TypeOK'
<1>1. writes' \in Generation  BY DEF TypeOK, Draft, Generation
<1>2. QED  BY <1>1 DEF TypeOK, Draft, locks, history

(* A transaction that is begun, or refused, on a well-typed draft. *)
LEMMA EnterType ==
  ASSUME TypeOK, NEW p \in Process, NEW b, writes < MaxWrites => b \in Claim,
         \/ Draft(p, b)
         \/ (Fault \/ NoFault) /\ Refused(p) /\ UNCHANGED tx
  PROVE  TypeOK'
<1>1. CASE Draft(p, b)
  <2>1. writes < MaxWrites  BY <1>1 DEF Draft
  <2>2. QED  BY <1>1, <2>1, DraftType
<1>2. CASE (Fault \/ NoFault) /\ Refused(p) /\ UNCHANGED tx
  <2>1. faults' \in 0..MaxFaults  BY <1>2, FaultType
  <2>2. tx' \in Process \cup {None}  BY <1>2 DEF TypeOK
  <2>3. QED  BY <1>2, <2>1, <2>2, RefusedType
<1>3. QED  BY <1>1, <1>2


(* Every variable of the fence and its processes keeps its type. *)
THEOREM TypeCorrect == Spec => []TypeOK
<1>1. Init => TypeOK
  <2>1. NoRow \in Row /\ 0 \in Generation  BY DEF NoRow, Row, Generation, State
  <2>2. QED  BY <2>1, NoClaimType DEF Init, TypeOK, Place, Process
<1>2. ASSUME TypeOK, [Next]_vars PROVE TypeOK'
  <2> USE <1>2 DEF files, locks, self, process, history, bounds
  <2>1. ASSUME NEW h \in Host PROVE Open(h) => TypeOK'
    <3> USE DEF At, Goto
    <3> h \in Process  BY DEF Process
    <3>1. ASSUME Start(h) PROVE TypeOK'
      BY <3>1 DEF TypeOK, Place, Start
    <3>2. ASSUME NEW k \in Host, Relaunch(h, k) PROVE TypeOK'
      BY <3>2 DEF TypeOK, Place, Relaunch
    <3>3. ASSUME AdmitOwner(h) PROVE TypeOK'
      <4>1. writes < MaxWrites => Fenced(h, 0) \in Claim
        <5>1. 0 \in Generation /\ "fenced" \in State  BY DEF Generation, State
        <5>2. QED  BY <5>1, BodyType DEF Fenced
      <4>2. QED  BY <3>3, <4>1, EnterType DEF AdmitOwner, Enter
    <3>4. ASSUME TakeArm(h) PROVE TypeOK'
      BY <3>4 DEF TypeOK, Place, TakeArm, Take, Process
    <3>5. ASSUME AdoptOwner(h) PROVE TypeOK'
      <4>1. writes < MaxWrites => Fenced(h, claim.row.gen) \in Claim
        <5>1. claim.row.gen \in Generation  BY DEF TypeOK, Claim, Row
        <5>2. QED  BY <5>1, BodyType DEF Fenced, State
      <4>2. QED  BY <3>5, <4>1, EnterType DEF AdoptOwner, Enter
    <3>6. ASSUME LeaveAdoption(h) PROVE TypeOK'
      BY <3>6 DEF TypeOK, Place, LeaveAdoption, GiveBack, NoFault, Fault
    <3>7. ASSUME TakeLease(h) PROVE TypeOK'
      BY <3>7 DEF TypeOK, Place, TakeLease
    <3>8. ASSUME LeaseRefused(h) PROVE TypeOK'
      BY <3>8 DEF TypeOK, Place, LeaseRefused
    <3>9. ASSUME Leased(h) PROVE TypeOK'
      <4>1. writes < MaxWrites => Body(h, "leased", "held", FALSE, ticket[h].adopted) \in Claim
        <5>1. ticket[h].adopted \in Generation  BY DEF TypeOK, Claim
        <5>2. QED  BY <5>1, BodyType DEF State
      <4>2. QED  BY <3>9, <4>1, EnterType DEF Leased, Transition, Enter
    <3>10. ASSUME EndUnleased(h) PROVE TypeOK'
      <4>1. writes < MaxWrites => Body(h, "closed", "never-held", FALSE, ticket[h].adopted) \in Claim
        <5>1. ticket[h].adopted \in Generation  BY DEF TypeOK, Claim
        <5>2. QED  BY <5>1, BodyType DEF State
      <4>2. QED  BY <3>10, <4>1, EnterType DEF EndUnleased, Transition, Enter
    <3>11. ASSUME OpenStorage(h) PROVE TypeOK'
      BY <3>11 DEF TypeOK, Place, OpenStorage
    <3>12. ASSUME StorageOpened(h) PROVE TypeOK'
      <4>1. writes < MaxWrites => Body(h, "storage-open", "held", FALSE, ticket[h].adopted) \in Claim
        <5>1. ticket[h].adopted \in Generation  BY DEF TypeOK, Claim
        <5>2. QED  BY <5>1, BodyType DEF State
      <4>2. QED  BY <3>12, <4>1, EnterType DEF StorageOpened, Transition, Enter
    <3>13. ASSUME Close(h) PROVE TypeOK'
      BY <3>13 DEF TypeOK, Place, Close
    <3>14. ASSUME Shut(h) PROVE TypeOK'
      BY <3>14 DEF TypeOK, Place, Shut
    <3>15. ASSUME Release(h) PROVE TypeOK'
      BY <3>15 DEF TypeOK, Place, Release, NoFault, Fault
    <3>16. ASSUME Closed(h) PROVE TypeOK'
      <4>1. writes < MaxWrites => Body(h, "closed", "released", storage[h] = "closed", ticket[h].adopted) \in Claim
        <5>1. ticket[h].adopted \in Generation /\ (storage[h] = "closed") \in BOOLEAN  BY DEF TypeOK, Claim
        <5>2. QED  BY <5>1, BodyType DEF State
      <4>2. QED  BY <3>16, <4>1, EnterType DEF Closed, Ended, Transition, Enter
    <3>17. ASSUME CloseFailed(h) PROVE TypeOK'
      <4>1. writes < MaxWrites =>
              \A outcome \in {"released", "failed"} :
                Body(h, "close-failed", outcome, storage[h] = "closed", ticket[h].adopted) \in Claim
        <5>1. ticket[h].adopted \in Generation /\ "close-failed" \in State  BY DEF TypeOK, Claim, State
        <5>2. (storage[h] = "closed") \in BOOLEAN  BY Zenon
        <5>3. QED  BY <5>1, <5>2, BodyType
      <4>2. QED  BY <3>17, <4>1, EnterType DEF CloseFailed, Ended, Transition, Enter
    <3>18. ASSUME Attach(h) PROVE TypeOK'
      BY <3>18 DEF TypeOK, Place, Attach, Take, Process
    <3>19. ASSUME Locate(h) PROVE TypeOK'
      BY <3>19 DEF TypeOK, Place, Locate, GiveBack, NoFault, Fault
    <3>20. QED
      BY <3>1, <3>2, <3>3, <3>4, <3>5, <3>6, <3>7, <3>8, <3>9, <3>10, <3>11, <3>12, <3>13, <3>14, <3>15, <3>16, <3>17, <3>18, <3>19 DEF Open
  <2>2. ASSUME NEW p \in Parent PROVE Resuming(p) => TypeOK'
    <3> USE DEF At, Goto
    <3> p \in Process  BY DEF Process
    <3>1. ASSUME Resume(p) PROVE TypeOK'
      BY <3>1 DEF TypeOK, Place, Resume
    <3>2. ASSUME TakeArmToReserve(p) PROVE TypeOK'
      BY <3>2 DEF TypeOK, Place, TakeArmToReserve, Take
    <3>3. ASSUME Reserve(p) PROVE TypeOK'
      <4>1. writes < MaxWrites => Reservation(p) \in Claim
        BY ReservationType
      <4>2. QED  BY <3>3, <4>1, EnterType DEF Reserve, Enter
    <3>4. ASSUME LeaveReserve(p) PROVE TypeOK'
      BY <3>4 DEF TypeOK, Place, LeaveReserve, GiveBack, Answer, NoFault, Fault
    <3>5. ASSUME Launch(p) PROVE TypeOK'
      <4>1. ticket[p].row.gen \in Generation /\ ticket[p].row.dir \in Spelling \cup {None}
        BY DEF TypeOK, Claim, Row
      <4>2. source' \in [Host -> Generation] /\ spelled' \in [Host -> Spelling \cup {None}]
        BY <3>5, <4>1 DEF TypeOK, Launch
      <4>3. pc' \in [Process -> Place]  BY <3>5 DEF TypeOK, Launch, Place
      <4>4. answer' \in [Parent -> {"none", "withdrawn", "adopted", "lost"}] /\ target' \in Parent \cup {None}
        BY <3>5 DEF TypeOK, Launch, Answer
      <4>5. faults' \in 0..MaxFaults  BY <3>5, FaultType DEF Launch
      <4>6. QED  BY <3>5, <4>2, <4>3, <4>4, <4>5 DEF TypeOK, Launch
    <3>6. ASSUME Withdraw(p) PROVE TypeOK'
      <4>1. writes < MaxWrites => Native([claim.donor EXCEPT !.gen = writes + 1], 0) \in Claim
        BY WithdrawnType
      <4>2. QED  BY <3>6, <4>1, EnterType DEF Withdraw, Enter
    <3>7. ASSUME Observe(p) PROVE TypeOK'
      BY <3>7 DEF TypeOK, Place, Observe, Observed, Answer
    <3>8. QED
      BY <3>1, <3>2, <3>3, <3>4, <3>5, <3>6, <3>7 DEF Resuming
  <2>3. ASSUME NEW p \in Process PROVE Common(p) => TypeOK'
    <3> USE DEF At, Goto
    <3>1. ASSUME Write(p) PROVE TypeOK'
      <4>1. draft[p] \in Claim /\ draft[p].row \in Row  BY DEF TypeOK, Claim
      <4>2. native' \in Row /\ claim' \in Claim  BY <3>1, <4>1 DEF TypeOK, Write
      <4>3. adoptions' \subseteq Generation \X Host
        <5>1. p \in Host => <<source[p], p>> \in Generation \X Host  BY DEF TypeOK
        <5>2. QED  BY <3>1, <5>1 DEF TypeOK, Write
      <4>4. withdrawn' \subseteq Generation
        <5>1. ticket[p].row.gen \in Generation  BY DEF TypeOK, Claim, Row
        <5>2. QED  BY <3>1, <5>1 DEF TypeOK, Write
      <4>5. QED  BY <3>1, <4>2, <4>3, <4>4 DEF TypeOK, Write
    <3>2. ASSUME Leave(p) PROVE TypeOK'
      <4>1. Onward(p) \in Place  BY DEF Onward, Rest, Place
      <4>2. ticket' \in [Process -> Claim]  BY <3>2 DEF TypeOK, Leave
      <4>3. tx' \in Process \cup {None} /\ writes' \in Generation /\ faults' \in 0..MaxFaults
        BY <3>2 DEF TypeOK, Leave
      <4>4. Over(p, Onward(p), "withdrawn")  BY <3>2 DEF Leave
      <4>5. QED  BY <4>1, <4>2, <4>3, <4>4, OverType
    <3>3. ASSUME Break(p) PROVE TypeOK'
      <4>1. tx' \in Process \cup {None}  BY <3>3 DEF TypeOK, Break
      <4>2. faults' \in 0..MaxFaults  BY <3>3, FaultType DEF Break
      <4>3. QED  BY <3>3, <4>1, <4>2, RefusedType DEF Break
    <3>4. ASSUME WaitEnds(p) PROVE TypeOK'
      <4>1. faults' \in 0..MaxFaults  BY <3>4, FaultType DEF WaitEnds
      <4>2. tx' \in Process \cup {None}  BY <3>4 DEF TypeOK, WaitEnds
      <4>3. QED  BY <3>4, <4>1, <4>2, RefusedType DEF WaitEnds
    <3>5. ASSUME ArmBusy(p) PROVE TypeOK'
      BY <3>5 DEF TypeOK, Place, ArmBusy, Rest, Answer
    <3>6. ASSUME Die(p) PROVE TypeOK'
      <4>1. draft' \in [Process -> Claim] /\ ticket' \in [Process -> Claim]
        BY <3>6, NoClaimType DEF TypeOK, Die
      <4>2. lease' \in [Spelling -> Host \cup {Foreign, None}]  BY <3>6 DEF TypeOK, Die
      <4>3. spelled' \in [Host -> Spelling \cup {None}] /\ answer' \in [Parent -> {"none", "withdrawn", "adopted", "lost"}]
        BY <3>6 DEF TypeOK, Die
      <4>4. pc' \in [Process -> Place] /\ hold' \in [Process -> {"no", "drafted", "written"}]
        BY <3>6 DEF TypeOK, Die, Rest, Place
      <4>5. storage' \in [Host -> {"never-opened", "unknown", "failed", "closed", "open"}]
        BY <3>6 DEF TypeOK, Die
      <4>6. faults' \in 0..MaxFaults  BY <3>6, FaultType DEF Die
      <4>7. QED  BY <3>6, <4>1, <4>2, <4>3, <4>4, <4>5, <4>6 DEF TypeOK, Die
    <3>7. QED  BY <3>1, <3>2, <3>3, <3>4, <3>5, <3>6 DEF Common
  <2>4. ASSUME NEW s \in Spelling, ForeignLease(s) PROVE TypeOK'
    BY <2>4 DEF TypeOK, ForeignLease, Fault, NoFault
  <2>5. CASE UNCHANGED vars  BY <2>5 DEF TypeOK, vars
  <2>6. QED  BY <2>1, <2>2, <2>3, <2>4, <2>5 DEF Next
<1>3. QED  BY <1>1, <1>2, PTL DEF Spec


(***************************************************************************)
(* One user.  First what a transaction does to the invariant, and what     *)
(* every step outside of one does.                                         *)
(***************************************************************************)
LEMMA RefusedKeeps ==
  ASSUME TypeOK, FenceInv, NEW p \in Process, p \in alive, pc[p] \in Transacting, Refused(p),
         tx' = tx \/ hold[p] = "drafted"
  PROVE  FenceInv'
<1> USE DEF TypeOK, FenceInv, Refused, Over, Goto
<1>1. pc'[p] = Instead(p) /\ Instead(p) # "init" /\ pc[p] # "init"
  BY DEF Instead, Rest, Transacting
<1>2. \A h \in Host : Opening(h)' => Opening(h)  BY <1>1 DEF Opening
<1>3. \A q \in Process : hold'[q] # "no" => q # p /\ hold[q] # "no" /\ pc'[q] = pc[q] /\ draft'[q] = draft[q]
  OBVIOUS
<1>4. OneInside'  BY <1>3 DEF OneInside
<1>5. Numbered'  BY <1>3 DEF Numbered
<1>6. Early'  BY <1>1 DEF Early, Instead, Rest, Transacting, Process
<1>7. Owned' /\ Ticketed'  BY <1>2 DEF Owned, Ticketed
<1>8. Drafted'  BY <1>2, <1>3 DEF Drafted
<1>9. QED  BY <1>4, <1>5, <1>6, <1>7, <1>8

LEMMA DraftKeeps ==
  ASSUME TypeOK, FenceInv, NEW p \in Process, NEW b, p \in alive, pc[p] \in Transacting,
         tx = None, Draft(p, b), b.row.gen = writes + 1,
         p \in Host => /\ b.row.owner = p /\ b.row.state \notin {"none", "reserved"}
                       /\ pc[p] = "leased" => b.row.state = "leased"
                       /\ Opening(p) => b.row.state \in Taken,
         \A h \in Host \ {p} : ~Opening(h)
  PROVE  FenceInv'
<1> USE DEF TypeOK, FenceInv, Draft, locks, history
<1>1. \A h \in Host : Opening(h)' <=> Opening(h)  BY DEF Opening
<1>2. p # None /\ \A q \in Process : hold[q] = "no"  BY DEF OneInside, Process
<1>3. draft'[p] = b /\ hold'[p] = "drafted" /\ \A q \in Process : q # p => hold'[q] = "no"
  BY <1>2
<1>4. OneInside'  BY <1>3 DEF OneInside
<1>5. Numbered'
  <2>1. claim.row.gen \in Nat /\ writes \in Nat /\ \A q \in Process : ticket[q].row.gen \in Nat
    BY DEF Claim, Row, Generation
  <2>2. QED  BY <1>3, <2>1 DEF Numbered
<1>6. Early' /\ Ticketed'  BY DEF Early, Ticketed
<1>7. Owned'  BY <1>1 DEF Owned
<1>8. Drafted'
  <2>1. ASSUME NEW q \in Process, hold'[q] # "no" PROVE q = p  BY <1>3, <2>1
  <2>2. pc' = pc  OBVIOUS
  <2>3. QED  BY <1>1, <1>3, <2>1, <2>2 DEF Drafted
<1>9. QED  BY <1>4, <1>5, <1>6, <1>7, <1>8

(* A step that is in no transaction, and opens nothing. *)
LEMMA OutsideKeeps ==
  ASSUME TypeOK, FenceInv, UNCHANGED <<claim, tx, hold, draft, ticket, writes, alive>>, Early',
         \A p \in Process : pc[p] \in Transacting => pc'[p] = pc[p],
         \A h \in Host : Opening(h)' => Opening(h)
  PROVE  FenceInv'
<1> USE DEF TypeOK, FenceInv
<1>1. OneInside' /\ Numbered' /\ Ticketed'  BY DEF OneInside, Numbered, Ticketed
<1>2. Owned'  BY DEF Owned
<1>3. Drafted'  BY DEF Drafted, OneInside
<1>4. QED  BY <1>1, <1>2, <1>3

LEMMA WriteKeeps ==
  ASSUME TypeOK, FenceInv, NEW p \in Process, Write(p)
  PROVE  FenceInv'
<1> USE DEF TypeOK, FenceInv, Write, locks, bounds
<1>1. hold'[p] = "written" /\ \A q \in Process : q # p => hold[q] = "no" /\ hold'[q] = "no"
  BY DEF OneInside
<1>2. \A h \in Host : Opening(h)' <=> Opening(h)  BY DEF Opening
<1>3. OneInside' /\ Early'  BY <1>1 DEF OneInside, Early
<1>4. Numbered'
  <2>1. \A q \in Process : ticket[q].row.gen <= writes  BY DEF Numbered
  <2>2. draft[p].row.gen = writes /\ writes <= writes  BY DEF Numbered, Generation
  <2>3. QED  BY <1>1, <2>1, <2>2 DEF Numbered
<1>5. Owned'  BY <1>2 DEF Owned, Drafted
<1>6. Ticketed'
  <2>1. \A q \in Process : ticket[q].row.gen # draft[p].row.gen  BY DEF Numbered, Claim, Row, Generation
  <2>2. QED  BY <2>1 DEF Ticketed, Process
<1>7. Drafted'  BY <1>1, <1>2 DEF Drafted
<1>8. QED  BY <1>3, <1>4, <1>5, <1>6, <1>7

LEMMA LeaveKeeps ==
  ASSUME TypeOK, FenceInv, NEW p \in Process, Leave(p)
  PROVE  FenceInv'
<1> USE DEF TypeOK, FenceInv, Leave, Over, Goto, bounds
<1>1. \A q \in Process : hold'[q] = "no"  BY DEF OneInside
<1>2. /\ claim = draft[p]
      /\ ticket'[p] = claim \/ (pc[p] = "withdraw" /\ ticket'[p] = ticket[p])
      /\ \A q \in Process : q # p => ticket'[q] = ticket[q]
  BY DEF Numbered
<1>3. pc'[p] = Onward(p) /\ \A q \in Process : q # p => pc'[q] = pc[q]  OBVIOUS
<1>4. OneInside' /\ Drafted'  BY <1>1 DEF OneInside, Drafted
<1>5. Numbered'  BY <1>1, <1>2 DEF Numbered
<1>6. Early'  BY <1>3 DEF Early, Onward, Rest, OneInside, Transacting, Process
<1>7. Owned'
  <2>1. ASSUME NEW h \in Host, Opening(h)' PROVE claim.row.owner = h /\ claim.row.state \in Taken
    <3>1. CASE Opening(h)  BY <3>1 DEF Owned
    <3>2. CASE ~Opening(h)
      <4>1. h = p /\ pc[p] = "leased"
        BY <1>3, <2>1, <3>2 DEF Opening, Onward, Rest, Process
      <4>2. QED  BY <1>2, <4>1 DEF Drafted, Taken
    <3>3. QED  BY <3>1, <3>2
  <2>2. QED  BY <2>1 DEF Owned
<1>8. Ticketed'
  <2>1. \A h \in Host : h \in Process /\ pc[h] # "withdraw"  BY DEF Early, Process
  <2>2. QED  BY <1>2, <2>1 DEF Ticketed, Drafted
<1>9. QED  BY <1>4, <1>5, <1>6, <1>7, <1>8

LEMMA DieKeeps ==
  ASSUME TypeOK, FenceInv, NEW p \in Process, Die(p)
  PROVE  FenceInv'
<1> USE DEF TypeOK, FenceInv, Die, Goto, locks, history
<1>1. hold'[p] = "no" /\ p \notin alive' /\ ticket'[p] = NoClaim  OBVIOUS
<1>2. \A q \in Process : q # p => /\ hold'[q] = hold[q] /\ pc'[q] = pc[q] /\ draft'[q] = draft[q]
                                  /\ ticket'[q] = ticket[q]
  OBVIOUS
<1>3. \A h \in Host : Opening(h)' => h # p /\ Opening(h)  BY DEF Opening, Process
<1>4. NoClaim.row.gen = 0 /\ NoClaim.row.state = "none"  BY DEF NoClaim, NoRow, Native
<1>5. OneInside'  BY <1>1, <1>2 DEF OneInside
<1>6. Numbered'
  <2>1. claim.row.gen \in Nat /\ writes \in Nat  BY DEF Claim, Row, Generation
  <2>2. QED  BY <1>1, <1>2, <1>4, <2>1 DEF Numbered
<1>7. Early'
  <2>1. ASSUME NEW h \in Host PROVE /\ pc'[h] \notin {"reserve", "launch", "withdraw", "observe"}
                                    /\ h = p => storage'[h] = "never-opened" /\ pc'[h] = "out"
                                    /\ h # p => pc'[h] = pc[h] /\ storage'[h] = storage[h]
    BY DEF Early, Rest, Process
  <2>2. QED  BY <2>1 DEF Early
<1>8. Owned'  BY <1>3 DEF Owned
<1>9. Ticketed'  BY <1>1, <1>2, <1>4 DEF Ticketed, Process
<1>10. Drafted'  BY <1>1, <1>2, <1>3 DEF Drafted, Process
<1>11. QED  BY <1>5, <1>6, <1>7, <1>8, <1>9, <1>10


(* The strengthened invariant is inductive. *)
THEOREM FenceInvariant == Spec => []FenceInv
<1>1. Init => FenceInv
  BY DEF Init, FenceInv, OneInside, Numbered, Early, Owned, Ticketed, Drafted, Opening, NoClaim, NoRow,
         Native, Process
<1>2. ASSUME TypeOK, FenceInv, [Next]_vars PROVE FenceInv'
  <2> USE <1>2 DEF files, locks, self, process, history, bounds
  <2>1. ASSUME NEW h \in Host PROVE Open(h) => FenceInv'
    <3> USE DEF At, Goto
    <3>a. h \in Process /\ h \notin Parent  BY DEF Process
    <3>b. ASSUME NEW k \in Host, Opening(k)
          PROVE  k \in alive /\ claim.row.owner = k /\ claim.row.state \in Taken
      BY <3>b DEF FenceInv, Owned, Opening
    <3>c. ASSUME NEW k \in Host, ticket[h].row.state # "none", claim.row.gen = ticket[h].row.gen, Opening(k)
          PROVE  k = h
      BY <3>b, <3>c DEF FenceInv, Ticketed
    <3>d. Early  BY DEF FenceInv
    <3>e. \A state, outcome, clean, adopted :
             /\ Body(h, state, outcome, clean, adopted).row.gen = writes + 1
             /\ Body(h, state, outcome, clean, adopted).row.owner = h
             /\ Body(h, state, outcome, clean, adopted).row.state = state
      BY DEF Body, Native
    <3>f. pc \in [Process -> Place] /\ storage \in [Host -> {"never-opened", "unknown", "failed", "closed", "open"}]
      BY DEF TypeOK
    <3>1. ASSUME Start(h) PROVE FenceInv'
      <4>1. Early'  BY <3>1, <3>a, <3>d DEF Start, Early, TypeOK
      <4>2. \A k \in Host : Opening(k)' => Opening(k)  BY <3>1, <3>a DEF Start, Opening, TypeOK
      <4>3. \A q \in Process : pc[q] \in Transacting => pc'[q] = pc[q]
        BY <3>1 DEF Start, Transacting, TypeOK
      <4>4. QED  BY <3>1, <4>1, <4>2, <4>3, OutsideKeeps DEF Start
    <3>2. ASSUME NEW j \in Host, Relaunch(h, j) PROVE FenceInv'
      <4>1. Early'  BY <3>2, <3>a, <3>d DEF Relaunch, Early, TypeOK
      <4>2. \A k \in Host : Opening(k)' => Opening(k)  BY <3>2, <3>a DEF Relaunch, Opening, TypeOK
      <4>3. \A q \in Process : pc[q] \in Transacting => pc'[q] = pc[q]
        BY <3>2 DEF Relaunch, Transacting, TypeOK
      <4>4. QED  BY <3>2, <4>1, <4>2, <4>3, OutsideKeeps DEF Relaunch
    <3>3. ASSUME AdmitOwner(h) PROVE FenceInv'
      <4>1. h \in alive /\ pc[h] \in Transacting /\ tx = None  BY <3>3 DEF AdmitOwner, Enter, Transacting
      <4>2. CASE Refused(h) /\ UNCHANGED tx  BY <3>a, <4>1, <4>2, RefusedKeeps
      <4>3. CASE Admissible(h) /\ Draft(h, Fenced(h, 0))
        <5> DEFINE b == Fenced(h, 0)
        <5>1. \A k \in Host : ~Opening(k)  BY <3>b, <4>3 DEF Admissible, Taken
        <5>2. b.row.gen = writes + 1 /\ b.row.owner = h /\ b.row.state = "fenced"  BY DEF b, Fenced, Body, Native
        <5>d. Draft(h, b)  BY <4>3 DEF b
        <5>3. pc[h] # "leased" /\ ~Opening(h)
          BY <3>3, <3>a, <3>d, <5>1 DEF AdmitOwner, Enter, Early, Opening, Taken
        <5> HIDE DEF b
        <5>4. QED  BY <4>1, <5>d, <5>1, <5>2, <5>3, <3>a, DraftKeeps
      <4>4. QED  BY <3>3, <4>2, <4>3 DEF AdmitOwner, Enter
    <3>4. ASSUME TakeArm(h) PROVE FenceInv'
      <4>1. Early'  BY <3>4, <3>a, <3>d DEF TakeArm, Take, Early, TypeOK
      <4>2. \A k \in Host : Opening(k)' => Opening(k)  BY <3>4, <3>a DEF TakeArm, Take, Opening, TypeOK
      <4>3. \A q \in Process : pc[q] \in Transacting => pc'[q] = pc[q]
        BY <3>4 DEF TakeArm, Take, Transacting, TypeOK
      <4>4. QED  BY <3>4, <4>1, <4>2, <4>3, OutsideKeeps DEF TakeArm, Take
    <3>5. ASSUME AdoptOwner(h) PROVE FenceInv'
      <4>1. h \in alive /\ pc[h] \in Transacting /\ tx = None  BY <3>5 DEF AdoptOwner, Enter, Transacting
      <4>2. CASE Refused(h) /\ UNCHANGED tx  BY <3>a, <4>1, <4>2, RefusedKeeps
      <4>3. CASE Adoptable(h) /\ Draft(h, Fenced(h, claim.row.gen))
        <5> DEFINE b == Fenced(h, claim.row.gen)
        <5>1. \A k \in Host : ~Opening(k)  BY <3>b, <4>3 DEF Adoptable, Taken
        <5>2. b.row.gen = writes + 1 /\ b.row.owner = h /\ b.row.state = "fenced"  BY DEF b, Fenced, Body, Native
        <5>d. Draft(h, b)  BY <4>3 DEF b
        <5>3. pc[h] # "leased" /\ ~Opening(h)
          BY <3>5, <3>a, <3>d, <5>1 DEF AdoptOwner, Enter, Early, Opening, Taken
        <5> HIDE DEF b
        <5>4. QED  BY <4>1, <5>d, <5>1, <5>2, <5>3, <3>a, DraftKeeps
      <4>4. QED  BY <3>5, <4>2, <4>3 DEF AdoptOwner, Enter
    <3>6. ASSUME LeaveAdoption(h) PROVE FenceInv'
      <4>1. pc[h] \in {"disarm", "quit"} /\ pc'[h] \in {"lease", "out"} /\ storage' = storage
            /\ (\A k \in Host : k # h => pc'[k] = pc[k] /\ storage'[k] = storage[k])
        BY <3>6, <3>a, <3>f DEF LeaveAdoption, GiveBack, Process, Transacting
      <4>2. Early'  BY <4>1, <3>6, <3>a, <3>d DEF Early, TypeOK
      <4>3. \A k \in Host : Opening(k)' => Opening(k)
        BY <4>1, <3>6, <3>a, <3>d DEF LeaveAdoption, GiveBack, Early, Opening, TypeOK
      <4>4. \A q \in Process : pc[q] \in Transacting => pc'[q] = pc[q]
        BY <3>6 DEF LeaveAdoption, GiveBack, Transacting, TypeOK
      <4>5. QED  BY <3>6, <4>2, <4>3, <4>4, OutsideKeeps DEF LeaveAdoption, GiveBack
    <3>7. ASSUME TakeLease(h) PROVE FenceInv'
      <4>1. Early'  BY <3>7, <3>a, <3>d DEF TakeLease, Early, TypeOK
      <4>2. \A k \in Host : Opening(k)' => Opening(k)  BY <3>7, <3>a DEF TakeLease, Opening, TypeOK
      <4>3. \A q \in Process : pc[q] \in Transacting => pc'[q] = pc[q]
        BY <3>7 DEF TakeLease, Transacting, TypeOK
      <4>4. QED  BY <3>7, <4>1, <4>2, <4>3, OutsideKeeps DEF TakeLease
    <3>8. ASSUME LeaseRefused(h) PROVE FenceInv'
      <4>1. Early'  BY <3>8, <3>a, <3>d DEF LeaseRefused, Early, TypeOK
      <4>2. \A k \in Host : Opening(k)' => Opening(k)  BY <3>8, <3>a DEF LeaseRefused, Opening, TypeOK
      <4>3. \A q \in Process : pc[q] \in Transacting => pc'[q] = pc[q]
        BY <3>8 DEF LeaseRefused, Transacting, TypeOK
      <4>4. QED  BY <3>8, <4>1, <4>2, <4>3, OutsideKeeps DEF LeaseRefused
    <3>9. ASSUME Leased(h) PROVE FenceInv'
      <4>1. h \in alive /\ pc[h] \in Transacting /\ tx = None  BY <3>9 DEF Leased, Transition, Enter, Transacting
      <4>2. CASE Refused(h) /\ UNCHANGED tx  BY <3>a, <4>1, <4>2, RefusedKeeps
      <4>3. CASE ticket[h].row.state \in {"fenced"} /\ claim.row.gen = ticket[h].row.gen /\ Draft(h, Body(h, "leased", "held", FALSE, ticket[h].adopted))
        <5> DEFINE b == Body(h, "leased", "held", FALSE, ticket[h].adopted)
        <5>1. \A k \in Host \ {h} : ~Opening(k)  BY <3>c, <4>3 DEF TypeOK
        <5>2. b.row.gen = writes + 1 /\ b.row.owner = h /\ b.row.state = "leased"  BY DEF b, Fenced, Body, Native
        <5>d. Draft(h, b)  BY <4>3 DEF b
        <5>3. "leased" \in Taken
          BY <3>9, <3>a, <3>d, <5>1 DEF Leased, Transition, Enter, Early, Opening, Taken
        <5> HIDE DEF b
        <5>4. QED  BY <4>1, <5>d, <5>1, <5>2, <5>3, <3>a, DraftKeeps
      <4>4. QED  BY <3>9, <4>2, <4>3 DEF Leased, Transition, Enter
    <3>10. ASSUME EndUnleased(h) PROVE FenceInv'
      <4>1. h \in alive /\ pc[h] \in Transacting /\ tx = None  BY <3>10 DEF EndUnleased, Transition, Enter, Transacting
      <4>2. CASE Refused(h) /\ UNCHANGED tx  BY <3>a, <4>1, <4>2, RefusedKeeps
      <4>3. CASE ticket[h].row.state \in {"fenced"} /\ claim.row.gen = ticket[h].row.gen /\ Draft(h, Body(h, "closed", "never-held", FALSE, ticket[h].adopted))
        <5> DEFINE b == Body(h, "closed", "never-held", FALSE, ticket[h].adopted)
        <5>1. \A k \in Host \ {h} : ~Opening(k)  BY <3>c, <4>3 DEF TypeOK
        <5>2. b.row.gen = writes + 1 /\ b.row.owner = h /\ b.row.state = "closed"  BY DEF b, Fenced, Body, Native
        <5>d. Draft(h, b)  BY <4>3 DEF b
        <5>3. pc[h] # "leased" /\ ~Opening(h)
          BY <3>10, <3>a, <3>d, <5>1 DEF EndUnleased, Transition, Enter, Early, Opening, Taken
        <5> HIDE DEF b
        <5>4. QED  BY <4>1, <5>d, <5>1, <5>2, <5>3, <3>a, DraftKeeps
      <4>4. QED  BY <3>10, <4>2, <4>3 DEF EndUnleased, Transition, Enter
    <3>11. ASSUME OpenStorage(h) PROVE FenceInv'
      <4>1. pc[h] = "init" /\ pc'[h] \in {"opened", "shut"} /\ storage'[h] \in {storage[h], "open"}
            /\ (pc'[h] = "opened" => storage'[h] = "open") /\ (\A k \in Host : k # h => pc'[k] = pc[k] /\ storage'[k] = storage[k])
        BY <3>11, <3>a, <3>f DEF OpenStorage, Process, Transacting
      <4>2. Early'  BY <4>1, <3>11, <3>a, <3>d DEF Early, TypeOK
      <4>3. \A k \in Host : Opening(k)' => Opening(k)
        BY <4>1, <3>11, <3>a, <3>d DEF OpenStorage, Early, Opening, TypeOK
      <4>4. \A q \in Process : pc[q] \in Transacting => pc'[q] = pc[q]
        BY <3>11 DEF OpenStorage, Transacting, TypeOK
      <4>5. QED  BY <3>11, <4>2, <4>3, <4>4, OutsideKeeps DEF OpenStorage
    <3>12. ASSUME StorageOpened(h) PROVE FenceInv'
      <4>1. h \in alive /\ pc[h] \in Transacting /\ tx = None  BY <3>12 DEF StorageOpened, Transition, Enter, Transacting
      <4>2. CASE Refused(h) /\ UNCHANGED tx  BY <3>a, <4>1, <4>2, RefusedKeeps
      <4>3. CASE ticket[h].row.state \in {"leased"} /\ claim.row.gen = ticket[h].row.gen /\ Draft(h, Body(h, "storage-open", "held", FALSE, ticket[h].adopted))
        <5> DEFINE b == Body(h, "storage-open", "held", FALSE, ticket[h].adopted)
        <5>1. \A k \in Host \ {h} : ~Opening(k)  BY <3>c, <4>3 DEF TypeOK
        <5>2. b.row.gen = writes + 1 /\ b.row.owner = h /\ b.row.state = "storage-open"  BY DEF b, Fenced, Body, Native
        <5>d. Draft(h, b)  BY <4>3 DEF b
        <5>3. pc[h] # "leased" /\ "storage-open" \in Taken
          BY <3>12, <3>a, <3>d, <5>1 DEF StorageOpened, Transition, Enter, Early, Opening, Taken
        <5> HIDE DEF b
        <5>4. QED  BY <4>1, <5>d, <5>1, <5>2, <5>3, <3>a, DraftKeeps
      <4>4. QED  BY <3>12, <4>2, <4>3 DEF StorageOpened, Transition, Enter
    <3>13. ASSUME Close(h) PROVE FenceInv'
      <4>1. pc[h] = "up" /\ pc'[h] = "release" /\ (\A k \in Host : k # h => pc'[k] = pc[k] /\ storage'[k] = storage[k])
        BY <3>13, <3>a, <3>f DEF Close, Process, Transacting
      <4>2. Early'  BY <4>1, <3>13, <3>a, <3>d DEF Early, TypeOK
      <4>3. \A k \in Host : Opening(k)' => Opening(k)
        BY <4>1, <3>13, <3>a, <3>d DEF Close, Early, Opening, TypeOK
      <4>4. \A q \in Process : pc[q] \in Transacting => pc'[q] = pc[q]
        BY <3>13 DEF Close, Transacting, TypeOK
      <4>5. QED  BY <3>13, <4>2, <4>3, <4>4, OutsideKeeps DEF Close
    <3>14. ASSUME Shut(h) PROVE FenceInv'
      <4>1. pc[h] = "shut" /\ pc'[h] = "release" /\ (storage[h] = "never-opened" => storage' = storage)
            /\ (\A k \in Host : k # h => pc'[k] = pc[k] /\ storage'[k] = storage[k])
        BY <3>14, <3>a, <3>f DEF Shut, Process, Transacting
      <4>2. Early'  BY <4>1, <3>14, <3>a, <3>d DEF Early, TypeOK
      <4>3. \A k \in Host : Opening(k)' => Opening(k)
        BY <4>1, <3>14, <3>a, <3>d DEF Shut, Early, Opening, TypeOK
      <4>4. \A q \in Process : pc[q] \in Transacting => pc'[q] = pc[q]
        BY <3>14 DEF Shut, Transacting, TypeOK
      <4>5. QED  BY <3>14, <4>2, <4>3, <4>4, OutsideKeeps DEF Shut
    <3>15. ASSUME Release(h) PROVE FenceInv'
      <4>1. pc'[h] \in {"out", "end", "unreleased"} /\ storage' = storage /\ (\A k \in Host : k # h => pc'[k] = pc[k] /\ storage'[k] = storage[k])
        BY <3>15, <3>a, <3>f DEF Release, Process, Transacting
      <4>2. Early'  BY <4>1, <3>15, <3>a, <3>d DEF Early, TypeOK
      <4>3. \A k \in Host : Opening(k)' => Opening(k)
        BY <4>1, <3>15, <3>a, <3>d DEF Release, Early, Opening, TypeOK
      <4>4. \A q \in Process : pc[q] \in Transacting => pc'[q] = pc[q]
        BY <3>15 DEF Release, Transacting, TypeOK
      <4>5. QED  BY <3>15, <4>2, <4>3, <4>4, OutsideKeeps DEF Release
    <3>16. ASSUME Closed(h) PROVE FenceInv'
      <4>1. h \in alive /\ pc[h] \in Transacting /\ tx = None  BY <3>16 DEF Closed, Ended, Transition, Enter, Transacting
      <4>2. CASE Refused(h) /\ UNCHANGED tx  BY <3>a, <4>1, <4>2, RefusedKeeps
      <4>3. CASE ticket[h].row.state \in {"leased", "storage-open"} /\ claim.row.gen = ticket[h].row.gen /\ Draft(h, Body(h, "closed", "released", storage[h] = "closed", ticket[h].adopted))
        <5> DEFINE b == Body(h, "closed", "released", storage[h] = "closed", ticket[h].adopted)
        <5>1. \A k \in Host \ {h} : ~Opening(k)  BY <3>c, <4>3 DEF TypeOK
        <5>2. b.row.gen = writes + 1 /\ b.row.owner = h /\ b.row.state = "closed"  BY DEF b, Fenced, Body, Native
        <5>d. Draft(h, b)  BY <4>3 DEF b
        <5>3. pc[h] # "leased" /\ ~Opening(h)
          BY <3>16, <3>a, <3>d, <5>1 DEF Closed, Ended, Transition, Enter, Early, Opening, Taken
        <5> HIDE DEF b
        <5>4. QED  BY <4>1, <5>d, <5>1, <5>2, <5>3, <3>a, DraftKeeps
      <4>4. QED  BY <3>16, <4>2, <4>3 DEF Closed, Ended, Transition, Enter
    <3>17. ASSUME CloseFailed(h) PROVE FenceInv'
      <4>1. h \in alive /\ pc[h] \in Transacting /\ pc[h] # "leased" /\ tx = None
        BY <3>17 DEF CloseFailed, Ended, Transition, Enter, Transacting
      <4>2. CASE Refused(h) /\ UNCHANGED tx  BY <3>a, <4>1, <4>2, RefusedKeeps
      <4>3. ASSUME NEW outcome \in {"released", "failed"},
                   ticket[h].row.state \in {"leased", "storage-open"}, claim.row.gen = ticket[h].row.gen,
                   Draft(h, Body(h, "close-failed", outcome, storage[h] = "closed", ticket[h].adopted))
            PROVE  FenceInv'
        <5>1. \A k \in Host \ {h} : ~Opening(k)  BY <3>c, <4>3
        <5>2. QED  BY <4>1, <4>3, <5>1, <3>a, <3>e, DraftKeeps DEF Taken
      <4>4. QED  BY <3>17, <4>2, <4>3 DEF CloseFailed, Ended, Transition, Enter
    <3>18. ASSUME Attach(h) PROVE FenceInv'
      <4>1. pc[h] = "up" /\ pc'[h] = "carry" /\ storage' = storage /\ (\A k \in Host : k # h => pc'[k] = pc[k] /\ storage'[k] = storage[k])
        BY <3>18, <3>a, <3>f DEF Attach, Take, Process, Transacting
      <4>2. Early'  BY <4>1, <3>18, <3>a, <3>d DEF Early, TypeOK
      <4>3. \A k \in Host : Opening(k)' => Opening(k)
        BY <4>1, <3>18, <3>a, <3>d DEF Attach, Take, Early, Opening, TypeOK
      <4>4. \A q \in Process : pc[q] \in Transacting => pc'[q] = pc[q]
        BY <3>18 DEF Attach, Take, Transacting, TypeOK
      <4>5. QED  BY <3>18, <4>2, <4>3, <4>4, OutsideKeeps DEF Attach, Take
    <3>19. ASSUME Locate(h) PROVE FenceInv'
      <4>1. pc[h] = "carry" /\ pc'[h] = "up" /\ storage' = storage /\ (\A k \in Host : k # h => pc'[k] = pc[k] /\ storage'[k] = storage[k])
        BY <3>19, <3>a, <3>f DEF Locate, GiveBack, Process, Transacting
      <4>2. Early'  BY <4>1, <3>19, <3>a, <3>d DEF Early, TypeOK
      <4>3. \A k \in Host : Opening(k)' => Opening(k)
        BY <4>1, <3>19, <3>a, <3>d DEF Locate, GiveBack, Early, Opening, TypeOK
      <4>4. \A q \in Process : pc[q] \in Transacting => pc'[q] = pc[q]
        BY <3>19 DEF Locate, GiveBack, Transacting, TypeOK
      <4>5. QED  BY <3>19, <4>2, <4>3, <4>4, OutsideKeeps DEF Locate, GiveBack
    <3>20. QED
      BY <3>1, <3>2, <3>3, <3>4, <3>5, <3>6, <3>7, <3>8, <3>9, <3>10, <3>11, <3>12, <3>13, <3>14, <3>15, <3>16, <3>17, <3>18, <3>19 DEF Open
  <2>2. ASSUME NEW p \in Parent PROVE Resuming(p) => FenceInv'
    <3> USE DEF At, Goto
    <3>a. p \in Process /\ p \notin Host  BY DEF Process
    <3>b. ASSUME NEW k \in Host, Opening(k)
          PROVE  k \in alive /\ claim.row.owner = k /\ claim.row.state \in Taken
      BY <3>b DEF FenceInv, Owned, Opening
    <3>d. Early  BY DEF FenceInv
    <3>f. pc \in [Process -> Place] /\ storage \in [Host -> {"never-opened", "unknown", "failed", "closed", "open"}]
      BY DEF TypeOK
    <3>1. ASSUME Resume(p) PROVE FenceInv'
      <4>1. Early'  BY <3>1, <3>a, <3>d DEF Resume, Early, TypeOK
      <4>2. \A k \in Host : Opening(k)' => Opening(k)  BY <3>1, <3>a DEF Resume, Opening, TypeOK
      <4>3. \A q \in Process : pc[q] \in Transacting => pc'[q] = pc[q]
        BY <3>1 DEF Resume, Transacting, TypeOK
      <4>4. QED  BY <3>1, <4>1, <4>2, <4>3, OutsideKeeps DEF Resume
    <3>2. ASSUME TakeArmToReserve(p) PROVE FenceInv'
      <4>1. Early'  BY <3>2, <3>a, <3>d DEF TakeArmToReserve, Take, Early, TypeOK
      <4>2. \A k \in Host : Opening(k)' => Opening(k)  BY <3>2, <3>a DEF TakeArmToReserve, Take, Opening, TypeOK
      <4>3. \A q \in Process : pc[q] \in Transacting => pc'[q] = pc[q]
        BY <3>2 DEF TakeArmToReserve, Take, Transacting, TypeOK
      <4>4. QED  BY <3>2, <4>1, <4>2, <4>3, OutsideKeeps DEF TakeArmToReserve, Take
    <3>3. ASSUME Reserve(p) PROVE FenceInv'
      <4>1. p \in alive /\ pc[p] \in Transacting /\ tx = None  BY <3>3 DEF Reserve, Enter, Transacting
      <4>2. CASE Refused(p) /\ UNCHANGED tx  BY <3>a, <4>1, <4>2, RefusedKeeps
      <4>3. CASE Reservable /\ Draft(p, Reservation(p))
        <5>1. \A k \in Host : ~Opening(k)  BY <3>b, <4>3 DEF Reservable, Taken
        <5>3. QED  BY <3>3, <4>1, <4>3, <5>1, <3>a, DraftKeeps DEF Reservation
      <4>4. QED  BY <3>3, <4>2, <4>3 DEF Reserve, Enter
    <3>4. ASSUME LeaveReserve(p) PROVE FenceInv'
      <4>1. storage' = storage /\ (\A k \in Host : pc'[k] = pc[k])
        BY <3>4, <3>a, <3>f DEF LeaveReserve, GiveBack, Process, Transacting
      <4>2. Early'  BY <4>1, <3>4, <3>a, <3>d DEF Early, TypeOK
      <4>3. \A k \in Host : Opening(k)' => Opening(k)
        BY <4>1, <3>4, <3>a, <3>d DEF LeaveReserve, GiveBack, Early, Opening, TypeOK
      <4>4. \A q \in Process : pc[q] \in Transacting => pc'[q] = pc[q]
        BY <3>4 DEF LeaveReserve, GiveBack, Transacting, TypeOK
      <4>5. QED  BY <3>4, <4>2, <4>3, <4>4, OutsideKeeps DEF LeaveReserve, GiveBack
    <3>5. ASSUME Launch(p) PROVE FenceInv'
      <4>1. storage' = storage /\ (\A k \in Host : pc'[k] = pc[k] \/ (pc[k] = "idle" /\ pc'[k] = "arm"))
        <5>1. storage' = storage  BY <3>5 DEF Launch
        <5>2. \/ \E place : pc' = [pc EXCEPT ![p] = place]
              \/ \E k \in Host : pc[k] = "idle" /\ \E next : pc' = [pc EXCEPT ![k] = "arm", ![p] = next]
          BY <3>5, Zenon DEF Launch
        <5>3. CASE \E place : pc' = [pc EXCEPT ![p] = place]
          <6>1. PICK place : pc' = [pc EXCEPT ![p] = place]  BY <5>3
          <6>2. \A k \in Host : pc'[k] = pc[k]
            <7>1. ASSUME NEW k \in Host PROVE k # p /\ k \in Process  BY <3>a DEF Process
            <7>2. QED  BY <6>1, <7>1, <3>f
          <6>3. QED  BY <5>1, <6>2
        <5>4. CASE \E k \in Host : pc[k] = "idle" /\ \E next : pc' = [pc EXCEPT ![k] = "arm", ![p] = next]
          <6>1. PICK k \in Host : pc[k] = "idle" /\ \E next : pc' = [pc EXCEPT ![k] = "arm", ![p] = next]
            BY <5>4
          <6>2. PICK next : pc' = [pc EXCEPT ![k] = "arm", ![p] = next]  BY <6>1
          <6>3. ASSUME NEW q \in Host PROVE pc'[q] = IF q = k THEN "arm" ELSE pc[q]
            <7>1. q # p /\ q \in Process /\ k \in Process  BY <3>a DEF Process
            <7>2. QED  BY <6>2, <7>1, <3>f
          <6>4. pc[k] = "idle"  BY <6>1
          <6>5. QED  BY <5>1, <6>3, <6>4
        <5>5. QED  BY <5>2, <5>3, <5>4
      <4>2. Early'  BY <4>1, <3>5, <3>a, <3>d DEF Early, TypeOK
      <4>3. \A k \in Host : Opening(k)' => Opening(k)
        BY <4>1, <3>5, <3>a, <3>d DEF Launch, Early, Opening, TypeOK
      <4>4. \A q \in Process : pc[q] \in Transacting => pc'[q] = pc[q]
        BY <3>5 DEF Launch, Transacting, TypeOK
      <4>5. QED  BY <3>5, <4>2, <4>3, <4>4, OutsideKeeps DEF Launch
    <3>6. ASSUME Withdraw(p) PROVE FenceInv'
      <4>1. p \in alive /\ pc[p] \in Transacting /\ tx = None  BY <3>6 DEF Withdraw, Enter, Transacting
      <4>2. CASE Refused(p) /\ UNCHANGED tx  BY <3>a, <4>1, <4>2, RefusedKeeps
      <4>3. CASE Withdrawable(p) /\ Draft(p, Native([claim.donor EXCEPT !.gen = writes + 1], 0))
        <5>1. \A k \in Host : ~Opening(k)  BY <3>b, <4>3 DEF Withdrawable, Taken
        <5>2. [claim.donor EXCEPT !.gen = writes + 1].gen = writes + 1  BY DEF TypeOK, Claim, Row
        <5>3. QED  BY <3>6, <4>1, <4>3, <5>1, <5>2, <3>a, DraftKeeps DEF Native
      <4>4. QED  BY <3>6, <4>2, <4>3 DEF Withdraw, Enter
    <3>7. ASSUME Observe(p) PROVE FenceInv'
      <4>1. Early'  BY <3>7, <3>a, <3>d DEF Observe, Early, TypeOK
      <4>2. \A k \in Host : Opening(k)' => Opening(k)  BY <3>7, <3>a DEF Observe, Opening, TypeOK
      <4>3. \A q \in Process : pc[q] \in Transacting => pc'[q] = pc[q]
        BY <3>7 DEF Observe, Transacting, TypeOK
      <4>4. QED  BY <3>7, <4>1, <4>2, <4>3, OutsideKeeps DEF Observe
    <3>8. QED
      BY <3>1, <3>2, <3>3, <3>4, <3>5, <3>6, <3>7 DEF Resuming
  <2>3. ASSUME NEW p \in Process PROVE Common(p) => FenceInv'
    <3> USE DEF At, Goto
    <3>1. ASSUME Break(p) PROVE FenceInv'
      <4>1. p \in alive /\ pc[p] \in Transacting /\ (tx' = tx \/ hold[p] = "drafted")
        BY <3>1 DEF Break, FenceInv, OneInside
      <4>2. QED  BY <3>1, <4>1, RefusedKeeps DEF Break
    <3>2. ASSUME WaitEnds(p) PROVE FenceInv'
      BY <3>2, RefusedKeeps DEF WaitEnds
    <3>3. ASSUME ArmBusy(p) PROVE FenceInv'
      <4>1. Early'  BY <3>3 DEF ArmBusy, Rest, FenceInv, Early, TypeOK, Process
      <4>2. \A k \in Host : Opening(k)' => Opening(k)
        BY <3>3 DEF ArmBusy, Rest, Opening, TypeOK, Process
      <4>3. \A q \in Process : pc[q] \in Transacting => pc'[q] = pc[q]
        BY <3>3 DEF ArmBusy, Transacting, TypeOK
      <4>4. QED  BY <3>3, <4>1, <4>2, <4>3, OutsideKeeps DEF ArmBusy
    <3>4. QED
      BY <3>1, <3>2, <3>3, WriteKeeps, LeaveKeeps, DieKeeps DEF Common
  <2>4. ASSUME NEW s \in Spelling, ForeignLease(s) PROVE FenceInv'
    <3>1. Early'  BY <2>4 DEF ForeignLease, FenceInv, Early
    <3>2. \A k \in Host : Opening(k)' => Opening(k)  BY <2>4 DEF ForeignLease, Opening
    <3>3. QED  BY <2>4, <3>1, <3>2, OutsideKeeps DEF ForeignLease
  <2>5. CASE UNCHANGED vars
    <3>1. Early'  BY <2>5 DEF vars, FenceInv, Early
    <3>2. \A k \in Host : Opening(k)' => Opening(k)  BY <2>5 DEF vars, Opening
    <3>3. QED  BY <2>5, <3>1, <3>2, OutsideKeeps DEF vars
  <2>6. QED  BY <2>1, <2>2, <2>3, <2>4, <2>5 DEF Next
<1>3. QED  BY <1>1, <1>2, TypeCorrect, PTL DEF Spec

(* Whatever leases say, only one living host may have the storage open. *)
THEOREM OneUserAtATime == Spec => []OneUser
<1>1. FenceInv => OneUser  BY DEF FenceInv, Owned, Opening, OneUser, Using
<1>2. QED  BY <1>1, FenceInvariant, PTL


(***************************************************************************)
(* What a step does to the claim, to the drafts and to the history.  Every *)
(* step is one of four kinds.                                              *)
(***************************************************************************)
Still(p) ==
  hold'[p] # "no" => /\ hold'[p] = hold[p] /\ draft'[p] = draft[p] /\ pc'[p] = pc[p]
                     /\ ticket'[p] = ticket[p]
                     /\ p \in Host => source'[p] = source[p]
Remembers(p) ==
  \/ ticket'[p] \in {ticket[p], NoClaim}
  \/ hold[p] = "written" /\ ticket'[p] = draft[p]
Quiet == UNCHANGED <<claim, history>> /\ \A p \in Process : Still(p) /\ Remembers(p)
Drafts(h, b) ==
  /\ Draft(h, b)
  /\ b.row.state \notin {"none", "reserved"}
  /\ IF pc[h] = "admit" /\ source[h] # 0 THEN Adoptable(h) /\ b.adopted = claim.row.gen
     ELSE b.adopted \in {0, ticket[h].adopted}
Reserves(p) == pc[p] = "reserve" /\ Reservable /\ Draft(p, Reservation(p))
Withdraws(p) ==
  /\ pc[p] = "withdraw" /\ Withdrawable(p)
  /\ Draft(p, Native([claim.donor EXCEPT !.gen = writes + 1], 0))

LEMMA OverIsQuiet ==
  ASSUME TypeOK, NEW p \in Process, NEW place, NEW a, Over(p, place, a),
         \A q \in Process \ {p} : ticket'[q] = ticket[q],
         Remembers(p)
  PROVE  Quiet
<1>1. hold'[p] = "no"  BY DEF TypeOK, Over
<1>2. \A q \in Process \ {p} : hold'[q] = hold[q] /\ pc'[q] = pc[q] /\ draft'[q] = draft[q]
  BY DEF TypeOK, Over, Goto
<1>3. QED  BY <1>1, <1>2 DEF Over, Quiet, Still, Remembers, history

LEMMA RefusedIsQuiet ==
  ASSUME TypeOK, NEW p \in Process, Refused(p)
  PROVE  Quiet
BY OverIsQuiet DEF Refused, Remembers

(* A step that is in no transaction. *)
LEMMA OutsideIsQuiet ==
  ASSUME TypeOK, FenceInv, UNCHANGED <<claim, hold, draft, ticket, history>>,
         \A p \in Process : pc[p] \in Transacting => pc'[p] = pc[p],
         \A h \in Host : pc[h] \in Transacting => source'[h] = source[h]
  PROVE  Quiet
BY DEF Quiet, Still, Remembers, FenceInv, OneInside, history, Process

LEMMA StepKinds ==
  ASSUME TypeOK, FenceInv, [Next]_vars
  PROVE  \/ Quiet
         \/ \E p \in Process : Write(p)
         \/ \E h \in Host : \E b : Drafts(h, b)
         \/ \E p \in Parent : Reserves(p) \/ Withdraws(p)
<1> USE DEF files, locks, self, process, history, bounds
<1>1. ASSUME NEW h \in Host, Open(h) PROVE Quiet \/ \E b : Drafts(h, b)
  <2> USE DEF At, Goto
  <2>a. h \in Process  BY DEF Process
  <2>1. ASSUME Start(h) PROVE Quiet
    <3>1. \A q \in Process : pc[q] \in Transacting => pc'[q] = pc[q]
      BY <2>1 DEF Start, Transacting, TypeOK, Process
    <3>2. \A k \in Host : pc[k] \in Transacting => source'[k] = source[k]
      BY <2>1 DEF Start, Transacting, TypeOK
    <3>3. QED  BY <2>1, <3>1, <3>2, OutsideIsQuiet DEF Start
  <2>2. ASSUME NEW j \in Host, Relaunch(h, j) PROVE Quiet
    <3>1. \A q \in Process : pc[q] \in Transacting => pc'[q] = pc[q]
      BY <2>2 DEF Relaunch, Transacting, TypeOK, Process
    <3>2. \A k \in Host : pc[k] \in Transacting => source'[k] = source[k]
      BY <2>2 DEF Relaunch, Transacting, TypeOK
    <3>3. QED  BY <2>2, <3>1, <3>2, OutsideIsQuiet DEF Relaunch
  <2>3. ASSUME AdmitOwner(h) PROVE Quiet \/ \E b : Drafts(h, b)
    <3>1. CASE Refused(h)  BY <3>1, <2>a, RefusedIsQuiet
    <3>2. CASE Draft(h, Fenced(h, 0))
      <4> DEFINE b == Fenced(h, 0)
      <4>1. b.row.state = "fenced" /\ b.adopted = 0  BY DEF b, Fenced, Body, Native
      <4>2. source[h] = 0  BY <2>3 DEF AdmitOwner, Enter
      <4>3. Draft(h, b)  BY <3>2 DEF b
      <4> HIDE DEF b
      <4>4. Drafts(h, b)  BY <4>1, <4>2, <4>3 DEF Drafts
      <4>5. QED  BY <4>4
    <3>3. QED  BY <2>3, <3>1, <3>2 DEF AdmitOwner, Enter
  <2>4. ASSUME TakeArm(h) PROVE Quiet
    <3>1. \A q \in Process : pc[q] \in Transacting => pc'[q] = pc[q]
      BY <2>4 DEF TakeArm, Take, Transacting, TypeOK, Process
    <3>2. \A k \in Host : pc[k] \in Transacting => source'[k] = source[k]
      BY <2>4 DEF TakeArm, Take, Transacting, TypeOK
    <3>3. QED  BY <2>4, <3>1, <3>2, OutsideIsQuiet DEF TakeArm, Take
  <2>5. ASSUME AdoptOwner(h) PROVE Quiet \/ \E b : Drafts(h, b)
    <3>1. CASE Refused(h)  BY <3>1, <2>a, RefusedIsQuiet
    <3>2. CASE Adoptable(h) /\ Draft(h, Fenced(h, claim.row.gen))
      <4> DEFINE b == Fenced(h, claim.row.gen)
      <4>1. b.row.state = "fenced" /\ b.adopted = claim.row.gen  BY DEF b, Fenced, Body, Native
      <4>2. pc[h] = "admit" /\ source[h] # 0 /\ Adoptable(h)  BY <2>5, <3>2 DEF AdoptOwner
      <4>3. Draft(h, b)  BY <3>2 DEF b
      <4> HIDE DEF b
      <4>4. Drafts(h, b)  BY <4>1, <4>2, <4>3 DEF Drafts
      <4>5. QED  BY <4>4
    <3>3. QED  BY <2>5, <3>1, <3>2 DEF AdoptOwner, Enter
  <2>6. ASSUME LeaveAdoption(h) PROVE Quiet
    <3>1. \A q \in Process : pc[q] \in Transacting => pc'[q] = pc[q]
      BY <2>6 DEF LeaveAdoption, GiveBack, Transacting, TypeOK, Process
    <3>2. \A k \in Host : pc[k] \in Transacting => source'[k] = source[k]
      BY <2>6 DEF LeaveAdoption, GiveBack, Transacting, TypeOK
    <3>3. QED  BY <2>6, <3>1, <3>2, OutsideIsQuiet DEF LeaveAdoption, GiveBack
  <2>7. ASSUME TakeLease(h) PROVE Quiet
    <3>1. \A q \in Process : pc[q] \in Transacting => pc'[q] = pc[q]
      BY <2>7 DEF TakeLease, Transacting, TypeOK, Process
    <3>2. \A k \in Host : pc[k] \in Transacting => source'[k] = source[k]
      BY <2>7 DEF TakeLease, Transacting, TypeOK
    <3>3. QED  BY <2>7, <3>1, <3>2, OutsideIsQuiet DEF TakeLease
  <2>8. ASSUME LeaseRefused(h) PROVE Quiet
    <3>1. \A q \in Process : pc[q] \in Transacting => pc'[q] = pc[q]
      BY <2>8 DEF LeaseRefused, Transacting, TypeOK, Process
    <3>2. \A k \in Host : pc[k] \in Transacting => source'[k] = source[k]
      BY <2>8 DEF LeaseRefused, Transacting, TypeOK
    <3>3. QED  BY <2>8, <3>1, <3>2, OutsideIsQuiet DEF LeaseRefused
  <2>9. ASSUME Leased(h) PROVE Quiet \/ \E b : Drafts(h, b)
    <3>1. CASE Refused(h)  BY <3>1, <2>a, RefusedIsQuiet
    <3>2. CASE Draft(h, Body(h, "leased", "held", FALSE, ticket[h].adopted))
      <4> DEFINE b == Body(h, "leased", "held", FALSE, ticket[h].adopted)
      <4>1. b.row.state = "leased" /\ b.adopted = ticket[h].adopted  BY DEF b, Fenced, Body, Native
      <4>2. pc[h] # "admit"  BY <2>9 DEF Leased, Transition, Enter
      <4>3. Draft(h, b)  BY <3>2 DEF b
      <4> HIDE DEF b
      <4>4. Drafts(h, b)  BY <4>1, <4>2, <4>3 DEF Drafts
      <4>5. QED  BY <4>4
    <3>3. QED  BY <2>9, <3>1, <3>2 DEF Leased, Transition, Enter
  <2>10. ASSUME EndUnleased(h) PROVE Quiet \/ \E b : Drafts(h, b)
    <3>1. CASE Refused(h)  BY <3>1, <2>a, RefusedIsQuiet
    <3>2. CASE Draft(h, Body(h, "closed", "never-held", FALSE, ticket[h].adopted))
      <4> DEFINE b == Body(h, "closed", "never-held", FALSE, ticket[h].adopted)
      <4>1. b.row.state = "closed" /\ b.adopted = ticket[h].adopted  BY DEF b, Fenced, Body, Native
      <4>2. pc[h] # "admit"  BY <2>10 DEF EndUnleased, Transition, Enter
      <4>3. Draft(h, b)  BY <3>2 DEF b
      <4> HIDE DEF b
      <4>4. Drafts(h, b)  BY <4>1, <4>2, <4>3 DEF Drafts
      <4>5. QED  BY <4>4
    <3>3. QED  BY <2>10, <3>1, <3>2 DEF EndUnleased, Transition, Enter
  <2>11. ASSUME OpenStorage(h) PROVE Quiet
    <3>1. \A q \in Process : pc[q] \in Transacting => pc'[q] = pc[q]
      BY <2>11 DEF OpenStorage, Transacting, TypeOK, Process
    <3>2. \A k \in Host : pc[k] \in Transacting => source'[k] = source[k]
      BY <2>11 DEF OpenStorage, Transacting, TypeOK
    <3>3. QED  BY <2>11, <3>1, <3>2, OutsideIsQuiet DEF OpenStorage
  <2>12. ASSUME StorageOpened(h) PROVE Quiet \/ \E b : Drafts(h, b)
    <3>1. CASE Refused(h)  BY <3>1, <2>a, RefusedIsQuiet
    <3>2. CASE Draft(h, Body(h, "storage-open", "held", FALSE, ticket[h].adopted))
      <4> DEFINE b == Body(h, "storage-open", "held", FALSE, ticket[h].adopted)
      <4>1. b.row.state = "storage-open" /\ b.adopted = ticket[h].adopted  BY DEF b, Fenced, Body, Native
      <4>2. pc[h] # "admit"  BY <2>12 DEF StorageOpened, Transition, Enter
      <4>3. Draft(h, b)  BY <3>2 DEF b
      <4> HIDE DEF b
      <4>4. Drafts(h, b)  BY <4>1, <4>2, <4>3 DEF Drafts
      <4>5. QED  BY <4>4
    <3>3. QED  BY <2>12, <3>1, <3>2 DEF StorageOpened, Transition, Enter
  <2>13. ASSUME Close(h) PROVE Quiet
    <3>1. \A q \in Process : pc[q] \in Transacting => pc'[q] = pc[q]
      BY <2>13 DEF Close, Transacting, TypeOK, Process
    <3>2. \A k \in Host : pc[k] \in Transacting => source'[k] = source[k]
      BY <2>13 DEF Close, Transacting, TypeOK
    <3>3. QED  BY <2>13, <3>1, <3>2, OutsideIsQuiet DEF Close
  <2>14. ASSUME Shut(h) PROVE Quiet
    <3>1. \A q \in Process : pc[q] \in Transacting => pc'[q] = pc[q]
      BY <2>14 DEF Shut, Transacting, TypeOK, Process
    <3>2. \A k \in Host : pc[k] \in Transacting => source'[k] = source[k]
      BY <2>14 DEF Shut, Transacting, TypeOK
    <3>3. QED  BY <2>14, <3>1, <3>2, OutsideIsQuiet DEF Shut
  <2>15. ASSUME Release(h) PROVE Quiet
    <3>1. \A q \in Process : pc[q] \in Transacting => pc'[q] = pc[q]
      BY <2>15 DEF Release, Transacting, TypeOK, Process
    <3>2. \A k \in Host : pc[k] \in Transacting => source'[k] = source[k]
      BY <2>15 DEF Release, Transacting, TypeOK
    <3>3. QED  BY <2>15, <3>1, <3>2, OutsideIsQuiet DEF Release
  <2>16. ASSUME Closed(h) PROVE Quiet \/ \E b : Drafts(h, b)
    <3>1. CASE Refused(h)  BY <3>1, <2>a, RefusedIsQuiet
    <3>2. CASE Draft(h, Body(h, "closed", "released", storage[h] = "closed", ticket[h].adopted))
      <4> DEFINE b == Body(h, "closed", "released", storage[h] = "closed", ticket[h].adopted)
      <4>1. b.row.state = "closed" /\ b.adopted = ticket[h].adopted  BY DEF b, Fenced, Body, Native
      <4>2. pc[h] # "admit"  BY <2>16 DEF Closed, Ended, Transition, Enter
      <4>3. Draft(h, b)  BY <3>2 DEF b
      <4> HIDE DEF b
      <4>4. Drafts(h, b)  BY <4>1, <4>2, <4>3 DEF Drafts
      <4>5. QED  BY <4>4
    <3>3. QED  BY <2>16, <3>1, <3>2 DEF Closed, Ended, Transition, Enter
  <2>17. ASSUME CloseFailed(h) PROVE Quiet \/ \E b : Drafts(h, b)
    <3>1. CASE Refused(h)  BY <3>1, <2>a, RefusedIsQuiet
    <3>2. ASSUME NEW outcome, Draft(h, Body(h, "close-failed", outcome, storage[h] = "closed", ticket[h].adopted))
          PROVE  \E b : Drafts(h, b)
      <4> DEFINE b == Body(h, "close-failed", outcome, storage[h] = "closed", ticket[h].adopted)
      <4>1. b.row.state = "close-failed" /\ b.adopted = ticket[h].adopted  BY DEF b, Body, Native
      <4>2. pc[h] # "admit"  BY <2>17 DEF CloseFailed
      <4>3. Draft(h, b)  BY <3>2 DEF b
      <4> HIDE DEF b
      <4>4. Drafts(h, b)  BY <4>1, <4>2, <4>3 DEF Drafts
      <4>5. QED  BY <4>4
    <3>3. QED  BY <2>17, <3>1, <3>2 DEF CloseFailed, Ended, Transition, Enter
  <2>18. ASSUME Attach(h) PROVE Quiet
    <3>1. \A q \in Process : pc[q] \in Transacting => pc'[q] = pc[q]
      BY <2>18 DEF Attach, Take, Transacting, TypeOK, Process
    <3>2. \A k \in Host : pc[k] \in Transacting => source'[k] = source[k]
      BY <2>18 DEF Attach, Take, Transacting, TypeOK
    <3>3. QED  BY <2>18, <3>1, <3>2, OutsideIsQuiet DEF Attach, Take
  <2>19. ASSUME Locate(h) PROVE Quiet
    <3>1. \A q \in Process : pc[q] \in Transacting => pc'[q] = pc[q]
      BY <2>19 DEF Locate, GiveBack, Transacting, TypeOK, Process
    <3>2. \A k \in Host : pc[k] \in Transacting => source'[k] = source[k]
      BY <2>19 DEF Locate, GiveBack, Transacting, TypeOK
    <3>3. QED  BY <2>19, <3>1, <3>2, OutsideIsQuiet DEF Locate, GiveBack
  <2>20. QED
    BY <1>1, <2>1, <2>2, <2>3, <2>4, <2>5, <2>6, <2>7, <2>8, <2>9, <2>10, <2>11, <2>12, <2>13, <2>14, <2>15, <2>16, <2>17, <2>18, <2>19 DEF Open
<1>2. ASSUME NEW p \in Parent, Resuming(p) PROVE Quiet \/ Reserves(p) \/ Withdraws(p)
  <2> USE DEF At, Goto
  <2>a. p \in Process  BY DEF Process
  <2>1. ASSUME Resume(p) PROVE Quiet
    <3>1. \A q \in Process : pc[q] \in Transacting => pc'[q] = pc[q]
      BY <2>1 DEF Resume, Transacting, TypeOK, Process
    <3>2. \A k \in Host : pc[k] \in Transacting => source'[k] = source[k]
      BY <2>1 DEF Resume, Transacting, TypeOK
    <3>3. QED  BY <2>1, <3>1, <3>2, OutsideIsQuiet DEF Resume
  <2>2. ASSUME TakeArmToReserve(p) PROVE Quiet
    <3>1. \A q \in Process : pc[q] \in Transacting => pc'[q] = pc[q]
      BY <2>2 DEF TakeArmToReserve, Take, Transacting, TypeOK, Process
    <3>2. \A k \in Host : pc[k] \in Transacting => source'[k] = source[k]
      BY <2>2 DEF TakeArmToReserve, Take, Transacting, TypeOK
    <3>3. QED  BY <2>2, <3>1, <3>2, OutsideIsQuiet DEF TakeArmToReserve, Take
  <2>3. ASSUME Reserve(p) PROVE Quiet \/ Reserves(p)
    BY <2>3, <2>a, RefusedIsQuiet DEF Reserve, Enter, Reserves
  <2>4. ASSUME LeaveReserve(p) PROVE Quiet
    <3>1. \A q \in Process : pc[q] \in Transacting => pc'[q] = pc[q]
      BY <2>4 DEF LeaveReserve, GiveBack, Transacting, TypeOK, Process
    <3>2. \A k \in Host : pc[k] \in Transacting => source'[k] = source[k]
      BY <2>4 DEF LeaveReserve, GiveBack, Transacting, TypeOK
    <3>3. QED  BY <2>4, <3>1, <3>2, OutsideIsQuiet DEF LeaveReserve, GiveBack
  <2>5. ASSUME Launch(p) PROVE Quiet
    <3>1. ASSUME NEW k \in Host, pc[k] = "idle", NEW next, pc' = [pc EXCEPT ![k] = "arm", ![p] = next],
                 source' = [source EXCEPT ![k] = ticket[p].row.gen]
          PROVE  Quiet
      <4>1. \A q \in Process : pc[q] \in Transacting => pc'[q] = pc[q]
        BY <2>5, <3>1 DEF Launch, Transacting, TypeOK, Process
      <4>2. \A j \in Host : pc[j] \in Transacting => source'[j] = source[j]
        BY <3>1 DEF Transacting, TypeOK
      <4>3. QED  BY <2>5, <4>1, <4>2, OutsideIsQuiet DEF Launch
    <3>2. ASSUME NEW next, pc' = [pc EXCEPT ![p] = next], source' = source
          PROVE  Quiet
      <4>1. \A q \in Process : pc[q] \in Transacting => pc'[q] = pc[q]
        BY <2>5, <3>2 DEF Launch, Transacting, TypeOK
      <4>2. QED  BY <2>5, <3>2, <4>1, OutsideIsQuiet DEF Launch
    <3>3. QED  BY <2>5, <3>1, <3>2 DEF Launch
  <2>6. ASSUME Withdraw(p) PROVE Quiet \/ Withdraws(p)
    BY <2>6, <2>a, RefusedIsQuiet DEF Withdraw, Enter, Withdraws
  <2>7. ASSUME Observe(p) PROVE Quiet
    <3>1. \A q \in Process : pc[q] \in Transacting => pc'[q] = pc[q]
      BY <2>7 DEF Observe, Transacting, TypeOK, Process
    <3>2. \A k \in Host : pc[k] \in Transacting => source'[k] = source[k]
      BY <2>7 DEF Observe, Transacting, TypeOK
    <3>3. QED  BY <2>7, <3>1, <3>2, OutsideIsQuiet DEF Observe
  <2>8. QED
    BY <1>2, <2>1, <2>2, <2>3, <2>4, <2>5, <2>6, <2>7 DEF Resuming
<1>3. ASSUME NEW p \in Process, Common(p) PROVE Quiet \/ Write(p)
  <2>1. ASSUME Leave(p) PROVE Quiet
    BY <2>1, OverIsQuiet DEF Leave, Remembers, TypeOK
  <2>2. ASSUME Break(p) \/ WaitEnds(p) PROVE Quiet
    BY <2>2, RefusedIsQuiet DEF Break, WaitEnds
  <2>3. ASSUME ArmBusy(p) PROVE Quiet
    <3>1. \A q \in Process : pc[q] \in Transacting => pc'[q] = pc[q]
      BY <2>3 DEF ArmBusy, At, Goto, Transacting, TypeOK
    <3>2. QED  BY <2>3, <3>1, OutsideIsQuiet DEF ArmBusy
  <2>4. ASSUME Die(p) PROVE Quiet
    <3>1. hold'[p] = "no"  BY <2>4 DEF Die, TypeOK
    <3>2. \A q \in Process \ {p} : hold'[q] = hold[q] /\ pc'[q] = pc[q] /\ draft'[q] = draft[q]
                                   /\ ticket'[q] = ticket[q]
      BY <2>4 DEF Die, Goto, TypeOK
    <3>3. QED  BY <2>4, <3>1, <3>2 DEF Die, Quiet, Still, Remembers, TypeOK
  <2>5. QED  BY <1>3, <2>1, <2>2, <2>3, <2>4 DEF Common
<1>4. ASSUME NEW s \in Spelling, ForeignLease(s) PROVE Quiet
  BY <1>4 DEF ForeignLease, Quiet, Still, Remembers
<1>5. ASSUME UNCHANGED vars PROVE Quiet
  BY <1>5 DEF vars, Quiet, Still, Remembers
<1>6. QED  BY <1>1, <1>2, <1>3, <1>4, <1>5, Zenon DEF Next


(***************************************************************************)
(* A reservation is adopted once.                                          *)
(***************************************************************************)
THEOREM SupersededInvariant == Spec => [](Superseded /\ AdoptedOnce)
<1> DEFINE Inv == Superseded /\ AdoptedOnce
<1>1. Init => Inv  BY DEF Init, Superseded, AdoptedOnce
<1>2. ASSUME TypeOK, FenceInv, Inv, [Next]_vars PROVE Inv'
  <2>a. claim.row.gen \in Nat  BY <1>2 DEF TypeOK, Claim, Row, Generation
  <2>1. ASSUME Quiet PROVE Inv'
    <3>1. AdoptedOnce'  BY <1>2, <2>1 DEF Quiet, AdoptedOnce, history
    <3>2. Superseded'  BY <1>2, <2>1 DEF Quiet, Still, Superseded, history
    <3>3. QED  BY <3>1, <3>2
  <2>2. ASSUME NEW p \in Process, Write(p) PROVE Inv'
    <3>1. claim' = draft[p] /\ claim.row.gen < draft[p].row.gen
      BY <1>2, <2>2 DEF Write, FenceInv, Numbered
    <3>2. draft[p].row.gen \in Nat  BY <1>2 DEF TypeOK, Claim, Row, Generation
    <3>3. \A q \in Process : hold'[q] # "drafted"
      BY <1>2, <2>2 DEF Write, FenceInv, OneInside, TypeOK
    <3>4. ASSUME NEW a \in adoptions' PROVE a \in adoptions \/ (a = <<claim.row.gen, p>> /\ withdrawn' = withdrawn)
      BY <1>2, <2>2 DEF Write, Superseded
    <3>5. ASSUME NEW g \in withdrawn' PROVE g \in withdrawn \/ (g = claim.row.gen /\ adoptions' = adoptions)
      BY <1>2, <2>2 DEF Write, Superseded
    <3>6. (\A a \in adoptions : a[1] \in Nat /\ a[1] < claim.row.gen) /\ (\A g \in withdrawn : g \in Nat /\ g < claim.row.gen)
      BY <1>2 DEF Superseded, TypeOK, Generation
    <3>7. Superseded'
      <4>1. \A a \in adoptions' : a[1] < draft[p].row.gen  BY <2>a, <3>1, <3>2, <3>4, <3>6
      <4>2. \A g \in withdrawn' : g < draft[p].row.gen  BY <2>a, <3>1, <3>2, <3>5, <3>6
      <4>3. QED  BY <3>1, <3>3, <4>1, <4>2 DEF Superseded
    <3>8. AdoptedOnce'
      <4>1. ASSUME NEW a \in adoptions', NEW b \in adoptions', a[1] = b[1] PROVE a = b
        <5>1. CASE a \in adoptions /\ b \in adoptions  BY <1>2, <4>1, <5>1 DEF AdoptedOnce
        <5>2. QED  BY <2>a, <3>4, <3>6, <4>1, <5>1
      <4>2. ASSUME NEW a \in adoptions' PROVE a[1] \notin withdrawn'
        <5>1. CASE a \in adoptions  BY <1>2, <2>a, <3>5, <3>6, <5>1 DEF AdoptedOnce
        <5>2. CASE a \notin adoptions  BY <2>a, <3>4, <3>6, <5>2
        <5>3. QED  BY <5>1, <5>2
      <4>3. QED  BY <4>1, <4>2 DEF AdoptedOnce
    <3>9. QED  BY <3>7, <3>8
  <2>3. ASSUME NEW p \in Process, NEW b, Draft(p, b),
               p \in Host /\ pc[p] = "admit" /\ source[p] # 0 => claim.row.gen = source[p],
               pc[p] = "withdraw" => claim.row.gen = ticket[p].row.gen
        PROVE  Inv'
    <3>1. UNCHANGED <<claim, adoptions, withdrawn, pc, ticket, source>>  BY <2>3 DEF Draft, history
    <3>2. \A q \in Process : hold'[q] = "drafted" => q = p \/ hold[q] = "drafted"
      BY <1>2, <2>3 DEF Draft, TypeOK
    <3>3. AdoptedOnce'  BY <1>2, <3>1 DEF AdoptedOnce
    <3>4. Superseded'
      <4>1. ASSUME NEW q \in Process, hold'[q] = "drafted"
            PROVE  /\ q \in Host /\ pc[q] = "admit" /\ source[q] # 0 => claim.row.gen = source[q]
                   /\ pc[q] = "withdraw" => claim.row.gen = ticket[q].row.gen
        BY <1>2, <2>3, <3>2, <4>1 DEF Superseded
      <4>2. QED  BY <1>2, <3>1, <4>1 DEF Superseded
    <3>5. QED  BY <3>3, <3>4
  <2>4. ASSUME NEW h \in Host, NEW b, Drafts(h, b) PROVE Inv'
    <3>1. h \in Process /\ pc[h] # "withdraw"  BY <1>2 DEF FenceInv, Early, Process
    <3>2. pc[h] = "admit" /\ source[h] # 0 => claim.row.gen = source[h]
      BY <2>4 DEF Drafts, Adoptable
    <3>3. QED  BY <2>3, <2>4, <3>1, <3>2 DEF Drafts
  <2>5. ASSUME NEW p \in Parent, Reserves(p) PROVE Inv'
    <3>1. p \in Process /\ p \notin Host  BY DEF Process
    <3>2. QED  BY <2>3, <2>5, <3>1 DEF Reserves
  <2>6. ASSUME NEW p \in Parent, Withdraws(p) PROVE Inv'
    <3>1. p \in Process /\ p \notin Host  BY DEF Process
    <3>2. QED  BY <2>3, <2>6, <3>1 DEF Withdraws, Withdrawable
  <2>7. QED  BY <1>2, <2>1, <2>2, <2>4, <2>5, <2>6, StepKinds
<1>3. QED  BY <1>1, <1>2, TypeCorrect, FenceInvariant, PTL DEF Spec

(* Whoever dies and whatever is run twice, no reservation is adopted twice or after its       *)
(* withdrawal.                                                                              *)
THEOREM OneAdoption == Spec => []AdoptedOnce
BY SupersededInvariant, PTL

(***************************************************************************)
(* The outcome of the last open is kept.                                   *)
(***************************************************************************)
LEMMA ReservationKeeps ==
  ASSUME TypeOK, RealDonor(claim), Reservable, NEW p
  PROVE  RealDonor(Reservation(p)) /\ Kept(Reservation(p)) = Kept(claim)
BY DEF Reservation, Reservable, RealDonor, Kept, Donor

LEMMA WithdrawalKeeps ==
  ASSUME TypeOK, RealDonor(claim), NEW p, Withdrawable(p), NEW g \in Generation
  PROVE  LET w == Native([claim.donor EXCEPT !.gen = g], 0)
         IN  RealDonor(w) /\ Kept(w) = Kept(claim)
<1> DEFINE w == Native([claim.donor EXCEPT !.gen = g], 0)
<1>1. claim.donor \in Row  BY DEF TypeOK, Claim
<1>2. w.row = [claim.donor EXCEPT !.gen = g]  BY DEF Native
<1>3. w.row.state = claim.donor.state  BY <1>1, <1>2 DEF Row
<1>4. w.row.state # "reserved"  BY <1>3 DEF RealDonor, Withdrawable
<1>5. [w.row EXCEPT !.gen = 0] = [claim.donor EXCEPT !.gen = 0]  BY <1>1, <1>2 DEF Row
<1> HIDE DEF w
<1>6. RealDonor(w) /\ Kept(w) = Kept(claim)  BY <1>4, <1>5 DEF RealDonor, Kept, Withdrawable
<1>7. QED  BY <1>6 DEF w

THEOREM FaithfulInvariant == Spec => [](Faithful /\ LastOpenIsKept)
<1> DEFINE Inv == Faithful /\ LastOpenIsKept
<1>1. Init => Inv
  BY DEF Init, Faithful, RealDonor, LastOpenIsKept, NoClaim, NoRow, Native
<1>2. ASSUME TypeOK, FenceInv, FenceInv', Inv, [Next]_vars PROVE Inv'
  <2>1. ASSUME Quiet PROVE Inv'
    <3>1. claim' = claim /\ native' = native  BY <2>1 DEF Quiet, history
    <3>2. ASSUME NEW q \in Process, hold'[q] = "drafted" PROVE hold[q] = "drafted" /\ draft'[q] = draft[q]
      BY <2>1, <3>2 DEF Quiet, Still
    <3>3. QED  BY <1>2, <3>1, <3>2 DEF Faithful, LastOpenIsKept, RealDonor, Kept
  <2>2. ASSUME NEW p \in Process, Write(p) PROVE Inv'
    <3>1. hold[p] = "drafted" /\ claim' = draft[p] /\ RealDonor(draft[p])
      BY <1>2, <2>2 DEF Write, Faithful
    <3>2. \A q \in Process : hold'[q] # "drafted"
      BY <1>2, <2>2 DEF Write, FenceInv, OneInside, TypeOK
    <3>3. Faithful'  BY <3>1, <3>2 DEF Faithful, RealDonor
    <3>4. CASE p \in Host
      <4>1. draft[p].row.state \notin {"none", "reserved"} /\ native' = draft[p].row
        BY <1>2, <2>2, <3>1, <3>4 DEF Write, FenceInv, Drafted
      <4>2. QED  BY <3>1, <3>3, <4>1 DEF LastOpenIsKept, Kept
    <3>5. CASE p \notin Host
      <4>1. native' = native /\ Kept(draft[p]) = Kept(claim) /\ claim.row.state # "none"
        BY <1>2, <2>2, <3>1, <3>5 DEF Write, Faithful, Process
      <4>2. QED  BY <1>2, <3>1, <3>3, <4>1 DEF LastOpenIsKept, Kept
    <3>6. QED  BY <3>4, <3>5
  <2>3. ASSUME NEW p \in Process, NEW b, Draft(p, b), RealDonor(b),
               p \in Parent => claim.row.state # "none" /\ Kept(b) = Kept(claim)
        PROVE  Inv'
    <3>1. claim' = claim /\ native' = native /\ draft'[p] = b
      BY <1>2, <2>3 DEF Draft, history, TypeOK
    <3>2. \A q \in Process \ {p} : hold'[q] = hold[q] /\ draft'[q] = draft[q]
      BY <1>2, <2>3 DEF Draft, TypeOK
    <3>3. LastOpenIsKept'  BY <1>2, <3>1 DEF LastOpenIsKept, Kept
    <3>4. ASSUME NEW q \in Process, hold'[q] = "drafted"
          PROVE  RealDonor(draft'[q]) /\ (q \in Parent => claim.row.state # "none" /\ Kept(draft'[q]) = Kept(claim))
      BY <1>2, <2>3, <3>1, <3>2, <3>4 DEF Faithful
    <3>5. Faithful'  BY <1>2, <3>1, <3>4 DEF Faithful, RealDonor, Kept
    <3>6. QED  BY <3>3, <3>5
  <2>4. ASSUME NEW h \in Host, NEW b, Drafts(h, b) PROVE Inv'
    <3>1. h \in Process /\ h \notin Parent  BY DEF Process
    <3>2. RealDonor(b)  BY <2>4 DEF Drafts, RealDonor
    <3>3. QED  BY <2>3, <2>4, <3>1, <3>2 DEF Drafts
  <2>5. ASSUME NEW p \in Parent, Reserves(p) PROVE Inv'
    <3>1. p \in Process  BY DEF Process
    <3>2. claim.row.state # "none"  BY <2>5 DEF Reserves, Reservable
    <3>3. RealDonor(Reservation(p)) /\ Kept(Reservation(p)) = Kept(claim)
      BY <1>2, <2>5, ReservationKeeps DEF Reserves, Faithful
    <3>4. QED  BY <2>3, <2>5, <3>1, <3>2, <3>3 DEF Reserves
  <2>6. ASSUME NEW p \in Parent, Withdraws(p) PROVE Inv'
    <3>1. p \in Process  BY DEF Process
    <3>2. claim.row.state # "none"  BY <2>6 DEF Withdraws, Withdrawable
    <3>3. writes + 1 \in Generation  BY <1>2, <2>6 DEF Withdraws, Draft, TypeOK, Generation
    <3>4. LET w == Native([claim.donor EXCEPT !.gen = writes + 1], 0)
          IN  RealDonor(w) /\ Kept(w) = Kept(claim)
      BY <1>2, <2>6, <3>3, WithdrawalKeeps DEF Withdraws, Faithful
    <3>5. QED  BY <2>3, <2>6, <3>1, <3>2, <3>4 DEF Withdraws
  <2>7. QED  BY <1>2, <2>1, <2>2, <2>4, <2>5, <2>6, StepKinds
<1>3. QED  BY <1>1, <1>2, TypeCorrect, FenceInvariant, PTL DEF Spec

(* Through every chain of reservations and withdrawals, what the last open left is kept. *)
THEOREM OutcomeIsKept == Spec => []LastOpenIsKept
BY FaithfulInvariant, PTL


(***************************************************************************)
(* What a resume answered stays true.                                      *)
(***************************************************************************)
LEMMA RecordedKeeps ==
  ASSUME TypeOK, FenceInv, Recorded, [Next]_vars
  PROVE  Recorded' /\ adoptions \subseteq adoptions'
<1>1. CASE Quiet
  <2>1. claim' = claim /\ adoptions' = adoptions  BY <1>1 DEF Quiet, history
  <2>2. \A g : Adopted(g)' <=> Adopted(g)  BY <2>1 DEF Adopted
  <2>3. ASSUME NEW q \in Process, ticket'[q].adopted # 0 PROVE Adopted(ticket'[q].adopted)
    <3>1. CASE ticket'[q] = ticket[q]  BY <2>3, <3>1 DEF Recorded
    <3>2. CASE ticket'[q] = NoClaim  BY <2>3, <3>2 DEF NoClaim, Native
    <3>3. CASE hold[q] = "written" /\ ticket'[q] = draft[q]  BY <2>3, <3>3 DEF Recorded
    <3>4. QED  BY <1>1, <3>1, <3>2, <3>3 DEF Quiet, Remembers
  <2>4. ASSUME NEW q \in Process, hold'[q] # "no", draft'[q].adopted # 0
        PROVE  \/ Adopted(draft'[q].adopted)
               \/ /\ q \in Host /\ hold'[q] = "drafted" /\ pc'[q] = "admit" /\ source'[q] # 0
                  /\ draft'[q].adopted = source'[q]
    <3>1. /\ hold'[q] = hold[q] /\ draft'[q] = draft[q] /\ pc'[q] = pc[q]
          /\ q \in Host => source'[q] = source[q]
      BY <1>1, <2>4 DEF Quiet, Still
    <3>2. QED  BY <2>4, <3>1 DEF Recorded
  <2>5. QED  BY <2>1, <2>2, <2>3, <2>4 DEF Recorded
<1>2. ASSUME NEW p \in Process, Write(p) PROVE Recorded' /\ adoptions \subseteq adoptions'
  <2>1. adoptions \subseteq adoptions'  BY <1>2 DEF Write
  <2>2. \A g : Adopted(g) => Adopted(g)'  BY <2>1 DEF Adopted
  <2>3. /\ claim' = draft[p] /\ hold[p] = "drafted" /\ UNCHANGED <<ticket, draft, pc, source>>
        /\ hold'[p] = "written" /\ \A q \in Process \ {p} : hold'[q] = hold[q]
    BY <1>2 DEF Write, TypeOK
  <2>4. draft[p].adopted # 0 => Adopted(draft[p].adopted)'
    <3>1. CASE p \in Host /\ pc[p] = "admit" /\ source[p] # 0 /\ draft[p].adopted = source[p]
      <4>1. <<source[p], p>> \in adoptions'  BY <1>2, <3>1 DEF Write
      <4>2. QED  BY <2>3, <3>1, <4>1 DEF Adopted
    <3>2. QED  BY <2>2, <2>3, <3>1 DEF Recorded
  <2>5. ASSUME NEW q \in Process PROVE hold'[q] # "no" => q = p
    BY <2>3 DEF FenceInv, OneInside
  <2>6. \A q \in Process : ticket[q].adopted # 0 => Adopted(ticket[q].adopted)'
    BY <2>2, <2>3 DEF Recorded
  <2>7. QED  BY <2>1, <2>3, <2>4, <2>5, <2>6 DEF Recorded
<1>3. ASSUME NEW p \in Process, NEW b, Draft(p, b),
             b.adopted # 0 => \/ Adopted(b.adopted)
                              \/ p \in Host /\ pc[p] = "admit" /\ source[p] # 0 /\ b.adopted = source[p]
      PROVE  Recorded' /\ adoptions \subseteq adoptions'
  <2>1. /\ UNCHANGED <<claim, adoptions, pc, ticket, source>>
        /\ hold'[p] = "drafted" /\ draft'[p] = b
        /\ \A q \in Process \ {p} : hold'[q] = hold[q] /\ draft'[q] = draft[q]
    BY <1>3 DEF Draft, history, TypeOK
  <2>2. \A g : Adopted(g)' <=> Adopted(g)  BY <2>1 DEF Adopted
  <2>3. ASSUME NEW q \in Process, hold'[q] # "no", draft'[q].adopted # 0
        PROVE  \/ Adopted(draft'[q].adopted)
               \/ /\ q \in Host /\ hold'[q] = "drafted" /\ pc[q] = "admit" /\ source[q] # 0
                  /\ draft'[q].adopted = source[q]
    BY <1>3, <2>1, <2>3 DEF Recorded
  <2>4. QED  BY <2>1, <2>2, <2>3 DEF Recorded
<1>4. ASSUME NEW h \in Host, NEW b, Drafts(h, b) PROVE Recorded' /\ adoptions \subseteq adoptions'
  <2>1. h \in Process  BY DEF Process
  <2>2. CASE pc[h] = "admit" /\ source[h] # 0
    BY <1>3, <1>4, <2>1, <2>2 DEF Drafts, Adoptable
  <2>3. CASE ~(pc[h] = "admit" /\ source[h] # 0)
    BY <1>3, <1>4, <2>1, <2>3 DEF Drafts, Recorded
  <2>4. QED  BY <2>2, <2>3
<1>5. ASSUME NEW p \in Parent, Reserves(p) PROVE Recorded' /\ adoptions \subseteq adoptions'
  <2>1. p \in Process /\ Reservation(p).adopted = 0  BY DEF Process, Reservation
  <2>2. QED  BY <1>3, <1>5, <2>1 DEF Reserves
<1>6. ASSUME NEW p \in Parent, Withdraws(p) PROVE Recorded' /\ adoptions \subseteq adoptions'
  <2>1. p \in Process /\ Native([claim.donor EXCEPT !.gen = writes + 1], 0).adopted = 0
    BY DEF Process, Native
  <2>2. QED  BY <1>3, <1>6, <2>1 DEF Withdraws
<1>7. QED  BY <1>1, <1>2, <1>4, <1>5, <1>6, StepKinds

(* A parent's own state changes by its own steps only. *)
Mine(p) == <<pc[p], hold[p], draft[p], ticket[p], answer[p]>>

LEMMA OthersLeaveAlone ==
  ASSUME TypeOK, NEW p \in Parent, [Next]_vars
  PROVE  UNCHANGED Mine(p) \/ Resuming(p) \/ Common(p)
<1> USE DEF files, locks, self, process, history, bounds
<1>a. p \in Process /\ p \notin Host  BY DEF Process
<1>1. ASSUME NEW q \in Process \ {p}, NEW place, NEW a, Over(q, place, a), ticket'[p] = ticket[p]
      PROVE  UNCHANGED Mine(p)
  <2>1. pc'[p] = pc[p] /\ hold'[p] = hold[p] /\ draft'[p] = draft[p]
    BY <1>a, <1>1 DEF Over, Goto, TypeOK
  <2>2. answer'[p] = answer[p]  BY <1>a, <1>1 DEF Over, Answer, TypeOK
  <2>3. QED  BY <1>1, <2>1, <2>2 DEF Mine
<1>2. ASSUME NEW q \in Process \ {p}, Refused(q) PROVE UNCHANGED Mine(p)
  BY <1>1, <1>2 DEF Refused
<1>3. ASSUME NEW q \in Process \ {p}, NEW b, Draft(q, b) PROVE UNCHANGED Mine(p)
  BY <1>a, <1>3 DEF Draft, Mine, TypeOK
<1>4. ASSUME NEW h \in Host, Open(h) PROVE UNCHANGED Mine(p)
  <2> USE DEF At, Goto
  <2>a. h \in Process \ {p}  BY <1>a DEF Process
  <2>1. ASSUME Start(h) PROVE UNCHANGED Mine(p)
    <3>1. pc'[p] = pc[p]  BY <1>a, <2>a, <2>1 DEF Start, TypeOK
    <3>2. QED  BY <2>1, <3>1 DEF Start, Mine
  <2>2. ASSUME NEW j \in Host, Relaunch(h, j) PROVE UNCHANGED Mine(p)
    <3>1. pc'[p] = pc[p]  BY <1>a, <2>a, <2>2 DEF Relaunch, TypeOK
    <3>2. QED  BY <2>2, <3>1 DEF Relaunch, Mine
  <2>3. ASSUME TakeArm(h) PROVE UNCHANGED Mine(p)
    <3>1. pc'[p] = pc[p]  BY <1>a, <2>a, <2>3 DEF TakeArm, Take, TypeOK
    <3>2. QED  BY <2>3, <3>1 DEF TakeArm, Take, Mine
  <2>4. ASSUME LeaveAdoption(h) PROVE UNCHANGED Mine(p)
    <3>1. pc'[p] = pc[p]  BY <1>a, <2>a, <2>4 DEF LeaveAdoption, GiveBack, TypeOK
    <3>2. QED  BY <2>4, <3>1 DEF LeaveAdoption, GiveBack, Mine
  <2>5. ASSUME TakeLease(h) PROVE UNCHANGED Mine(p)
    <3>1. pc'[p] = pc[p]  BY <1>a, <2>a, <2>5 DEF TakeLease, TypeOK
    <3>2. QED  BY <2>5, <3>1 DEF TakeLease, Mine
  <2>6. ASSUME LeaseRefused(h) PROVE UNCHANGED Mine(p)
    <3>1. pc'[p] = pc[p]  BY <1>a, <2>a, <2>6 DEF LeaseRefused, TypeOK
    <3>2. QED  BY <2>6, <3>1 DEF LeaseRefused, Mine
  <2>7. ASSUME OpenStorage(h) PROVE UNCHANGED Mine(p)
    <3>1. pc'[p] = pc[p]  BY <1>a, <2>a, <2>7 DEF OpenStorage, TypeOK
    <3>2. QED  BY <2>7, <3>1 DEF OpenStorage, Mine
  <2>8. ASSUME Close(h) PROVE UNCHANGED Mine(p)
    <3>1. pc'[p] = pc[p]  BY <1>a, <2>a, <2>8 DEF Close, TypeOK
    <3>2. QED  BY <2>8, <3>1 DEF Close, Mine
  <2>9. ASSUME Shut(h) PROVE UNCHANGED Mine(p)
    <3>1. pc'[p] = pc[p]  BY <1>a, <2>a, <2>9 DEF Shut, TypeOK
    <3>2. QED  BY <2>9, <3>1 DEF Shut, Mine
  <2>10. ASSUME Release(h) PROVE UNCHANGED Mine(p)
    <3>1. pc'[p] = pc[p]  BY <1>a, <2>a, <2>10 DEF Release, TypeOK
    <3>2. QED  BY <2>10, <3>1 DEF Release, Mine
  <2>11. ASSUME Attach(h) PROVE UNCHANGED Mine(p)
    <3>1. pc'[p] = pc[p]  BY <1>a, <2>a, <2>11 DEF Attach, Take, TypeOK
    <3>2. QED  BY <2>11, <3>1 DEF Attach, Take, Mine
  <2>12. ASSUME Locate(h) PROVE UNCHANGED Mine(p)
    <3>1. pc'[p] = pc[p]  BY <1>a, <2>a, <2>12 DEF Locate, GiveBack, TypeOK
    <3>2. QED  BY <2>12, <3>1 DEF Locate, GiveBack, Mine
  <2>13. ASSUME AdmitOwner(h) PROVE UNCHANGED Mine(p)
    BY <1>2, <1>3, <2>a, <2>13 DEF AdmitOwner, Enter
  <2>14. ASSUME AdoptOwner(h) PROVE UNCHANGED Mine(p)
    BY <1>2, <1>3, <2>a, <2>14 DEF AdoptOwner, Enter
  <2>15. ASSUME Leased(h) PROVE UNCHANGED Mine(p)
    BY <1>2, <1>3, <2>a, <2>15 DEF Leased, Transition, Enter
  <2>16. ASSUME EndUnleased(h) PROVE UNCHANGED Mine(p)
    BY <1>2, <1>3, <2>a, <2>16 DEF EndUnleased, Transition, Enter
  <2>17. ASSUME StorageOpened(h) PROVE UNCHANGED Mine(p)
    BY <1>2, <1>3, <2>a, <2>17 DEF StorageOpened, Transition, Enter
  <2>18. ASSUME Closed(h) PROVE UNCHANGED Mine(p)
    BY <1>2, <1>3, <2>a, <2>18 DEF Closed, Ended, Transition, Enter
  <2>19. ASSUME CloseFailed(h) PROVE UNCHANGED Mine(p)
    BY <1>2, <1>3, <2>a, <2>19 DEF CloseFailed, Ended, Transition, Enter
  <2>20. QED
    BY <1>4, <2>1, <2>2, <2>3, <2>4, <2>5, <2>6, <2>7, <2>8, <2>9, <2>10, <2>11, <2>12, <2>13, <2>14, <2>15, <2>16, <2>17, <2>18, <2>19 DEF Open
<1>5. ASSUME NEW q \in Parent \ {p}, Resuming(q) PROVE UNCHANGED Mine(p)
  <2> USE DEF At, Goto
  <2>a. q \in Process \ {p}  BY DEF Process
  <2>1. ASSUME Resume(q) PROVE UNCHANGED Mine(p)
    BY <1>a, <2>a, <2>1 DEF Resume, Mine, TypeOK
  <2>2. ASSUME TakeArmToReserve(q) PROVE UNCHANGED Mine(p)
    BY <1>a, <2>a, <2>2 DEF TakeArmToReserve, Take, Mine, TypeOK
  <2>3. ASSUME Reserve(q) \/ Withdraw(q) PROVE UNCHANGED Mine(p)
    BY <1>2, <1>3, <2>a, <2>3 DEF Reserve, Withdraw, Enter
  <2>4. ASSUME LeaveReserve(q) PROVE UNCHANGED Mine(p)
    <3>1. pc'[p] = pc[p]  BY <1>a, <2>a, <2>4 DEF LeaveReserve, GiveBack, TypeOK
    <3>2. answer'[p] = answer[p]  BY <1>5, <2>4 DEF LeaveReserve, Answer, TypeOK
    <3>3. QED  BY <2>4, <3>1, <3>2 DEF LeaveReserve, Mine
  <2>5. ASSUME Launch(q) PROVE UNCHANGED Mine(p)
    <3>1. answer'[p] = answer[p]  BY <1>5, <2>5 DEF Launch, Answer, TypeOK
    <3>2. pc'[p] = pc[p]
      <4>1. ASSUME NEW k \in Host, NEW next, pc' = [pc EXCEPT ![k] = "arm", ![q] = next]
            PROVE  pc'[p] = pc[p]
        BY <1>a, <2>a, <4>1 DEF TypeOK
      <4>2. ASSUME NEW next, pc' = [pc EXCEPT ![q] = next] PROVE pc'[p] = pc[p]
        BY <1>a, <2>a, <4>2 DEF TypeOK
      <4>3. QED  BY <2>5, <4>1, <4>2 DEF Launch
    <3>3. QED  BY <2>5, <3>1, <3>2 DEF Launch, Mine
  <2>6. ASSUME Observe(q) PROVE UNCHANGED Mine(p)
    <3>1. answer'[p] = answer[p]  BY <1>5, <2>6 DEF Observe, Answer, TypeOK
    <3>2. pc'[p] = pc[p]  BY <1>a, <2>a, <2>6 DEF Observe, TypeOK
    <3>3. QED  BY <2>6, <3>1, <3>2 DEF Observe, Mine
  <2>7. QED  BY <1>5, <2>1, <2>2, <2>3, <2>4, <2>5, <2>6 DEF Resuming
<1>6. ASSUME NEW q \in Process \ {p}, Common(q) PROVE UNCHANGED Mine(p)
  <2> USE DEF Goto
  <2>1. ASSUME Write(q) PROVE UNCHANGED Mine(p)
    BY <1>a, <1>6, <2>1 DEF Write, Mine, TypeOK
  <2>2. ASSUME Leave(q) PROVE UNCHANGED Mine(p)
    <3>1. ticket'[p] = ticket[p]  BY <1>a, <1>6, <2>2 DEF Leave, TypeOK
    <3>2. QED  BY <1>1, <2>2, <3>1 DEF Leave
  <2>3. ASSUME Break(q) \/ WaitEnds(q) PROVE UNCHANGED Mine(p)
    BY <1>2, <2>3 DEF Break, WaitEnds
  <2>4. ASSUME ArmBusy(q) PROVE UNCHANGED Mine(p)
    <3>1. answer'[p] = answer[p]  BY <1>6, <2>4 DEF ArmBusy, Answer, TypeOK
    <3>2. pc'[p] = pc[p]  BY <1>a, <1>6, <2>4 DEF ArmBusy, TypeOK
    <3>3. QED  BY <2>4, <3>1, <3>2 DEF ArmBusy, Mine
  <2>5. ASSUME Die(q) PROVE UNCHANGED Mine(p)
    BY <1>a, <1>6, <2>5 DEF Die, Mine, TypeOK
  <2>6. QED  BY <1>6, <2>1, <2>2, <2>3, <2>4, <2>5 DEF Common
<1>7. ASSUME NEW s \in Spelling, ForeignLease(s) PROVE UNCHANGED Mine(p)
  BY <1>7 DEF ForeignLease, Mine
<1>8. ASSUME UNCHANGED vars PROVE UNCHANGED Mine(p)
  BY <1>8 DEF vars, Mine
<1>9. QED  BY <1>4, <1>5, <1>6, <1>7, <1>8, Zenon DEF Next

(* A resume says something only when it observes or has withdrawn. *)
LEMMA Answers ==
  ASSUME TypeOK, FenceInv, Pending, NEW p \in Parent, Resuming(p) \/ Common(p)
  PROVE  \/ answer'[p] = "none"
         \/ Observe(p)
         \/ Leave(p) /\ pc[p] = "withdraw" /\ answer'[p] = "withdrawn"
<1> USE DEF At, files, locks, self, process, history, bounds
<1>a. p \in Process /\ (pc[p] # "idle" => answer[p] = "none")  BY DEF Pending, Process
<1>1. ASSUME NEW place, NEW a, Over(p, place, a), pc[p] # "idle"
      PROVE  answer'[p] = "none" \/ (pc[p] = "withdraw" /\ answer'[p] = a)
  BY <1>a, <1>1 DEF Over, Answer, TypeOK
<1>2. ASSUME Refused(p), pc[p] # "idle" PROVE answer'[p] = "none"
  BY <1>1, <1>2 DEF Refused
<1>3. ASSUME NEW b, Draft(p, b), pc[p] # "idle" PROVE answer'[p] = "none"
  BY <1>a, <1>3 DEF Draft
<1>4. CASE Resume(p)  BY <1>4 DEF Resume, TypeOK
<1>5. CASE TakeArmToReserve(p)  BY <1>a, <1>5 DEF TakeArmToReserve
<1>6. CASE Reserve(p) \/ Withdraw(p)  BY <1>2, <1>3, <1>6 DEF Reserve, Withdraw, Enter
<1>7. CASE LeaveReserve(p)  BY <1>a, <1>7 DEF LeaveReserve, Answer, TypeOK
<1>8. CASE Launch(p)  BY <1>a, <1>8 DEF Launch, Answer, TypeOK
<1>9. CASE Write(p)  BY <1>a, <1>9 DEF Write, FenceInv, OneInside, Transacting
<1>10. CASE Leave(p)
  <2>1. pc[p] # "idle"  BY <1>a, <1>10 DEF Leave, FenceInv, OneInside, Transacting
  <2>2. QED  BY <1>1, <1>10, <2>1 DEF Leave
<1>11. CASE Break(p) \/ WaitEnds(p)
  <2>1. pc[p] # "idle"  BY <1>a, <1>11 DEF Break, WaitEnds, FenceInv, OneInside, Transacting
  <2>2. QED  BY <1>2, <1>11, <2>1 DEF Break, WaitEnds
<1>12. CASE ArmBusy(p)  BY <1>12 DEF ArmBusy, Answer, TypeOK
<1>13. CASE Die(p)  BY <1>13 DEF Die, TypeOK
<1>14. QED
  BY <1>4, <1>5, <1>6, <1>7, <1>8, <1>9, <1>10, <1>11, <1>12, <1>13 DEF Resuming, Common

LEMMA WithdrawnGrows ==
  ASSUME TypeOK, FenceInv, [Next]_vars
  PROVE  withdrawn \subseteq withdrawn'
<1>1. CASE Quiet  BY <1>1 DEF Quiet, history
<1>2. ASSUME NEW p \in Process, Write(p) PROVE withdrawn \subseteq withdrawn'
  BY <1>2 DEF Write
<1>3. QED  BY <1>1, <1>2, StepKinds DEF Drafts, Reserves, Withdraws, Draft, history

LEMMA PendingKeeps ==
  ASSUME TypeOK, FenceInv, RealDonor(claim), Pending, [Next]_vars
  PROVE  Pending'
<1> USE DEF At, Goto, files, locks, self, process, history, bounds
<1> DEFINE Answering(p) == pc[p] # "idle" => answer[p] = "none"
           Ticket(p) == pc[p] \in {"disarm", "launch", "withdraw", "observe"} => ticket[p].row.gen > 0
           Writing(p) == hold[p] # "no" => draft[p].row.gen > 0
           Undoing(p) ==
             /\ hold[p] # "no" /\ pc[p] = "withdraw" => draft[p].row.state # "reserved"
             /\ hold[p] = "written" /\ pc[p] = "withdraw" => ticket[p].row.gen \in withdrawn
<1>1. SUFFICES ASSUME NEW p \in Parent
               PROVE  Answering(p)' /\ Ticket(p)' /\ Writing(p)' /\ Undoing(p)'
  BY DEF Pending
<1>2. p \in Process /\ p \notin Host /\ Answering(p) /\ Ticket(p) /\ Writing(p) /\ Undoing(p)
  BY DEF Pending, Process
<1>3. CASE UNCHANGED Mine(p)
  <2>1. pc'[p] = pc[p] /\ hold'[p] = hold[p] /\ draft'[p] = draft[p] /\ ticket'[p] = ticket[p]
        /\ answer'[p] = answer[p]
    BY <1>3 DEF Mine
  <2>2. QED  BY <1>2, <2>1, WithdrawnGrows
<1>4. CASE Resuming(p) \/ Common(p)
  <2>1. Answering(p)'
    <3>1. CASE Observe(p)  BY <1>2, <3>1 DEF Observe, TypeOK
    <3>2. CASE Leave(p) /\ pc[p] = "withdraw"
      BY <1>2, <3>2 DEF Leave, Over, Onward, Rest, TypeOK
    <3>3. QED  BY <1>4, <3>1, <3>2, Answers
  <2>2. ASSUME Refused(p) PROVE Ticket(p)' /\ Writing(p)' /\ Undoing(p)'
    BY <1>2, <2>2 DEF Refused, Over, Instead, Rest, TypeOK
  <2>3. ASSUME NEW b, Draft(p, b), b.row.gen = writes + 1, pc[p] = "withdraw" => b.row.state # "reserved"
        PROVE  Ticket(p)' /\ Writing(p)' /\ Undoing(p)'
    <3>1. b.row.gen > 0  BY <2>3 DEF TypeOK, Generation
    <3>2. /\ pc'[p] = pc[p] /\ ticket'[p] = ticket[p]
          /\ draft'[p] = b /\ hold'[p] = "drafted"
      BY <1>2, <2>3 DEF Draft, TypeOK
    <3>3. QED  BY <1>2, <2>3, <3>1, <3>2
  <2>4. ASSUME UNCHANGED <<hold, draft, ticket>>, pc[p] \notin Transacting,
               pc'[p] \notin {"disarm", "launch", "withdraw", "observe"} \/ pc[p] \in {"disarm", "launch"}
        PROVE  Ticket(p)' /\ Writing(p)' /\ Undoing(p)'
    BY <1>2, <2>4 DEF FenceInv, OneInside
  <2>5. CASE Resume(p)  BY <1>2, <2>1, <2>4, <2>5 DEF Resume, Transacting, TypeOK
  <2>6. CASE TakeArmToReserve(p)
    BY <1>2, <2>1, <2>4, <2>6 DEF TakeArmToReserve, Take, Transacting, TypeOK
  <2>7. CASE Reserve(p)
    <3>1. Reservation(p).row.gen = writes + 1  BY DEF Reservation
    <3>2. QED  BY <2>1, <2>2, <2>3, <2>7, <3>1 DEF Reserve, Enter
  <2>8. CASE LeaveReserve(p)
    BY <1>2, <2>1, <2>4, <2>8 DEF LeaveReserve, GiveBack, Transacting, TypeOK
  <2>9. CASE Launch(p)  BY <2>1, <2>4, <2>9 DEF Launch, Transacting
  <2>10. CASE Withdraw(p)
    <3>1. ASSUME Withdrawable(p), Draft(p, Native([claim.donor EXCEPT !.gen = writes + 1], 0))
          PROVE  Ticket(p)' /\ Writing(p)' /\ Undoing(p)'
      <4> DEFINE w == Native([claim.donor EXCEPT !.gen = writes + 1], 0)
      <4>1. w.row.gen = writes + 1 /\ w.row.state = claim.donor.state
        BY DEF Native, TypeOK, Claim, Row
      <4>2. claim.donor.state # "reserved"  BY <3>1 DEF Withdrawable, RealDonor
      <4>3. Draft(p, w)  BY <3>1
      <4> HIDE DEF w
      <4>4. QED  BY <2>3, <4>1, <4>2, <4>3
    <3>2. QED  BY <2>1, <2>2, <2>10, <3>1 DEF Withdraw, Enter
  <2>11. CASE Observe(p)  BY <1>2, <2>1, <2>4, <2>11 DEF Observe, Transacting, TypeOK
  <2>12. CASE Write(p)
    <3>1. pc'[p] = pc[p] /\ ticket'[p] = ticket[p] /\ draft'[p] = draft[p] /\ hold[p] # "no"
      BY <2>12 DEF Write
    <3>2. pc[p] = "withdraw" => ticket[p].row.gen \in withdrawn'  BY <2>12 DEF Write
    <3>3. QED  BY <1>2, <2>1, <3>1, <3>2
  <2>13. CASE Leave(p)
    <3>1. draft[p].row.gen > 0 /\ hold'[p] = "no"
      BY <1>2, <2>13 DEF Leave, Over, TypeOK
    <3>2. CASE pc[p] # "withdraw"
      <4>1. ticket'[p] = draft[p]  BY <1>2, <2>13, <3>2 DEF Leave, TypeOK
      <4>2. QED  BY <2>1, <3>1, <4>1
    <3>3. CASE pc[p] = "withdraw"
      <4>1. ticket'[p] = ticket[p]  BY <2>13, <3>3 DEF Leave
      <4>2. QED  BY <1>2, <2>1, <3>1, <3>3, <4>1
    <3>4. QED  BY <3>2, <3>3
  <2>14. CASE Break(p) \/ WaitEnds(p)  BY <2>1, <2>2, <2>14 DEF Break, WaitEnds
  <2>15. CASE ArmBusy(p)
    BY <1>2, <2>1, <2>4, <2>15 DEF ArmBusy, Rest, Transacting, TypeOK
  <2>16. CASE Die(p)
    <3>1. hold'[p] = "no" /\ pc'[p] = "idle"  BY <1>2, <2>16 DEF Die, Rest, TypeOK
    <3>2. QED  BY <2>1, <3>1
  <2>17. QED
    BY <1>4, <2>5, <2>6, <2>7, <2>8, <2>9, <2>10, <2>11, <2>12, <2>13, <2>14, <2>15, <2>16
    DEF Resuming, Common
<1>5. QED  BY <1>3, <1>4, OthersLeaveAlone

THEOREM AnswerInvariant == Spec => [](Recorded /\ Pending /\ AnswerHolds)
<1> DEFINE Inv == Recorded /\ Pending /\ AnswerHolds
<1>1. Init => Inv
  BY DEF Init, Recorded, Pending, AnswerHolds, NoClaim, NoRow, Native, Process
<1>2. ASSUME TypeOK, FenceInv, Faithful, Inv, [Next]_vars, AdoptedOnce' PROVE Inv'
  <2>1. Recorded' /\ adoptions \subseteq adoptions'  BY <1>2, RecordedKeeps
  <2>2. Pending'  BY <1>2, PendingKeeps DEF Faithful
  <2>3. \A g : Adopted(g) => Adopted(g)'  BY <2>1 DEF Adopted
  <2>c. ASSUME NEW p \in Process PROVE claim' = claim \/ claim'.row.gen # ticket[p].row.gen
    <3>1. ASSUME NEW q \in Process, Write(q) PROVE claim'.row.gen # ticket[p].row.gen
      <4>1. claim' = draft[q] /\ ticket[p].row.gen < draft[q].row.gen
        BY <1>2, <3>1 DEF Write, FenceInv, Numbered
      <4>2. ticket[p].row.gen \in Nat  BY <1>2 DEF TypeOK, Claim, Row, Generation
      <4>3. QED  BY <4>1, <4>2
    <3>2. QED  BY <1>2, <3>1, StepKinds DEF Quiet, Drafts, Reserves, Withdraws, Draft
  <2>4. ASSUME NEW p \in Parent
        PROVE  /\ answer'[p] = "adopted" => Adopted(ticket[p].row.gen)'
               /\ answer'[p] = "withdrawn" => ticket'[p].row.gen \in withdrawn'
               /\ answer'[p] \in {"lost", "withdrawn"} =>
                    ~(claim'.row.state = "reserved" /\ claim'.row.gen = ticket'[p].row.gen)
    <3>a. p \in Process  BY DEF Process
    <3>1. CASE UNCHANGED Mine(p)
      <4>1. ticket'[p] = ticket[p] /\ answer'[p] = answer[p]  BY <3>1 DEF Mine
      <4>2. claim' = claim \/ claim'.row.gen # ticket[p].row.gen  BY <2>c, <3>a
      <4>3. QED  BY <1>2, <2>3, <4>1, <4>2, WithdrawnGrows DEF AnswerHolds
    <3>2. CASE Observe(p)
      <4>1. claim' = claim /\ ticket' = ticket /\ answer'[p] = Observed(p) /\ ticket[p].row.gen > 0
        BY <1>2, <3>2 DEF Observe, At, Answer, files, self, Pending, TypeOK
      <4>2. ticket[p].row.gen \in Nat  BY <1>2, <3>a DEF TypeOK, Claim, Row, Generation
      <4>3. Observed(p) = "adopted" => Adopted(ticket[p].row.gen)
        BY <1>2, <4>1, <4>2 DEF Observed, Recorded
      <4>4. Observed(p) \in {"lost", "withdrawn"} =>
              /\ Observed(p) # "withdrawn"
              /\ ~(claim.row.state = "reserved" /\ claim.row.gen = ticket[p].row.gen)
        BY DEF Observed
      <4>5. QED  BY <2>3, <4>1, <4>3, <4>4
    <3>3. CASE Leave(p) /\ pc[p] = "withdraw" /\ answer'[p] = "withdrawn"
      <4>1. claim' = claim /\ claim = draft[p]
        BY <1>2, <3>a, <3>3 DEF Leave, Over, FenceInv, Numbered, TypeOK
      <4>2. ticket' = ticket  BY <3>3 DEF Leave
      <4>3. draft[p].row.state # "reserved" /\ ticket[p].row.gen \in withdrawn
        BY <1>2, <3>3 DEF Leave, Pending
      <4>4. QED  BY <1>2, <3>3, <4>1, <4>2, <4>3, WithdrawnGrows
    <3>4. CASE answer'[p] = "none"  BY <3>4
    <3>5. QED  BY <1>2, <3>1, <3>2, <3>3, <3>4, OthersLeaveAlone, Answers
  <2>5. \A g \in withdrawn' : ~Adopted(g)'
    BY <1>2 DEF AdoptedOnce, Adopted
  <2>6. QED  BY <2>1, <2>2, <2>4, <2>5 DEF AnswerHolds
<1>3. QED
  BY <1>1, <1>2, TypeCorrect, FenceInvariant, FaithfulInvariant, OneAdoption, PTL DEF Spec

(* What a resume said of its reservation stays true, although it looks outside every lock: a
   withdrawn reservation was and is adopted by nobody. *)
THEOREM AnswersStayTrue == Spec => []AnswerHolds
BY AnswerInvariant, PTL

=============================================================================
