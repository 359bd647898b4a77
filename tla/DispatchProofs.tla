--------------------------- MODULE DispatchProofs ---------------------------
(***************************************************************************)
(* The dispatch pipeline for any number of dispatches at one garden id.    *)
(***************************************************************************)
EXTENDS Dispatch, TLAPS

USE NoneAssumption, MaxChangesAssumption

(* Every variable of the dispatch keeps its type. *)
THEOREM TypeCorrect == Spec => []TypeOK
<1>1. Init => TypeOK
  BY DEF Init, TypeOK, Stage, Result, Lock!Init
<1>2. ASSUME TypeOK, [Next]_vars PROVE TypeOK'
  <2> USE <1>2 DEF TypeOK, Stage, Locked, Result, Delivered, Record, Sock, Goto, Answer, Finish,
                   mutex, target, traffic
  <2>1. ASSUME NEW d \in Dispatcher, Step(d) PROVE TypeOK'
    <3>1. CASE Resolve(d)  BY <3>1 DEF Resolve
    <3>2. CASE Throw(d, "resolve")  BY <3>2 DEF Throw
    <3>3. CASE PushProbe(d)  BY <3>3 DEF PushProbe
    <3>4. CASE Throw(d, "push_probe")  BY <3>4 DEF Throw
    <3>5. CASE Push(d)  BY <3>5 DEF Push, Accept
    <3>6. CASE MailboxDecide(d)  BY <3>6 DEF MailboxDecide
    <3>7. CASE Enqueue(d)  BY <3>7 DEF Enqueue, Accept
    <3>8. CASE Acquire(d)  BY <3>8 DEF Acquire, Lock!Take, Lock!Quit
    <3>9. CASE Inspect(d)  BY <3>9 DEF Inspect
    <3>10. CASE GiveBack(d)  BY <3>10 DEF GiveBack, Released, ReleaseThrew, Lock!Quit
    <3>11. CASE Backstop(d)  BY <3>11 DEF Backstop, Released, ReleaseThrew, Lock!Quit
    <3>12. CASE Send(d)  BY <3>12 DEF Send, SendSettled, Told, Accept
    <3>13. CASE ReResolve(d)  BY <3>13 DEF ReResolve, Told
    <3>14. CASE ReMailboxDecide(d)  BY <3>14 DEF ReMailboxDecide, Told
    <3>15. CASE ReInspect(d)  BY <3>15 DEF ReInspect, Told
    <3>16. CASE Resend(d)  BY <3>16 DEF Resend, SendSettled, Told, Accept
    <3>17. CASE ReEnqueue(d)  BY <3>17 DEF ReEnqueue, Told, Accept
    <3>18. CASE FinalizeRelease(d)  BY <3>18 DEF FinalizeRelease, Released, ReleaseThrew, Lock!Quit
    <3>19. QED  BY <2>1, <3>1, <3>2, <3>3, <3>4, <3>5, <3>6, <3>7, <3>8, <3>9,
                     <3>10, <3>11, <3>12, <3>13, <3>14, <3>15, <3>16, <3>17, <3>18 DEF Step
  <2>2. CASE \E d \in Dispatcher : Crash(d) \/ LateAccept(d)
    <3>1. PICK d \in Dispatcher : Crash(d) \/ LateAccept(d)
      BY <2>2
    <3>2. CASE Crash(d)  BY <3>2 DEF Crash, Lock!Quit
    <3>3. CASE LateAccept(d)  BY <3>3 DEF LateAccept, Accept
    <3>4. QED  BY <3>1, <3>2, <3>3
  <2>3. CASE TargetChange \/ UNCHANGED vars
    BY <2>3 DEF TargetChange, vars
  <2>4. QED  BY <2>1, <2>2, <2>3 DEF Next
<1>3. QED  BY <1>1, <1>2, PTL DEF Spec

-----------------------------------------------------------------------------
(* DispatchInv is inductive. *)
THEOREM DispatchInvariant == Spec => []DispatchInv
<1>1. ASSUME Init PROVE DispatchInv
  <2>1. /\ owner = None /\ pending = {} /\ dirty \in [Dispatcher -> BOOLEAN]
        /\ \A d \in Dispatcher : pc[d] = "resolve" /\ result[d] = "none" /\ accepted[d] = 0
    BY <1>1 DEF Init, Lock!Init
  <2>2. "resolve" \notin Locked /\ "none" \notin Delivered
    BY DEF Locked, Delivered
  <2>3. ASSUME NEW d \in Dispatcher
        PROVE  owner # d /\ pc[d] \notin Locked /\ d \notin pending /\ result[d] \notin Delivered
               /\ result[d] \notin {"rejected", "refused-in-band"} /\ accepted[d] = 0
               /\ accepted[d] <= 1
    BY <2>1, <2>2
  <2>4. QED  BY <2>3 DEF DispatchInv
<1>2. ASSUME TypeOK, DispatchInv, [Next]_vars PROVE DispatchInv'
  <2> USE <1>2 DEF TypeOK, DispatchInv, Stage, Locked, Undecided, Result, Delivered, Goto, Answer,
                   Finish, mutex, target, traffic
  <2>1. ASSUME NEW d \in Dispatcher, Step(d) PROVE DispatchInv'
    <3>1. CASE Resolve(d)  BY <3>1 DEF Resolve
    <3>2. CASE Throw(d, "resolve")  BY <3>2 DEF Throw
    <3>3. CASE PushProbe(d)  BY <3>3 DEF PushProbe
    <3>4. CASE Throw(d, "push_probe")  BY <3>4 DEF Throw
    <3>5. CASE Push(d)  BY <3>5 DEF Push, Accept
    <3>6. CASE MailboxDecide(d)  BY <3>6 DEF MailboxDecide
    <3>7. CASE Enqueue(d)  BY <3>7 DEF Enqueue, Accept
    <3>8. CASE Acquire(d)  BY <3>8 DEF Acquire, Lock!Take, Lock!Quit
    <3>9. CASE Inspect(d)  BY <3>9 DEF Inspect
    <3>10. CASE GiveBack(d)  BY <3>10 DEF GiveBack, Released, ReleaseThrew, Lock!Quit
    <3>11. CASE Backstop(d)  BY <3>11 DEF Backstop, Released, ReleaseThrew, Lock!Quit
    <3>12. CASE Send(d)  BY <3>12 DEF Send, SendSettled, Told, Accept
    <3>13. CASE ReResolve(d)  BY <3>13 DEF ReResolve, Told
    <3>14. CASE ReMailboxDecide(d)  BY <3>14 DEF ReMailboxDecide, Told
    <3>15. CASE ReInspect(d)  BY <3>15 DEF ReInspect, Told
    <3>16. CASE Resend(d)  BY <3>16 DEF Resend, SendSettled, Told, Accept
    <3>17. CASE ReEnqueue(d)  BY <3>17 DEF ReEnqueue, Told, Accept
    <3>18. CASE FinalizeRelease(d)  BY <3>18 DEF FinalizeRelease, Released, ReleaseThrew, Lock!Quit
    <3>19. QED  BY <2>1, <3>1, <3>2, <3>3, <3>4, <3>5, <3>6, <3>7, <3>8, <3>9,
                     <3>10, <3>11, <3>12, <3>13, <3>14, <3>15, <3>16, <3>17, <3>18 DEF Step
  <2>2. CASE \E d \in Dispatcher : Crash(d) \/ LateAccept(d)
    <3>1. PICK d \in Dispatcher : Crash(d) \/ LateAccept(d)
      BY <2>2
    <3>2. CASE Crash(d)  BY <3>2 DEF Crash, Lock!Quit
    <3>3. CASE LateAccept(d)  BY <3>3 DEF LateAccept, Accept
    <3>4. QED  BY <3>1, <3>2, <3>3
  <2>3. CASE TargetChange \/ UNCHANGED vars
    BY <2>3 DEF TargetChange, vars
  <2>4. QED  BY <2>1, <2>2, <2>3 DEF Next
<1>3. QED  BY <1>1, <1>2, TypeCorrect, PTL DEF Spec

(* No message is taken twice. *)
THEOREM NeverTwice == Spec => []AtMostOnce
<1>1. TypeOK /\ DispatchInv => AtMostOnce
  <2> SUFFICES ASSUME TypeOK, DispatchInv, NEW d \in Dispatcher
               PROVE  accepted[d] + (IF d \in pending THEN 1 ELSE 0) <= 1
    BY DEF AtMostOnce
  <2>1. CASE d \in pending  BY <2>1 DEF DispatchInv
  <2>2. CASE d \notin pending  BY <2>2 DEF TypeOK, DispatchInv
  <2>3. QED  BY <2>1, <2>2
<1>2. QED  BY <1>1, TypeCorrect, DispatchInvariant, PTL

(* The answer of a dispatch is true of its message. *)
THEOREM TruthfulAnswer == Spec => []AnswerIsTrue
<1>1. DispatchInv => AnswerIsTrue
  BY DEF DispatchInv, AnswerIsTrue
<1>2. QED  BY <1>1, DispatchInvariant, PTL

(* The lock is held from the first probe to the final outcome. *)
THEOREM LockHeldThroughout == Spec => []LockSpansDispatch
<1>1. DispatchInv => LockSpansDispatch
  BY DEF DispatchInv, LockSpansDispatch
<1>2. QED  BY <1>1, DispatchInvariant, PTL

(* Every path gives the lock back, unless releaseLock throws. *)
THEOREM LockReturned == Spec => []LockIsGivenBack
<1>1. DispatchInv => LockIsGivenBack
  BY DEF DispatchInv, LockIsGivenBack, Locked
<1>2. QED  BY <1>1, DispatchInvariant, PTL

(* A step of one dispatch is taken before that one has ended, has its message
   taken at most once more, and leaves what the others said and sent. *)
LEMMA StepIsLocal ==
  ASSUME TypeOK, NEW e \in Dispatcher, Step(e)
  PROVE  /\ pc[e] \notin {"done", "crashed"}
         /\ \A d \in Dispatcher \ {e} :
              pc'[d] = pc[d] /\ result'[d] = result[d] /\ accepted'[d] = accepted[d]
         /\ accepted'[e] = accepted[e] \/ accepted'[e] = accepted[e] + 1
<1> USE DEF TypeOK, Goto, Answer, Finish, traffic
<1>1. CASE Resolve(e)  BY <1>1 DEF Resolve
<1>2. CASE Throw(e, "resolve")  BY <1>2 DEF Throw
<1>3. CASE PushProbe(e)  BY <1>3 DEF PushProbe
<1>4. CASE Throw(e, "push_probe")  BY <1>4 DEF Throw
<1>5. CASE Push(e)  BY <1>5 DEF Push, Accept
<1>6. CASE MailboxDecide(e)  BY <1>6 DEF MailboxDecide
<1>7. CASE Enqueue(e)  BY <1>7 DEF Enqueue, Accept
<1>8. CASE Acquire(e)  BY <1>8 DEF Acquire
<1>9. CASE Inspect(e)  BY <1>9 DEF Inspect
<1>10. CASE GiveBack(e)  BY <1>10 DEF GiveBack
<1>11. CASE Backstop(e)  BY <1>11 DEF Backstop
<1>12. CASE Send(e)  BY <1>12 DEF Send, SendSettled, Told, Accept
<1>13. CASE ReResolve(e)  BY <1>13 DEF ReResolve, Told
<1>14. CASE ReMailboxDecide(e)  BY <1>14 DEF ReMailboxDecide, Told
<1>15. CASE ReInspect(e)  BY <1>15 DEF ReInspect, Told
<1>16. CASE Resend(e)  BY <1>16 DEF Resend, SendSettled, Told, Accept
<1>17. CASE ReEnqueue(e)  BY <1>17 DEF ReEnqueue, Told, Accept
<1>18. CASE FinalizeRelease(e)  BY <1>18 DEF FinalizeRelease
<1>19. QED  BY <1>1, <1>2, <1>3, <1>4, <1>5, <1>6, <1>7, <1>8, <1>9, <1>10, <1>11, <1>12,
                <1>13, <1>14, <1>15, <1>16, <1>17, <1>18 DEF Step

(* An ended dispatch stays ended, with its answer: a crash changes neither. *)
LEMMA EndIsFinal ==
  ASSUME TypeOK, [Next]_vars, NEW d \in Dispatcher
  PROVE  /\ pc[d] \in {"done", "crashed"} =>
              pc'[d] \in {"done", "crashed"} /\ result'[d] = result[d]
         /\ accepted'[d] = accepted[d] \/ accepted'[d] = accepted[d] + 1
<1> DEFINE Goal == /\ pc[d] \in {"done", "crashed"} =>
                        pc'[d] \in {"done", "crashed"} /\ result'[d] = result[d]
                   /\ accepted'[d] = accepted[d] \/ accepted'[d] = accepted[d] + 1
<1>1. ASSUME NEW e \in Dispatcher, Step(e) PROVE Goal
  <2>1. CASE d = e  BY <1>1, <2>1, StepIsLocal
  <2>2. CASE d # e
    <3>1. pc'[d] = pc[d] /\ result'[d] = result[d] /\ accepted'[d] = accepted[d]
      BY <1>1, <2>2, StepIsLocal
    <3>2. QED  BY <3>1
  <2>3. QED  BY <2>1, <2>2
<1>2. ASSUME NEW e \in Dispatcher, Crash(e) PROVE Goal
  BY <1>2 DEF TypeOK, Crash, Goto, traffic
<1>3. ASSUME NEW e \in Dispatcher, LateAccept(e) PROVE Goal
  BY <1>3 DEF TypeOK, LateAccept, Accept
<1>4. CASE TargetChange  BY <1>4 DEF TargetChange, traffic
<1>5. CASE UNCHANGED vars  BY <1>5 DEF vars
<1>6. QED  BY <1>1, <1>2, <1>3, <1>4, <1>5 DEF Next

(* Each dispatch implements TrueReceipt: it answers once; a message it calls
   rejected or refused was not taken and never will be, not by a late read and
   not by the fallback; one it calls sent was taken, once; and only after a
   failure may a stalled resident still take it. *)
THEOREM DispatchesGiveReceipts ==
  ASSUME NEW d \in Dispatcher
  PROVE  Spec => Receipt(d)!Spec
<1> DEFINE Ended == pc[d] \in {"done", "crashed"}
<1>1. Init => Receipt(d)!Init
  BY DEF Init, Receipt!Init
<1>2. ASSUME TypeOK, TypeOK', DispatchInv, DispatchInv', [Next]_vars
      PROVE  [Receipt(d)!Next]_(Receipt(d)!vars)
  <2> USE DEF Receipt!Next, Receipt!Give, Receipt!Act, Receipt!vars
  <2>1. /\ accepted'[d] = accepted[d] \/ (accepted[d] = 0 /\ accepted'[d] = 1)
        /\ Ended => Ended' /\ result'[d] = result[d]
    <3>1. accepted[d] \in Nat /\ accepted'[d] <= 1
      BY <1>2 DEF TypeOK, DispatchInv
    <3>2. QED  BY <1>2, <3>1, EndIsFinal
  <2>2. /\ result'[d] \in {"rejected", "refused-in-band"} => accepted'[d] = 0
        /\ result'[d] \in Delivered => accepted'[d] = 1
    BY <1>2 DEF DispatchInv
  <2>3. result'[d] \in Delivered \cup {"none", "rejected", "refused-in-band", "failed"}
    BY <1>2 DEF TypeOK, Result
  <2>4. "none" \notin {"rejected", "refused-in-band"}
    OBVIOUS
  <2>5. CASE Ended
    <3>1. Ended' /\ result'[d] = result[d]
      BY <2>1, <2>5
    <3>2. CASE accepted'[d] = accepted[d]  BY <3>1, <3>2, <2>5
    <3>3. CASE accepted[d] = 0 /\ accepted'[d] = 1
      <4>1. result[d] \notin {"rejected", "refused-in-band"}
        BY <2>2, <3>1, <3>3
      <4>2. QED  BY <4>1, <3>1, <3>3, <2>5
    <3>4. QED  BY <2>1, <3>2, <3>3
  <2>6. CASE ~Ended /\ (~Ended' \/ result'[d] = "none")
    <3>1. CASE accepted'[d] = accepted[d]  BY <3>1, <2>6
    <3>2. CASE accepted[d] = 0 /\ accepted'[d] = 1  BY <3>2, <2>4, <2>6
    <3>3. QED  BY <2>1, <3>1, <3>2
  <2>7. CASE ~Ended /\ Ended' /\ result'[d] # "none"
    <3>1. Receipt(d)!Give(result'[d])
      BY <2>1, <2>2, <2>7
    <3>2. result'[d] \in {"rejected", "refused-in-band"} \cup Delivered \cup {"failed"}
      BY <2>3, <2>7
    <3>3. QED  BY <3>1, <3>2
  <2>8. QED  BY <2>5, <2>6, <2>7
<1>3. QED  BY <1>1, <1>2, TypeCorrect, DispatchInvariant, PTL DEF Spec, Receipt!Spec
=============================================================================
