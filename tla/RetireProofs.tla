---------------------------- MODULE RetireProofs ----------------------------
(***************************************************************************)
(* Retirement of one garden id, for any number of concurrent requests and  *)
(* of session generations at its address; then the Claude Code adapter     *)
(* that one of its steps stands for.                                       *)
(***************************************************************************)
EXTENDS Retire, CcRetire, SequenceTheorems, TLAPS

USE NoneAssumption, BoundsAssumption

FileOK == log \subseteq Event /\ glued \subseteq Event \X Retirer /\ torn \in Retirer \cup {None}

(* An append puts nothing but events into the file. *)
LEMMA FileTyped ==
  ASSUME FileOK, NEW line \in Event, Appended(line) \/ AppendThrew(line) \/ UNCHANGED <<log, torn, glued>>
  PROVE  FileOK'
<1>1. line[1] \in Retirer
  BY DEF Event
<1>2. CASE Appended(line)
  BY <1>2 DEF FileOK, Appended, WholeLine
<1>3. CASE UNCHANGED sidecar \/ (torn' = line[1] /\ UNCHANGED <<log, glued>>)
  BY <1>1, <1>3 DEF FileOK, sidecar
<1>4. QED  BY <1>2, <1>3 DEF Appended, AppendThrew, ShortWrite, sidecar

(* Every variable of the retirement keeps its type. *)
THEOREM TypeCorrect == Spec => []TypeOK
<1>1. ASSUME Init PROVE TypeOK
  <2>1. /\ pc \in [Retirer -> Stage] /\ outcome \in [Retirer -> Outcome]
        /\ note \in [Retirer -> Note] /\ dirty \in [Retirer -> BOOLEAN]
        /\ wire \in [Retirer -> {"none", "queued", "sent", "lost"} \cup Reply]
    BY <1>1 DEF Init, Stage, Outcome, Note
  <2>2. record \in Record /\ kept \in [Retirer -> Record]
    BY <1>1 DEF Init
  <2>3. owner \in Retirer \cup {None} /\ over \subseteq Retirer
    BY <1>1 DEF Init, Lock!Init
  <2>4. /\ log \subseteq Event /\ glued \subseteq Event \X Retirer
        /\ torn \in Retirer \cup {None}
        /\ shut \subseteq Retirer \X (0..gens) \X Native
    BY <1>1 DEF Init
  <2>5. sock \in {"absent", "stale", "live"} /\ 0 \in 0..gens
    BY <1>1 DEF Init
  <2>6. /\ gens \in 0..MaxGens /\ bound \in 0..gens /\ native \in Native \cup {None}
        /\ rewrites \in 0..MaxRewrites
    BY <1>1 DEF Init
  <2>7. closing \in BOOLEAN /\ latched \in BOOLEAN
    BY <1>1, Zenon DEF Init
  <2>8. conn \in [Retirer -> 0..gens]
    BY <1>1, <2>5 DEF Init
  <2>9. QED  BY <2>1, <2>2, <2>3, <2>4, <2>5, <2>6, <2>7, <2>8 DEF TypeOK
<1>2. ASSUME TypeOK, [Next]_vars PROVE TypeOK'
  <2> USE <1>2 DEF TypeOK, Stage, Locked, Outcome, Untouched, Acted, Note, Reply,
                   Goto, Told, Noted, mutex, session, mine, sidecar, target, others
  <2>1. ASSUME NEW d \in Retirer, Step(d) PROVE TypeOK'
    <3>1. CASE Caller(d)  BY <3>1 DEF Caller, Lock!Take, Lock!Quit
    <3>2. CASE Read(d)  BY <3>2 DEF Read, Onward, Refuse, Fail
    <3>3. CASE Inspect(d)  BY <3>3 DEF Inspect, Onward, Refuse, Fail
    <3>4. CASE Reread(d)  BY <3>4 DEF Reread, Onward, Refuse, Fail
    <3>5. CASE Admit(d)
      <4>1. <<d, "requested">> \in Event  BY DEF Event
      <4>2. FileOK'  BY <3>5, <4>1, FileTyped DEF Admit, FileOK
      <4>3. /\ pc' \in [Retirer -> Stage] /\ outcome' \in [Retirer -> Outcome]
            /\ note' \in [Retirer -> Note]
        BY <3>5 DEF Admit, Onward, Refuse
      <4>4. QED  BY <3>5, <4>2, <4>3 DEF Admit, FileOK
    <3>6. CASE Enter(d)  BY <3>6 DEF Enter, Onward
    <3>7. CASE AskPi(d)  BY <3>7 DEF AskPi, Onward, Settle
    <3>8. CASE HearReply(d)  BY <3>8 DEF HearReply, Settle
    <3>9. CASE AskCc(d)
      <4>1. kept[d][2] \in Native /\ 0 \in 0..gens  BY DEF Record
      <4>2. <<d, 0, kept[d][2]>> \in Retirer \X (0..gens) \X Native  BY <4>1
      <4>3. shut' \subseteq Retirer \X (0..gens) \X Native  BY <3>9, <4>2 DEF AskCc
      <4>4. pc' \in [Retirer -> Stage] /\ outcome' \in [Retirer -> Outcome]
        BY <3>9 DEF AskCc, Settle
      <4>5. QED  BY <3>9, <4>3, <4>4 DEF AskCc
    <3>10. CASE RecordOutcome(d)
      <4>1. <<d, outcome[d]>> \in Event  BY DEF Event
      <4>2. FileOK'  BY <3>10, <4>1, FileTyped DEF RecordOutcome, FileOK
      <4>3. pc' \in [Retirer -> Stage] /\ note' \in [Retirer -> Note]
        BY <3>10 DEF RecordOutcome
      <4>4. QED  BY <3>10, <4>2, <4>3 DEF RecordOutcome, FileOK
    <3>11. CASE Release(d)  BY <3>11 DEF Release, Lock!Quit
    <3>12. QED  BY <2>1, <3>1, <3>2, <3>3, <3>4, <3>5, <3>6, <3>7, <3>8, <3>9, <3>10, <3>11 DEF Step
  <2>2. ASSUME NEW d \in Retirer, Crash(d) PROVE TypeOK'
    BY <2>2 DEF Crash, Lock!Quit
  <2>3. ASSUME NEW d \in Retirer, Handle(d) PROVE TypeOK'
    <3>1. Reach(d) => <<d, bound, native>> \in Retirer \X (0..gens) \X Native
      BY DEF Reach, Record
    <3>2. shut' \subseteq Retirer \X (0..gens) \X Native  BY <2>3, <3>1 DEF Handle, ShutDown
    <3>3. /\ wire' \in [Retirer -> {"none", "queued", "sent", "lost"} \cup Reply] /\ latched' \in BOOLEAN
      BY <2>3 DEF Handle, ShutDown, Answered
    <3>4. QED  BY <2>3, <3>2, <3>3 DEF Handle
  <2>4. CASE SessionStart
    <3>1. gens' \in 0..MaxGens /\ bound' \in 0..gens' /\ 0..gens \subseteq 0..gens'
      BY <2>4 DEF SessionStart
    <3>2. native' \in Native  BY <2>4 DEF SessionStart, Record
    <3>3. conn' \in [Retirer -> 0..gens']  BY <2>4, <3>1 DEF SessionStart
    <3>4. shut' \subseteq Retirer \X (0..gens') \X Native
      <4>1. shut' = shut  BY <2>4 DEF SessionStart
      <4>2. Retirer \X (0..gens) \X Native \subseteq Retirer \X (0..gens') \X Native  BY <3>1
      <4>3. QED  BY <4>1, <4>2
    <3>5. QED  BY <2>4, <3>1, <3>2, <3>3, <3>4 DEF SessionStart
  <2>5. CASE SessionShutdown  BY <2>5 DEF SessionShutdown
  <2>6. CASE Closed  BY <2>6 DEF Closed, Lose
  <2>7. CASE Dies
    <3>1. closing' \in BOOLEAN /\ latched' \in BOOLEAN  BY <2>7, Zenon DEF Dies
    <3>2. wire' \in [Retirer -> {"none", "queued", "sent", "lost"} \cup Reply]  BY <2>7 DEF Dies, Lose
    <3>3. bound' = 0 /\ gens' = gens /\ native' = None  BY <2>7 DEF Dies
    <3>4. QED  BY <2>7, <3>1, <3>2, <3>3 DEF Dies
  <2>8. CASE Litter  BY <2>8 DEF Litter
  <2>9. CASE Rewrite  BY <2>9 DEF Rewrite
  <2>10. CASE UNCHANGED vars  BY <2>10 DEF vars
  <2>11. ASSUME NEW d \in Retirer, Accept(d) PROVE TypeOK'
    BY <2>11 DEF Accept
  <2>12. QED
    BY <2>1, <2>2, <2>3, <2>4, <2>5, <2>6, <2>7, <2>8, <2>9, <2>10, <2>11 DEF Next
<1>3. QED  BY <1>1, <1>2, PTL DEF Spec

-----------------------------------------------------------------------------
(* From the first read to the outcome line one request holds the lock. *)
THEOREM LockHeld == Spec => []LockSpansRequest
<1>1. ASSUME Init PROVE LockInv
  <2>1. owner = None /\ \A d \in Retirer : pc[d] = "caller"  BY <1>1 DEF Init, Lock!Init
  <2>2. QED  BY <2>1 DEF LockInv, Locked
<1>2. ASSUME TypeOK, LockInv, [Next]_vars PROVE LockInv'
  <2> USE <1>2 DEF TypeOK, LockInv, Stage, Locked, Goto, Told, Noted, mutex, session, mine, sidecar, target, others
  <2>1. ASSUME NEW d \in Retirer, Step(d) PROVE LockInv'
    <3>1. CASE Caller(d)  BY <3>1 DEF Caller, Lock!Take, Lock!Quit
    <3>2. CASE Read(d)  BY <3>2 DEF Read, Onward, Refuse, Fail
    <3>3. CASE Inspect(d)  BY <3>3 DEF Inspect, Onward, Refuse, Fail
    <3>4. CASE Reread(d)  BY <3>4 DEF Reread, Onward, Refuse, Fail
    <3>5. CASE Admit(d)  BY <3>5 DEF Admit, Onward, Refuse, Appended, AppendThrew, ShortWrite, WholeLine
    <3>6. CASE Enter(d)  BY <3>6 DEF Enter, Onward
    <3>7. CASE AskPi(d)  BY <3>7 DEF AskPi, Onward, Settle
    <3>8. CASE HearReply(d)  BY <3>8 DEF HearReply, Settle
    <3>9. CASE AskCc(d)  BY <3>9 DEF AskCc, Settle
    <3>10. CASE RecordOutcome(d)  BY <3>10 DEF RecordOutcome, Appended, AppendThrew, ShortWrite, WholeLine
    <3>11. CASE Release(d)  BY <3>11 DEF Release, Lock!Quit
    <3>12. QED  BY <2>1, <3>1, <3>2, <3>3, <3>4, <3>5, <3>6, <3>7, <3>8, <3>9, <3>10, <3>11 DEF Step
  <2>2. ASSUME NEW d \in Retirer, Crash(d) PROVE LockInv'
    BY <2>2 DEF Crash, Lock!Quit
  <2>3. ASSUME NEW d \in Retirer, Handle(d) PROVE LockInv'
    BY <2>3 DEF Handle, Reach, ShutDown, Answered
  <2>4. CASE SessionStart  BY <2>4 DEF SessionStart
  <2>5. CASE SessionShutdown  BY <2>5 DEF SessionShutdown
  <2>6. CASE Closed  BY <2>6 DEF Closed, Lose
  <2>7. CASE Dies  BY <2>7 DEF Dies, Lose
  <2>8. CASE Litter  BY <2>8 DEF Litter
  <2>9. CASE Rewrite  BY <2>9 DEF Rewrite
  <2>10. CASE UNCHANGED vars  BY <2>10 DEF vars
  <2>11. ASSUME NEW d \in Retirer, Accept(d) PROVE LockInv'
    BY <2>11 DEF Accept
  <2>12. QED
    BY <2>1, <2>2, <2>3, <2>4, <2>5, <2>6, <2>7, <2>8, <2>9, <2>10, <2>11 DEF Next
<1>3. LockInv => LockSpansRequest
  BY DEF LockInv, LockSpansRequest, Locked
<1>4. QED  BY <1>1, <1>2, <1>3, TypeCorrect, PTL DEF Spec

(* What a request has noted, sent and decided at each stage. *)
THEOREM StagesInvariant == Spec => []Stages
<1>1. Init => Stages
  BY DEF Init, Stages, Hit, Early, Entered
<1>2. ASSUME TypeOK, Stages, [Next]_vars PROVE Stages'
  <2> USE <1>2 DEF TypeOK, Stages, Hit, Early, Entered, Entered, Stage, Locked, Goto, Told, Noted, mutex, session, mine, sidecar, target, others
  <2>1. ASSUME NEW d \in Retirer, Step(d) PROVE Stages'
    <3>1. CASE Caller(d)  BY <3>1 DEF Caller, Lock!Take, Lock!Quit
    <3>2. CASE Read(d)  BY <3>2 DEF Read, Onward, Refuse, Fail
    <3>3. CASE Inspect(d)  BY <3>3 DEF Inspect, Onward, Refuse, Fail
    <3>4. CASE Reread(d)  BY <3>4 DEF Reread, Onward, Refuse, Fail
    <3>5. CASE Admit(d)  BY <3>5 DEF Admit, Onward, Refuse, Appended, AppendThrew, ShortWrite, WholeLine
    <3>6. CASE Enter(d)  BY <3>6 DEF Enter, Onward
    <3>7. CASE AskPi(d)  BY <3>7 DEF AskPi, Onward, Settle
    <3>8. CASE HearReply(d)  BY <3>8 DEF HearReply, Settle
    <3>9. CASE AskCc(d)  BY <3>9 DEF AskCc, Settle
    <3>10. CASE RecordOutcome(d)  BY <3>10 DEF RecordOutcome, Appended, AppendThrew, ShortWrite, WholeLine
    <3>11. CASE Release(d)  BY <3>11 DEF Release, Lock!Quit
    <3>12. QED  BY <2>1, <3>1, <3>2, <3>3, <3>4, <3>5, <3>6, <3>7, <3>8, <3>9, <3>10, <3>11 DEF Step
  <2>2. ASSUME NEW d \in Retirer, Crash(d) PROVE Stages'
    BY <2>2 DEF Crash, Lock!Quit
  <2>3. ASSUME NEW d \in Retirer, Handle(d) PROVE Stages'
    BY <2>3 DEF Handle, Reach, ShutDown, Answered
  <2>4. CASE SessionStart  BY <2>4 DEF SessionStart
  <2>5. CASE SessionShutdown  BY <2>5 DEF SessionShutdown
  <2>6. CASE Closed  BY <2>6 DEF Closed, Lose
  <2>7. CASE Dies  BY <2>7 DEF Dies, Lose
  <2>8. CASE Litter  BY <2>8 DEF Litter
  <2>9. CASE Rewrite  BY <2>9 DEF Rewrite
  <2>10. CASE UNCHANGED vars  BY <2>10 DEF vars
  <2>11. ASSUME NEW d \in Retirer, Accept(d) PROVE Stages'
    BY <2>11 DEF Accept
  <2>12. QED
    BY <2>1, <2>2, <2>3, <2>4, <2>5, <2>6, <2>7, <2>8, <2>9, <2>10, <2>11 DEF Next
<1>3. QED  BY <1>1, <1>2, TypeCorrect, PTL DEF Spec

-----------------------------------------------------------------------------
(* A command the receiver has not read, or has refused, has had no effect. *)
THEOREM DeliveryInvariant == Spec => []Delivery
<1>1. Init => Delivery
  BY DEF Init, Delivery
<1>2. ASSUME TypeOK, Stages, Delivery, [Next]_vars PROVE Delivery'
  <2> USE <1>2 DEF TypeOK, Stages, Delivery, Hit, Early, Entered, Reply, Goto, Told, Noted, mutex, session, mine, sidecar, target, others
  <2>1. ASSUME NEW d \in Retirer, Step(d) PROVE Delivery'
    <3>1. CASE Caller(d)  BY <3>1 DEF Caller, Lock!Take, Lock!Quit
    <3>2. CASE Read(d)  BY <3>2 DEF Read, Onward, Refuse, Fail
    <3>3. CASE Inspect(d)  BY <3>3 DEF Inspect, Onward, Refuse, Fail
    <3>4. CASE Reread(d)  BY <3>4 DEF Reread, Onward, Refuse, Fail
    <3>5. CASE Admit(d)  BY <3>5 DEF Admit, Onward, Refuse, Appended, AppendThrew, ShortWrite, WholeLine
    <3>6. CASE Enter(d)  BY <3>6 DEF Enter, Onward
    <3>7. CASE AskPi(d)  BY <3>7 DEF AskPi, Onward, Settle
    <3>8. CASE HearReply(d)  BY <3>8 DEF HearReply, Settle
    <3>9. CASE AskCc(d)  BY <3>9 DEF AskCc, Settle
    <3>10. CASE RecordOutcome(d)  BY <3>10 DEF RecordOutcome, Appended, AppendThrew, ShortWrite, WholeLine
    <3>11. CASE Release(d)  BY <3>11 DEF Release, Lock!Quit
    <3>12. QED  BY <2>1, <3>1, <3>2, <3>3, <3>4, <3>5, <3>6, <3>7, <3>8, <3>9, <3>10, <3>11 DEF Step
  <2>2. ASSUME NEW d \in Retirer, Crash(d) PROVE Delivery'
    BY <2>2 DEF Crash, Lock!Quit
  <2>3. ASSUME NEW d \in Retirer, Handle(d) PROVE Delivery'
    <3>1. ~Hit(d)  BY <2>3 DEF Handle
    <3>2. CASE Answered(d, "refused") /\ UNCHANGED <<latched, shut>>
      BY <3>1, <3>2 DEF Answered
    <3>3. CASE Reach(d) /\ ShutDown(d)
      <4>1. shut' = shut \cup {<<d, bound, native>>}  BY <3>3 DEF ShutDown
      <4>2. \A x \in Retirer : Hit(x)' <=> Hit(x) \/ x = d
        <5>1. PICK t : t[1] = d /\ shut' = shut \cup {t}  BY <4>1
        <5>2. QED  BY <5>1
      <4>3. /\ wire'[d] \in {"shutdown-requested", "unknown"}
            /\ \A x \in Retirer : x # d => wire'[x] = wire[x]
        BY <3>3 DEF ShutDown, Answered
      <4>4. QED  BY <4>2, <4>3
    <3>4. QED  BY <2>3, <3>2, <3>3 DEF Handle
  <2>4. CASE SessionStart  BY <2>4 DEF SessionStart
  <2>5. CASE SessionShutdown  BY <2>5 DEF SessionShutdown
  <2>6. CASE Closed  BY <2>6 DEF Closed, Lose
  <2>7. CASE Dies  BY <2>7 DEF Dies, Lose
  <2>8. CASE Litter  BY <2>8 DEF Litter
  <2>9. CASE Rewrite  BY <2>9 DEF Rewrite
  <2>10. CASE UNCHANGED vars  BY <2>10 DEF vars
  <2>11. ASSUME NEW d \in Retirer, Accept(d) PROVE Delivery'
    BY <2>11 DEF Accept
  <2>12. QED
    BY <2>1, <2>2, <2>3, <2>4, <2>5, <2>6, <2>7, <2>8, <2>9, <2>10, <2>11 DEF Next
<1>3. QED  BY <1>1, <1>2, TypeCorrect, StagesInvariant, PTL DEF Spec

(* The receipt tells the truth about the target, late deliveries included. *)
THEOREM TruthfulAnswer == Spec => []AnswerIsTrue
<1>1. Init => AnswerIsTrue
  BY DEF Init, AnswerIsTrue, Untouched, Acted
<1>2. ASSUME TypeOK, Stages, Delivery, AnswerIsTrue, [Next]_vars PROVE AnswerIsTrue'
  <2> USE <1>2 DEF TypeOK, Stages, Delivery, AnswerIsTrue, Hit, Early, Entered, Untouched, Acted, Reply, Goto, Told, Noted, mutex, session, mine, sidecar, target, others
  <2>1. ASSUME NEW d \in Retirer, Step(d) PROVE AnswerIsTrue'
    <3>1. CASE Caller(d)  BY <3>1 DEF Caller, Lock!Take, Lock!Quit
    <3>2. CASE Read(d)  BY <3>2 DEF Read, Onward, Refuse, Fail
    <3>3. CASE Inspect(d)  BY <3>3 DEF Inspect, Onward, Refuse, Fail
    <3>4. CASE Reread(d)  BY <3>4 DEF Reread, Onward, Refuse, Fail
    <3>5. CASE Admit(d)  BY <3>5 DEF Admit, Onward, Refuse, Appended, AppendThrew, ShortWrite, WholeLine
    <3>6. CASE Enter(d)  BY <3>6 DEF Enter, Onward
    <3>7. CASE AskPi(d)  BY <3>7 DEF AskPi, Onward, Settle
    <3>8. CASE HearReply(d)  BY <3>8 DEF HearReply, Settle
    <3>9. CASE AskCc(d)
      <4>1. ~Hit(d) /\ wire[d] = "none" /\ wire' = wire  BY <3>9 DEF AskCc
      <4>2. \A x \in Retirer : x # d => outcome'[x] = outcome[x]  BY <3>9 DEF AskCc, Settle
      <4>3. CASE shut' = shut /\ outcome'[d] \notin Acted  BY <4>1, <4>2, <4>3
      <4>4. CASE /\ shut' = shut \cup {<<d, 0, kept[d][2]>>}
                 /\ outcome'[d] \in {"exited", "unknown"}
        <5>1. PICK t : t[1] = d /\ shut' = shut \cup {t}  BY <4>4
        <5>2. \A x \in Retirer : Hit(x)' <=> Hit(x) \/ x = d  BY <5>1
        <5>3. QED  BY <4>1, <4>2, <4>4, <5>2
      <4>5. QED  BY <3>9, <4>3, <4>4 DEF AskCc, Settle
    <3>10. CASE RecordOutcome(d)  BY <3>10 DEF RecordOutcome, Appended, AppendThrew, ShortWrite, WholeLine
    <3>11. CASE Release(d)  BY <3>11 DEF Release, Lock!Quit
    <3>12. QED  BY <2>1, <3>1, <3>2, <3>3, <3>4, <3>5, <3>6, <3>7, <3>8, <3>9, <3>10, <3>11 DEF Step
  <2>2. ASSUME NEW d \in Retirer, Crash(d) PROVE AnswerIsTrue'
    BY <2>2 DEF Crash, Lock!Quit
  <2>3. ASSUME NEW d \in Retirer, Handle(d) PROVE AnswerIsTrue'
    BY <2>3 DEF Handle, Reach, ShutDown, Answered
  <2>4. CASE SessionStart  BY <2>4 DEF SessionStart
  <2>5. CASE SessionShutdown  BY <2>5 DEF SessionShutdown
  <2>6. CASE Closed  BY <2>6 DEF Closed, Lose
  <2>7. CASE Dies  BY <2>7 DEF Dies, Lose
  <2>8. CASE Litter  BY <2>8 DEF Litter
  <2>9. CASE Rewrite  BY <2>9 DEF Rewrite
  <2>10. CASE UNCHANGED vars  BY <2>10 DEF vars
  <2>11. ASSUME NEW d \in Retirer, Accept(d) PROVE AnswerIsTrue'
    BY <2>11 DEF Accept
  <2>12. QED
    BY <2>1, <2>2, <2>3, <2>4, <2>5, <2>6, <2>7, <2>8, <2>9, <2>10, <2>11 DEF Next
<1>3. QED  BY <1>1, <1>2, TypeCorrect, StagesInvariant, DeliveryInvariant, PTL DEF Spec

(* The generation that is bound is latched once it has been shut down. *)
THEOREM LatchInvariant == Spec => []Latch
<1>1. Init => Latch
  BY DEF Init, Latch
<1>2. ASSUME TypeOK, Latch, [Next]_vars PROVE Latch'
  <2> USE <1>2 DEF TypeOK, Latch, Goto, Told, Noted, mutex, session, mine, sidecar, target, others
  <2>1. ASSUME NEW d \in Retirer, Step(d) PROVE Latch'
    <3>1. CASE Caller(d)  BY <3>1 DEF Caller, Lock!Take, Lock!Quit
    <3>2. CASE Read(d)  BY <3>2 DEF Read, Onward, Refuse, Fail
    <3>3. CASE Inspect(d)  BY <3>3 DEF Inspect, Onward, Refuse, Fail
    <3>4. CASE Reread(d)  BY <3>4 DEF Reread, Onward, Refuse, Fail
    <3>5. CASE Admit(d)  BY <3>5 DEF Admit, Onward, Refuse, Appended, AppendThrew, ShortWrite, WholeLine
    <3>6. CASE Enter(d)  BY <3>6 DEF Enter, Onward
    <3>7. CASE AskPi(d)  BY <3>7 DEF AskPi, Onward, Settle
    <3>8. CASE HearReply(d)  BY <3>8 DEF HearReply, Settle
    <3>9. CASE AskCc(d)  BY <3>9 DEF AskCc, Settle
    <3>10. CASE RecordOutcome(d)  BY <3>10 DEF RecordOutcome, Appended, AppendThrew, ShortWrite, WholeLine
    <3>11. CASE Release(d)  BY <3>11 DEF Release, Lock!Quit
    <3>12. QED  BY <2>1, <3>1, <3>2, <3>3, <3>4, <3>5, <3>6, <3>7, <3>8, <3>9, <3>10, <3>11 DEF Step
  <2>2. ASSUME NEW d \in Retirer, Crash(d) PROVE Latch'
    BY <2>2 DEF Crash, Lock!Quit
  <2>3. ASSUME NEW d \in Retirer, Handle(d) PROVE Latch'
    BY <2>3 DEF Handle, Reach, ShutDown, Answered
  <2>4. CASE SessionStart  BY <2>4 DEF SessionStart
  <2>5. CASE SessionShutdown  BY <2>5 DEF SessionShutdown
  <2>6. CASE Closed  BY <2>6 DEF Closed, Lose
  <2>7. CASE Dies  BY <2>7 DEF Dies, Lose
  <2>8. CASE Litter  BY <2>8 DEF Litter
  <2>9. CASE Rewrite  BY <2>9 DEF Rewrite
  <2>10. CASE UNCHANGED vars  BY <2>10 DEF vars
  <2>11. ASSUME NEW d \in Retirer, Accept(d) PROVE Latch'
    BY <2>11 DEF Accept
  <2>12. QED
    BY <2>1, <2>2, <2>3, <2>4, <2>5, <2>6, <2>7, <2>8, <2>9, <2>10, <2>11 DEF Next
<1>3. QED  BY <1>1, <1>2, TypeCorrect, PTL DEF Spec

(* One generation is shut down by one request at most. *)
THEOREM AtMostOneShutdown == Spec => []OneShutdown
<1>1. Init => OneShutdown
  BY DEF Init, OneShutdown
<1>2. ASSUME TypeOK, Latch, OneShutdown, [Next]_vars PROVE OneShutdown'
  <2> USE <1>2 DEF TypeOK, Latch, OneShutdown, Goto, Told, Noted, mutex, session, mine, sidecar, target, others
  <2>1. ASSUME NEW d \in Retirer, Step(d) PROVE OneShutdown'
    <3>1. CASE Caller(d)  BY <3>1 DEF Caller, Lock!Take, Lock!Quit
    <3>2. CASE Read(d)  BY <3>2 DEF Read, Onward, Refuse, Fail
    <3>3. CASE Inspect(d)  BY <3>3 DEF Inspect, Onward, Refuse, Fail
    <3>4. CASE Reread(d)  BY <3>4 DEF Reread, Onward, Refuse, Fail
    <3>5. CASE Admit(d)  BY <3>5 DEF Admit, Onward, Refuse, Appended, AppendThrew, ShortWrite, WholeLine
    <3>6. CASE Enter(d)  BY <3>6 DEF Enter, Onward
    <3>7. CASE AskPi(d)  BY <3>7 DEF AskPi, Onward, Settle
    <3>8. CASE HearReply(d)  BY <3>8 DEF HearReply, Settle
    <3>9. CASE AskCc(d)  BY <3>9 DEF AskCc, Settle
    <3>10. CASE RecordOutcome(d)  BY <3>10 DEF RecordOutcome, Appended, AppendThrew, ShortWrite, WholeLine
    <3>11. CASE Release(d)  BY <3>11 DEF Release, Lock!Quit
    <3>12. QED  BY <2>1, <3>1, <3>2, <3>3, <3>4, <3>5, <3>6, <3>7, <3>8, <3>9, <3>10, <3>11 DEF Step
  <2>2. ASSUME NEW d \in Retirer, Crash(d) PROVE OneShutdown'
    BY <2>2 DEF Crash, Lock!Quit
  <2>3. ASSUME NEW d \in Retirer, Handle(d) PROVE OneShutdown'
    BY <2>3 DEF Handle, Reach, ShutDown, Answered
  <2>4. CASE SessionStart  BY <2>4 DEF SessionStart
  <2>5. CASE SessionShutdown  BY <2>5 DEF SessionShutdown
  <2>6. CASE Closed  BY <2>6 DEF Closed, Lose
  <2>7. CASE Dies  BY <2>7 DEF Dies, Lose
  <2>8. CASE Litter  BY <2>8 DEF Litter
  <2>9. CASE Rewrite  BY <2>9 DEF Rewrite
  <2>10. CASE UNCHANGED vars  BY <2>10 DEF vars
  <2>11. ASSUME NEW d \in Retirer, Accept(d) PROVE OneShutdown'
    BY <2>11 DEF Accept
  <2>12. QED
    BY <2>1, <2>2, <2>3, <2>4, <2>5, <2>6, <2>7, <2>8, <2>9, <2>10, <2>11 DEF Next
<1>3. QED  BY <1>1, <1>2, TypeCorrect, LatchInvariant, PTL DEF Spec

(* What is shut down is the session, and the generation, that was asked for. *)
THEOREM RightSession == Spec => []AskedForIt
<1>1. Init => AskedForIt
  BY DEF Init, AskedForIt
<1>2. ASSUME TypeOK, Stages, Delivery, AskedForIt, [Next]_vars PROVE AskedForIt'
  <2> USE <1>2 DEF TypeOK, Stages, AskedForIt, Hit, Early, Entered, Goto, Told, Noted, mutex, session, mine, sidecar, target, others
  <2>1. ASSUME NEW d \in Retirer, Step(d) PROVE AskedForIt'
    <3>1. CASE Caller(d)  BY <3>1 DEF Caller, Lock!Take, Lock!Quit
    <3>2. CASE Read(d)  BY <3>2 DEF Read, Onward, Refuse, Fail
    <3>3. CASE Inspect(d)  BY <3>3 DEF Inspect, Onward, Refuse, Fail
    <3>4. CASE Reread(d)  BY <3>4 DEF Reread, Onward, Refuse, Fail
    <3>5. CASE Admit(d)  BY <3>5 DEF Admit, Onward, Refuse, Appended, AppendThrew, ShortWrite, WholeLine
    <3>6. CASE Enter(d)  BY <3>6 DEF Enter, Onward
    <3>7. CASE AskPi(d)  BY <3>7 DEF AskPi, Onward, Settle
    <3>8. CASE HearReply(d)  BY <3>8 DEF HearReply, Settle
    <3>9. CASE AskCc(d)  BY <3>9 DEF AskCc, Settle
    <3>10. CASE RecordOutcome(d)  BY <3>10 DEF RecordOutcome, Appended, AppendThrew, ShortWrite, WholeLine
    <3>11. CASE Release(d)  BY <3>11 DEF Release, Lock!Quit
    <3>12. QED  BY <2>1, <3>1, <3>2, <3>3, <3>4, <3>5, <3>6, <3>7, <3>8, <3>9, <3>10, <3>11 DEF Step
  <2>2. ASSUME NEW d \in Retirer, Crash(d) PROVE AskedForIt'
    BY <2>2 DEF Crash, Lock!Quit
  <2>3. ASSUME NEW d \in Retirer, Handle(d) PROVE AskedForIt'
    BY <2>3 DEF Handle, Reach, ShutDown, Answered
  <2>4. CASE SessionStart  BY <2>4 DEF SessionStart
  <2>5. CASE SessionShutdown  BY <2>5 DEF SessionShutdown
  <2>6. CASE Closed  BY <2>6 DEF Closed, Lose
  <2>7. CASE Dies  BY <2>7 DEF Dies, Lose
  <2>8. CASE Litter  BY <2>8 DEF Litter
  <2>9. CASE Rewrite  BY <2>9 DEF Rewrite
  <2>10. CASE UNCHANGED vars  BY <2>10 DEF vars
  <2>11. ASSUME NEW d \in Retirer, Accept(d) PROVE AskedForIt'
    BY <2>11 DEF Accept, Delivery
  <2>12. QED
    BY <2>1, <2>2, <2>3, <2>4, <2>5, <2>6, <2>7, <2>8, <2>9, <2>10, <2>11 DEF Next
<1>3. QED  BY <1>1, <1>2, TypeCorrect, StagesInvariant, DeliveryInvariant, PTL DEF Spec

-----------------------------------------------------------------------------
(* What the record status claims is in the sidecar. *)
NoteClaims == \A d \in Retirer :
  /\ note[d] \in {"requested", "complete", "outcome-append-error"} => Written(<<d, "requested">>)
  /\ note[d] = "complete" => Written(<<d, outcome[d]>>)
  /\ pc[d] = "done" => note[d] # "requested"

(* The sidecar's inductive invariant: what is written there at each stage,
   what the record status claims of it, and what a torn line explains. *)
SidecarInv == Traces /\ NoteClaims /\ SidecarIsTrue

(* A step in which nothing is appended: nobody comes back before the append it
   has behind it, and only a request whose line is there touches the target. *)
NoAppend ==
  /\ UNCHANGED <<log, torn, glued, note>>
  /\ \A x \in Retirer :
       /\ pc'[x] \in Early => pc[x] \in Early
       /\ pc'[x] \in Entered => pc[x] \in Entered
       /\ pc[x] \in Past => pc'[x] \in Past
       /\ pc'[x] = "done" => pc[x] = "done" \/ note[x] # "requested"
       /\ outcome'[x] = outcome[x] \/ pc[x] \in Early \cup Entered
       /\ Hit(x)' \/ wire'[x] # "none" => Hit(x) \/ wire[x] # "none" \/ note[x] = "requested"

(* A step in which d appends this line and does nothing else to the target. *)
Appends(d, line) ==
  /\ Appended(line) \/ AppendThrew(line)
  /\ UNCHANGED <<shut, wire>>
  /\ \A x \in Retirer : x # d => pc'[x] = pc[x] /\ outcome'[x] = outcome[x] /\ note'[x] = note[x]
  /\ \/ /\ pc[d] = "admit" /\ line = <<d, "requested">>
        /\ \/ Appended(line) /\ note'[d] = "requested" /\ pc'[d] = "enter"
           \/ note'[d] = "requested-append-error" /\ pc'[d] = "release"
     \/ /\ pc[d] = "note" /\ line = <<d, outcome[d]>> /\ outcome'[d] = outcome[d]
        /\ pc'[d] = "release"
        /\ \/ Appended(line) /\ note'[d] = "complete"
           \/ note'[d] = "outcome-append-error"

(* Every step is of one of the two kinds. *)
LEMMA SidecarSteps ==
  ASSUME TypeOK, Stages, [Next]_vars
  PROVE  NoAppend \/ \E d \in Retirer, line \in Event : Appends(d, line)
<1> USE DEF TypeOK, Stages, Hit, Early, Entered, Entered, Past, Goto, Told, Noted,
            mutex, session, mine, sidecar, target, others
<1>1. ASSUME NEW d \in Retirer, Step(d)
      PROVE  NoAppend \/ \E line \in Event : Appends(d, line)
  <2>1. CASE Caller(d)  BY <2>1 DEF Caller, NoAppend
  <2>2. CASE Read(d)  BY <2>2 DEF Read, Onward, Refuse, Fail, NoAppend
  <2>3. CASE Inspect(d)  BY <2>3 DEF Inspect, Onward, Refuse, Fail, NoAppend
  <2>4. CASE Reread(d)  BY <2>4 DEF Reread, Onward, Refuse, Fail, NoAppend
  <2>5. CASE Admit(d)
    <3>1. CASE Refuse(d) /\ UNCHANGED <<note, sidecar>>
      BY <2>5, <3>1 DEF Admit, Refuse, NoAppend
    <3>2. CASE ~(Refuse(d) /\ UNCHANGED <<note, sidecar>>)
      <4>1. <<d, "requested">> \in Event
        BY DEF Event
      <4>2. Appends(d, <<d, "requested">>)
        BY <2>5, <3>2 DEF Admit, Refuse, Onward, Appends
      <4>3. QED  BY <4>1, <4>2
    <3>3. QED  BY <3>1, <3>2
  <2>6. CASE Enter(d)  BY <2>6 DEF Enter, Onward, NoAppend
  <2>7. CASE AskPi(d)  BY <2>7 DEF AskPi, Onward, Settle, NoAppend
  <2>8. CASE HearReply(d)  BY <2>8 DEF HearReply, Settle, NoAppend
  <2>9. CASE AskCc(d)  BY <2>9 DEF AskCc, Settle, NoAppend
  <2>10. CASE RecordOutcome(d)
    <3>1. <<d, outcome[d]>> \in Event
      BY DEF Event
    <3>2. Appends(d, <<d, outcome[d]>>)
      BY <2>10 DEF RecordOutcome, Appends
    <3>3. QED  BY <3>1, <3>2
  <2>11. CASE Release(d)  BY <2>11 DEF Release, NoAppend
  <2>12. QED  BY <1>1, <2>1, <2>2, <2>3, <2>4, <2>5, <2>6, <2>7, <2>8, <2>9, <2>10, <2>11 DEF Step
<1>2. ASSUME NEW d \in Retirer, Crash(d) \/ Accept(d) PROVE NoAppend
  BY <1>2 DEF Crash, Accept, NoAppend
<1>3. ASSUME NEW d \in Retirer, Handle(d) PROVE NoAppend
  BY <1>3 DEF Handle, ShutDown, Answered, NoAppend
<1>4. CASE SessionStart \/ SessionShutdown \/ Litter \/ Rewrite
  BY <1>4 DEF SessionStart, SessionShutdown, Litter, Rewrite, NoAppend
<1>5. CASE Closed \/ Dies
  BY <1>5 DEF Closed, Dies, Lose, NoAppend
<1>6. CASE UNCHANGED vars
  BY <1>6 DEF vars, NoAppend
<1>7. QED  BY <1>1, <1>2, <1>3, <1>4, <1>5, <1>6 DEF Next

(* An append, thrown or not, takes nothing away, adds its own line at most,
   and glues it to nothing but the torn line it finds. *)
LEMMA AppendKeeps ==
  ASSUME TypeOK, NEW d \in Retirer, NEW line \in Event, line[1] = d,
         Appended(line) \/ AppendThrew(line)
  PROVE  /\ \A l \in Event : Written(l) => Written(l)'
         /\ \A l \in Event : Written(l)' => Written(l) \/ l = line
         /\ Appended(line) => Written(line)' /\ torn' = None
         /\ torn' \in {None, torn, d}
         /\ glued' = glued \/ (torn # None /\ torn' = None /\ glued' = glued \cup {<<line, torn>>})
<1> USE DEF TypeOK, Written
<1>1. CASE Appended(line)
  BY <1>1 DEF Appended, WholeLine
<1>2. CASE ~Appended(line)
  BY <1>2 DEF Appended, AppendThrew, ShortWrite, sidecar
<1>3. QED  BY <1>1, <1>2

(* An append keeps the invariant: before the requested line there is nothing
   of d's; its outcome line repeats what it has decided; and the one torn line
   a request may leave is the last thing it does to the file. *)
LEMMA AppendStep ==
  ASSUME TypeOK, Stages, SidecarInv, NEW d \in Retirer, NEW line \in Event, Appends(d, line)
  PROVE  SidecarInv'
<1> USE DEF SidecarInv
<1>1. line[1] = d /\ (line[2] = "requested" \/ line[2] = outcome[d])
  BY DEF Appends
<1>2. /\ \A l \in Event : Written(l) => Written(l)'
      /\ \A l \in Event : Written(l)' => Written(l) \/ l = line
      /\ Appended(line) => Written(line)' /\ torn' = None
      /\ torn' \in {None, torn, d}
      /\ glued' = glued \/ (torn # None /\ torn' = None /\ glued' = glued \cup {<<line, torn>>})
  BY <1>1, AppendKeeps DEF Appends
<1>3. pc[d] \in {"admit", "note"} /\ pc[d] \notin Past
  BY DEF Appends, Past
<1>4. \A l \in Event : l[1] \in Retirer /\ l = <<l[1], l[2]>>
  BY DEF Event
<1>5. \A x \in Retirer : SaysTorn(x) /\ pc[x] \in Past => SaysTorn(x)' /\ pc'[x] \in Past
  BY <1>3 DEF Appends, SaysTorn
<1>6. \A l \in Event : Written(l) /\ l[1] = d =>
         pc[d] = "note" /\ l[2] = "requested"
  BY <1>3 DEF Traces, Early, Entered
<1>7. Written(<<d, "requested">>) \/ line = <<d, "requested">>
  BY DEF Appends, Stages, NoteClaims, Entered
<1>8. note'[d] # "not-attempted" /\ pc'[d] \in {"enter", "release"}
  BY DEF Appends
<1>9. pc'[d] = "release" \/ (pc'[d] = "enter" /\ line[2] = "requested")
  BY DEF Appends
<1>10. torn' = d => SaysTorn(d)' /\ pc'[d] \in Past
  BY <1>2 DEF Appends, SaysTorn, Past, Traces, TypeOK
<1>11. Traces'
  <2>1. ASSUME NEW l \in Event, Written(l)'
        PROVE  /\ pc'[l[1]] \notin Early
               /\ pc'[l[1]] \in Entered => l[2] = "requested"
               /\ note'[l[1]] # "not-attempted"
    <3>1. CASE l[1] = d
      <4>1. CASE l = line
        BY <1>8, <1>9, <3>1, <4>1 DEF Early, Entered
      <4>2. CASE Written(l)
        BY <1>6, <1>8, <3>1, <4>2 DEF Early, Entered
      <4>3. QED  BY <1>2, <2>1, <4>1, <4>2
    <3>2. CASE l[1] # d
      <4>1. Written(l)
        BY <1>1, <1>2, <2>1, <3>2
      <4>2. QED  BY <1>4, <3>2, <4>1 DEF Traces, Appends
    <3>3. QED  BY <3>1, <3>2
  <2>2. torn' # None => SaysTorn(torn)' /\ pc'[torn'] \in Past
    BY <1>2, <1>5, <1>10 DEF Traces, TypeOK
  <2>3. \A g \in glued' : SaysTorn(g[2])' /\ pc'[g[2]] \in Past
    BY <1>2, <1>5 DEF Traces, TypeOK
  <2>4. QED  BY <2>1, <2>2, <2>3 DEF Traces
<1>12. NoteClaims'
  <2>1. ASSUME NEW x \in Retirer, x # d
        PROVE  /\ note'[x] \in {"requested", "complete", "outcome-append-error"} =>
                    Written(<<x, "requested">>)'
               /\ note'[x] = "complete" => Written(<<x, outcome[x]>>)'
               /\ pc'[x] = "done" => note'[x] # "requested"
    <3>1. <<x, "requested">> \in Event /\ <<x, outcome[x]>> \in Event
      BY DEF Event, TypeOK
    <3>2. QED  BY <1>2, <2>1, <3>1 DEF Appends, NoteClaims
  <2>2. /\ note'[d] \in {"requested", "complete", "outcome-append-error"} =>
             Written(<<d, "requested">>)'
        /\ note'[d] = "complete" => Written(<<d, outcome[d]>>)' /\ outcome'[d] = outcome[d]
        /\ pc'[d] # "done"
    <3>1. <<d, "requested">> \in Event
      BY DEF Event
    <3>2. CASE pc[d] = "admit"
      BY <1>2, <3>1, <3>2 DEF Appends
    <3>3. CASE pc[d] = "note"
      <4>1. Written(<<d, "requested">>)
        BY <3>3 DEF Stages, NoteClaims, Entered
      <4>2. QED  BY <1>2, <3>1, <3>3, <4>1 DEF Appends
    <3>4. QED  BY <1>3, <3>2, <3>3
  <2>3. \A x \in Retirer : x # d => outcome'[x] = outcome[x]
    BY DEF Appends
  <2>4. QED  BY <2>1, <2>2, <2>3 DEF NoteClaims
<1>13. SidecarIsTrue'
  <2>1. \A x \in Retirer : Hit(x)' \/ wire'[x] # "none" => Written(<<x, "requested">>)'
    <3>1. \A x \in Retirer : <<x, "requested">> \in Event
      BY DEF Event
    <3>2. \A x \in Retirer : (Hit(x)' <=> Hit(x)) /\ wire'[x] = wire[x]
      BY DEF Appends, Hit
    <3>3. QED  BY <1>2, <3>1, <3>2 DEF SidecarIsTrue
  <2>2. ASSUME NEW l \in Event, Written(l)', l[2] # "requested"
        PROVE  Written(<<l[1], "requested">>)' /\ l[2] = outcome'[l[1]]
    <3>1. <<l[1], "requested">> \in Event
      BY DEF Event
    <3>2. CASE l = line
      <4>1. pc[d] = "note" /\ outcome'[d] = outcome[d] /\ l = <<d, outcome[d]>>
        BY <2>2, <3>2 DEF Appends
      <4>2. Written(<<d, "requested">>)
        BY <4>1 DEF Stages, NoteClaims, Entered
      <4>3. QED  BY <1>2, <3>1, <4>1, <4>2
    <3>3. CASE Written(l)
      <4>1. l[1] # d
        BY <1>6, <2>2, <3>3
      <4>2. Written(<<l[1], "requested">>) /\ l[2] = outcome[l[1]]
        BY <2>2, <3>3 DEF SidecarIsTrue
      <4>3. QED  BY <1>2, <1>4, <3>1, <4>1, <4>2 DEF Appends
    <3>4. QED  BY <1>2, <2>2, <3>2, <3>3
  <2>3. \A g \in glued : g[2] # d
    BY <1>3 DEF Traces
  <2>4. \A g \in glued' : SaysTorn(g[2])' /\ g[2] # torn'
    BY <1>2, <1>5, <2>3, NoneAssumption DEF Traces, SidecarIsTrue, TypeOK
  <2>5. \A g, h \in glued' : g[2] = h[2] => g = h
    BY <1>2 DEF SidecarIsTrue
  <2>6. torn' # None => SaysTorn(torn)'
    BY <1>2, <1>5, <1>10 DEF Traces, TypeOK
  <2>7. QED  BY <2>1, <2>2, <2>4, <2>5, <2>6 DEF SidecarIsTrue
<1>14. QED  BY <1>11, <1>12, <1>13

(* What the sidecar holds agrees with what was done and with what each request
   has noted of it, torn lines included. *)
THEOREM SidecarInvariant == Spec => []SidecarInv
<1>1. Init => SidecarInv
  BY DEF Init, SidecarInv, Traces, NoteClaims, SidecarIsTrue, Written, Hit
<1>2. ASSUME TypeOK, Stages, SidecarInv, NoAppend PROVE SidecarInv'
  <2>1. \A l \in Event : Written(l)' <=> Written(l)
    BY <1>2 DEF NoAppend, Written
  <2>2. Traces'
    BY <1>2, <2>1 DEF SidecarInv, Traces, NoAppend, SaysTorn, TypeOK, Event
  <2>3. NoteClaims'
    BY <1>2, <2>1 DEF SidecarInv, NoteClaims, NoAppend, Stages, Event, TypeOK
  <2>4. SidecarIsTrue'
    BY <1>2, <2>1 DEF SidecarInv, NoteClaims, Traces, SidecarIsTrue, NoAppend, SaysTorn, Event, TypeOK
  <2>5. QED  BY <2>2, <2>3, <2>4 DEF SidecarInv
<1>3. TypeOK /\ Stages /\ SidecarInv /\ [Next]_vars => SidecarInv'
  BY <1>2, SidecarSteps, AppendStep
<1>4. QED  BY <1>1, <1>3, TypeCorrect, StagesInvariant, PTL DEF Spec

(* The receipt's record status matches the sidecar. *)
THEOREM TrueNote == Spec => []NoteIsTrue
<1>1. SidecarInv => NoteIsTrue
  BY DEF SidecarInv, Traces, NoteClaims, NoteIsTrue, SaysTorn
<1>2. QED  BY <1>1, SidecarInvariant, PTL

(* Every effect and every outcome line has its requested line, and a line that
   cannot be read follows a short write that was reported. *)
THEOREM TrueSidecar == Spec => []SidecarIsTrue
<1>1. SidecarInv => SidecarIsTrue
  BY DEF SidecarInv
<1>2. QED  BY <1>1, SidecarInvariant, PTL

-----------------------------------------------------------------------------
(* A request decides its outcome once, and a shutdown call is not unmade. *)
LEMMA OutcomeStep ==
  ASSUME TypeOK, Stages, [Next]_vars, NEW d \in Retirer
  PROVE  /\ outcome'[d] = outcome[d] \/ (outcome[d] = "none" /\ outcome'[d] # "none")
         /\ shut \subseteq shut'
<1> USE DEF TypeOK, Stages, Early, Goto, Told, Noted, mutex, session, mine, sidecar, target, others
<1>1. ASSUME NEW x \in Retirer, Step(x)
      PROVE  /\ outcome'[d] = outcome[d] \/ (outcome[d] = "none" /\ outcome'[d] # "none")
             /\ shut \subseteq shut'
  <2>1. CASE Caller(x)  BY <2>1 DEF Caller
  <2>2. CASE Read(x)  BY <2>2 DEF Read, Onward, Refuse, Fail
  <2>3. CASE Inspect(x)  BY <2>3 DEF Inspect, Onward, Refuse, Fail
  <2>4. CASE Reread(x)  BY <2>4 DEF Reread, Onward, Refuse, Fail
  <2>5. CASE Admit(x)  BY <2>5 DEF Admit, Onward, Refuse
  <2>6. CASE Enter(x)  BY <2>6 DEF Enter, Onward
  <2>7. CASE AskPi(x)  BY <2>7 DEF AskPi, Onward, Settle
  <2>8. CASE HearReply(x)  BY <2>8 DEF HearReply, Settle, Reply
  <2>9. CASE AskCc(x)
    <3>1. outcome[x] = "none" /\ shut \subseteq shut'
      BY <2>9 DEF AskCc
    <3>2. \E r \in {"refused", "not-signalled", "unknown", "exited"} :
            outcome' = [outcome EXCEPT ![x] = r]
      BY <2>9 DEF AskCc, Settle
    <3>3. QED  BY <3>1, <3>2
  <2>10. CASE RecordOutcome(x)  BY <2>10 DEF RecordOutcome
  <2>11. CASE Release(x)  BY <2>11 DEF Release
  <2>12. QED  BY <1>1, <2>1, <2>2, <2>3, <2>4, <2>5, <2>6, <2>7, <2>8, <2>9, <2>10, <2>11 DEF Step
<1>2. ASSUME NEW x \in Retirer, Crash(x) \/ Accept(x) PROVE UNCHANGED <<outcome, shut>>
  BY <1>2 DEF Crash, Accept
<1>3. ASSUME NEW x \in Retirer, Handle(x) PROVE UNCHANGED outcome /\ shut \subseteq shut'
  BY <1>3 DEF Handle, ShutDown
<1>4. CASE SessionStart \/ SessionShutdown \/ Closed \/ Dies \/ Litter \/ Rewrite
  BY <1>4 DEF SessionStart, SessionShutdown, Closed, Dies, Litter, Rewrite
<1>5. CASE UNCHANGED vars  BY <1>5 DEF vars
<1>6. QED  BY <1>1, <1>2, <1>3, <1>4, <1>5 DEF Next

(* requestRetire: whatever the other requests, the sessions and the wire do,
   each request implements TrueReceipt: it answers once, and what it has said
   of the target stays true. *)
THEOREM RequestsGiveReceipts ==
  ASSUME NEW d \in Retirer
  PROVE  Spec => Receipt(d)!Spec
<1>1. Init => Receipt(d)!Init
  BY DEF Init, Receipt!Init, Hit
<1>2. ASSUME TypeOK, TypeOK', Stages, AnswerIsTrue', [Next]_vars
      PROVE  [Receipt(d)!Next]_(Receipt(d)!vars)
  <2> DEFINE acts == IF Hit(d) THEN 1 ELSE 0
  <2> USE DEF Receipt!Next, Receipt!Give, Receipt!Act, Receipt!vars
  <2>1. Hit(d) => Hit(d)'
    BY <1>2, OutcomeStep DEF Hit
  <2>2. acts' = acts \/ (acts = 0 /\ acts' = 1)
    <3>1. CASE Hit(d)
      <4>1. Hit(d)'  BY <2>1, <3>1
      <4>2. QED  BY <3>1, <4>1
    <3>2. CASE ~Hit(d)
      <4>1. CASE Hit(d)'  BY <3>2, <4>1
      <4>2. CASE ~Hit(d)'  BY <3>2, <4>2
      <4>3. QED  BY <4>1, <4>2
    <3>3. QED  BY <3>1, <3>2
  <2>3. /\ outcome'[d] \in Untouched => acts' = 0
        /\ outcome'[d] \in Acted => acts' = 1
    <3>1. /\ outcome'[d] \in Untouched => ~Hit(d)'
          /\ outcome'[d] \in Acted => Hit(d)'
      BY <1>2 DEF AnswerIsTrue
    <3>2. (Hit(d)' => acts' = 1) /\ (~Hit(d)' => acts' = 0)
      OBVIOUS
    <3>3. QED  BY <3>1, <3>2
  <2> HIDE DEF acts
  <2>4. CASE outcome'[d] = outcome[d]
    <3>1. CASE acts' = acts  BY <2>4, <3>1 DEF acts
    <3>2. CASE acts = 0 /\ acts' = 1
      <4>1. outcome[d] \notin Untouched  BY <2>3, <2>4, <3>2
      <4>2. QED  BY <2>4, <3>2, <4>1 DEF acts
    <3>3. QED  BY <2>2, <3>1, <3>2
  <2>5. CASE outcome[d] = "none" /\ outcome'[d] # "none"
    <3>1. outcome'[d] \in Untouched \cup Acted \cup {"unknown"}
      BY <1>2, <2>5 DEF TypeOK, Outcome, Untouched, Acted
    <3>2. Receipt(d)!Give(outcome'[d])
      BY <2>2, <2>3, <2>5 DEF acts
    <3>3. QED  BY <3>1, <3>2
  <2>6. QED  BY <1>2, <2>4, <2>5, OutcomeStep
<1>3. QED
  BY <1>1, <1>2, TypeCorrect, StagesInvariant, TruthfulAnswer, PTL DEF Spec, Receipt!Spec

-----------------------------------------------------------------------------
(***************************************************************************)
(* The Claude Code adapter, which AskCc stands for in Retire: one request, *)
(* its helper and the world under them, as CcRetire tells it.              *)
(***************************************************************************)
(* Of two pipes end to end: what is written goes to the end of the second, and
   what is read moves from one to the other. *)
LEMMA AppendToSaid ==
  ASSUME NEW L, NEW s \in Seq(L), NEW t \in Seq(L), NEW x \in L
  PROVE  s \o Append(t, x) = Append(s \o t, x)
<1>1. Append(t, x) \in Seq(L) /\ s \o t \in Seq(L)
  BY ConcatProperties, AppendProperties
<1>2. Append(t, x) = t \o <<x>> /\ Append(s \o t, x) = (s \o t) \o <<x>>
  BY <1>1, AppendIsConcat
<1>3. <<x>> \in Seq(L)
  OBVIOUS
<1>4. QED  BY <1>2, <1>3, ConcatAssociative

LEMMA ReadFromSaid ==
  ASSUME NEW L, NEW s \in Seq(L), NEW t \in Seq(L), t # <<>>
  PROVE  Append(s, Head(t)) \o Tail(t) = s \o t
<1> DEFINE h == <<Head(t)>>
<1>1. Head(t) \in L /\ Tail(t) \in Seq(L) /\ h \in Seq(L)
  BY HeadTailProperties
<1>2. Append(s, Head(t)) = s \o h
  BY <1>1, AppendIsConcat
<1>3. t = h \o Tail(t)
  <2>1. h \o Tail(t) \in Seq(L) /\ Len(h \o Tail(t)) = Len(t)
    BY <1>1
  <2>2. \A i \in 1..Len(t) : t[i] = (h \o Tail(t))[i]
    BY <1>1
  <2>3. QED  BY <2>1, <2>2, SeqEqual
<1>4. (s \o h) \o Tail(t) = s \o (h \o Tail(t))
  BY <1>1, ConcatAssociative
<1>5. QED  BY <1>2, <1>3, <1>4

LEMMA CcTypeStep ==
  ASSUME CcTypeOK, [CcNext]_ccvars
  PROVE  CcTypeOK'
<1> USE DEF CcTypeOK, Who, Frame, Ended, Line, HelperStep, Result, world,
   node, helper
<1>1. CASE World  BY <1>1 DEF World, Exit, Reuse, Drift
<1>2. CASE Begin  BY <1>2 DEF Begin, Answer
<1>3. CASE ReadLine
  <2>1. Head(out) \in Line /\ Tail(out) \in Seq(Line)
    BY <1>3, HeadTailProperties DEF ReadLine
  <2>2. lines' \in Seq(Line) /\ out' \in Seq(Line)
    BY <1>3, <2>1, AppendProperties DEF ReadLine
  <2>3. sent' \in {"none", "go", "cancel"} /\ control' \in Frame
    BY <1>3 DEF ReadLine, Write
  <2>4. protocol' \in BOOLEAN /\ killed' \in BOOLEAN
    BY <1>3, Zenon DEF ReadLine, Write
  <2>5. QED  BY <1>3, <2>2, <2>3, <2>4 DEF ReadLine
<1>4. CASE Close
  <2>1. result' \in Result
    BY <1>4 DEF Close, Answer, AfterGo, BeforeGo
  <2>2. QED  BY <1>4, <2>1 DEF Close, Answer
<1>5. CASE Abort
  <2>1. sent' \in {"none", "go", "cancel"} /\ control' \in Frame
    BY <1>5 DEF Abort, Write
  <2>2. protocol' \in BOOLEAN /\ killed' \in BOOLEAN /\ stopped' \in BOOLEAN /\ aborted' \in BOOLEAN
    BY <1>5, Zenon DEF Abort, Write
  <2>3. QED  BY <1>5, <2>1, <2>2 DEF Abort
<1>6. CASE Wall
  BY <1>6 DEF Wall
<1>7. CASE Helper \/ HelperDies
  <2>1. out' \in Seq(Line)
    <3>1. UNCHANGED out \/ \E x \in Line : out' = Append(out, x)
      BY <1>7, Zenon DEF Helper, Open, CompareKey, Ready, ReadControl, Recheck,
         Signal, Requested, AwaitExit, Leave, HelperDies, Finish, Say
    <3>2. QED  BY <3>1, AppendProperties
  <2>2. hpc' \in HelperStep /\ fd' \in Who /\ signalled' \in Who
    BY <1>7 DEF Helper, Open, CompareKey, Ready, ReadControl, Recheck,
       Signal, Requested, AwaitExit, Leave, HelperDies, Finish, At
  <2>3. clean' \in BOOLEAN /\ UNCHANGED <<world, aborted, node, control>>
    BY <1>7, Zenon DEF Helper, Open, CompareKey, Ready, ReadControl, Recheck,
       Signal, Requested, AwaitExit, Leave, HelperDies, At
  <2>4. QED  BY <2>1, <2>2, <2>3
<1>8. CASE UNCHANGED ccvars  BY <1>8 DEF ccvars
<1>9. QED  BY <1>1, <1>2, <1>3, <1>4, <1>5, <1>6, <1>7, <1>8 DEF CcNext, Node

(* The number is not given back to the target, and a pinned process does not
   change. *)
LEMMA CcPinnedStep ==
  ASSUME CcTypeOK, Pinned, Exchange, Script, [CcNext]_ccvars
  PROVE  Pinned'
<1> USE DEF CcTypeOK, Pinned, Exchange, Who, Frame, HelperStep, world,
   node, helper
<1>1. CASE World  BY <1>1 DEF World, Exit, Reuse, Drift
<1>2. CASE Begin  BY <1>2 DEF Begin, Answer, Script
<1>3. CASE ReadLine  BY <1>3 DEF ReadLine, Write
<1>4. CASE Close  BY <1>4 DEF Close, Answer
<1>5. CASE Abort  BY <1>5 DEF Abort, Write
<1>6. CASE Wall  BY <1>6 DEF Wall
<1>7. CASE Helper
  BY <1>7 DEF Helper, Open, CompareKey, Ready, ReadControl, Recheck, Signal,
     Requested, AwaitExit, Leave, Finish, At, FdAlive
<1>8. CASE HelperDies  BY <1>8 DEF HelperDies, Running
<1>9. CASE UNCHANGED ccvars  BY <1>9 DEF ccvars
<1>10. QED  BY <1>1, <1>2, <1>3, <1>4, <1>5, <1>6, <1>7, <1>8, <1>9 DEF CcNext, Node

LEMMA CcExchangeStep ==
  ASSUME CcTypeOK, Pinned, Exchange, Script, [CcNext]_ccvars
  PROVE  Exchange'
<1> USE DEF CcTypeOK, Exchange, HelperStep, Result, world, node, helper
<1>1. CASE World  BY <1>1 DEF World
<1>2. CASE Begin  BY <1>2 DEF Begin, Answer
<1>3. CASE ReadLine  BY <1>3 DEF ReadLine, Write
<1>4. CASE Close  BY <1>4 DEF Close, Answer
<1>5. CASE Abort  BY <1>5 DEF Abort, Write
<1>6. CASE Wall  BY <1>6 DEF Wall
<1>7. CASE Helper
  BY <1>7 DEF Helper, Open, CompareKey, Ready, ReadControl, Recheck, Signal,
     Requested, AwaitExit, Leave, Finish, At
<1>8. CASE HelperDies  BY <1>8 DEF HelperDies, Running
<1>9. CASE UNCHANGED ccvars  BY <1>9 DEF ccvars
<1>10. QED  BY <1>1, <1>2, <1>3, <1>4, <1>5, <1>6, <1>7, <1>8, <1>9 DEF CcNext, Node

(* What the helper has said changes only when it says more. *)
LEMMA CcSaid ==
  ASSUME CcTypeOK
  PROVE  /\ said \in Seq(Line)
         /\ UNCHANGED <<lines, out>> => said' = said
         /\ ReadLine => said' = said
         /\ \A x \in Line : out' = Append(out,
           x) /\ lines' = lines => said' = Append(said, x)
<1> USE DEF CcTypeOK, said
<1>1. said \in Seq(Line)
  BY ConcatProperties
<1>2. ASSUME ReadLine PROVE said' = said
  BY <1>2, ReadFromSaid DEF ReadLine
<1>3. ASSUME NEW x \in Line, out' = Append(out, x), lines' = lines
      PROVE  said' = Append(said, x)
  BY <1>3, AppendToSaid
<1>4. QED  BY <1>1, <1>2, <1>3

LEMMA CcScriptKept ==
  ASSUME CcTypeOK, Pinned, Exchange, Script, said' = said,
         UNCHANGED <<hpc, clean, signalled, fd>>, holder # "target" => holder' # "target"
  PROVE  Script'
  BY DEF Script, LastWord

LEMMA CcSays ==
  ASSUME CcTypeOK, NEW x \in Line, out' = Append(out, x), lines' = lines
  PROVE  /\ Len(said') = Len(said) + 1
         /\ said' # <<>>
         /\ said = <<>> => said' = <<x>>
         /\ said # <<>> => said'[1] = said[1]
         /\ \A y \in Line : said = <<y>> => said' = <<y, x>>
         /\ \A y, z \in Line : said = <<y, z>> => said' = <<y, z, x>>
<1>1. said \in Seq(Line) /\ said' = Append(said, x)
  BY CcSaid
<1>2. /\ said' \in Seq(Line) /\ Len(said') = Len(said) + 1
      /\ \A i \in 1..Len(said) : said'[i] = said[i]
  BY <1>1, AppendProperties
<1>3. said # <<>> => said'[1] = said[1]
  BY <1>1, <1>2, EmptySeq
<1>4. said' # <<>>
  BY <1>1, <1>2
<1>5. said = <<>> => said' = <<x>>
  BY <1>1
<1>6. ASSUME NEW y \in Line, said = <<y>> PROVE said' = <<y, x>>
  <2>1. <<y, x>> \in Seq(Line) /\ Len(said') = Len(<<y, x>>)
    BY <1>2, <1>6
  <2>2. \A i \in 1..Len(said') : said'[i] = <<y, x>>[i]
    BY <1>1, <1>2, <1>6, AppendProperties
  <2>3. QED  BY <1>2, <2>1, <2>2, SeqEqual
<1>7. ASSUME NEW y \in Line, NEW z \in Line, said = <<y, z>> PROVE said' = <<y, z, x>>
  <2>1. <<y, z, x>> \in Seq(Line) /\ Len(said') = Len(<<y, z, x>>)
    BY <1>2, <1>7
  <2>2. \A i \in 1..Len(said') : said'[i] = <<y, z, x>>[i]
    BY <1>1, <1>2, <1>7, AppendProperties
  <2>3. QED  BY <1>2, <2>1, <2>2, SeqEqual
<1>8. QED  BY <1>2, <1>3, <1>4, <1>5, <1>6, <1>7

(* The last word of a helper that has not been signalled, or has. *)
LEMMA CcFinishes ==
  ASSUME CcTypeOK, Pinned, Exchange, Script, NEW x \in Ended, Finish(x),
         UNCHANGED <<lines, holder, fd, clean, signalled>>,
         hpc \notin {"none", "requested", "leave", "over"},
         hpc \in {"open", "key", "poll"} => x \in {"refused", "already-exited"},
         x = "exited" => holder # "target"
  PROVE  Script'
<1>1. x \in Line /\ out' = Append(out, x) /\ hpc' = "leave"
  BY DEF Finish, Say, Line
<1>2. LastWord'
  <2>1. CASE hpc \in {"open", "key", "poll"}
    <3>1. said = <<>> /\ signalled = "nobody"
      BY <2>1 DEF Script
    <3>2. said' = <<x>>
      BY <1>1, <3>1, CcSays
    <3>3. QED  BY <2>1, <3>1, <3>2 DEF LastWord
  <2>2. CASE hpc \in {"control", "recheck", "signal"}
    <3>1. said = <<"ready">> /\ signalled = "nobody"
      BY <2>2 DEF Script
    <3>2. said' = <<"ready", x>>
      BY <1>1, <3>1, CcSays DEF Line
    <3>3. QED  BY <3>1, <3>2 DEF LastWord
  <2>3. CASE hpc = "wait"
    <3>1. said = <<"ready", "signal-requested">> /\ signalled = "target"
      BY <2>3 DEF Script
    <3>2. said' = <<"ready", "signal-requested", x>>
      BY <1>1, <3>1, CcSays DEF Line
    <3>3. said'[3] = x
      BY <3>2
    <3>4. QED  BY <3>1, <3>2, <3>3 DEF LastWord
  <2>4. QED  BY <2>1, <2>2, <2>3 DEF CcTypeOK, HelperStep
<1>3. said' # <<>> /\ said'[1] = "ready" => fd' = "target"
  <2>1. CASE said = <<>>
    <3>1. said' = <<x>>
      BY <1>1, <2>1, CcSays
    <3>2. said'[1] # "ready"
      BY <3>1 DEF Ended
    <3>3. QED  BY <3>2
  <2>2. CASE said # <<>>
    BY <1>1, <2>2, CcSays DEF Script
  <2>3. QED  BY <2>1, <2>2
<1>4. QED  BY <1>1, <1>2, <1>3 DEF Script, Exchange

LEMMA CcShort ==
  ASSUME CcTypeOK, Exchange, Script, hpc # "over"
  PROVE  Len(said) <= 3
<1>1. ASSUME LastWord PROVE Len(said) <= 3
  <2>1. CASE \E x \in Ended : said = <<x>>
    BY <2>1
  <2>2. CASE \E x \in Ended : said = <<"ready", x>>
    BY <2>2
  <2>3. CASE \E x \in Ended : said = <<"ready", "signal-requested", x>>
    BY <2>3
  <2>4. QED  BY <1>1, <2>1, <2>2, <2>3 DEF LastWord, Ended
<1>2. CASE hpc = "leave"
  BY <1>1, <1>2 DEF Script
<1>3. CASE hpc # "leave"
  <2>1. said \in {<<>>, <<"ready">>, <<"ready", "signal-requested">>}
    BY <1>3 DEF Script, CcTypeOK, HelperStep
  <2>2. CASE said = <<>>  BY <2>2
  <2>3. CASE said = <<"ready">>  BY <2>3
  <2>4. CASE said = <<"ready", "signal-requested">>  BY <2>4
  <2>5. QED  BY <2>1, <2>2, <2>3, <2>4
<1>4. QED  BY <1>2, <1>3

LEMMA CcScriptStep ==
  ASSUME CcTypeOK, Pinned, Exchange, Script, [CcNext]_ccvars
  PROVE  Script'
<1> USE DEF Exchange, world, node, helper
<1>1. CASE World
  <2>1. holder # "target" => holder' # "target"
    BY <1>1 DEF World, Exit, Reuse, Drift
  <2>2. said' = said
    BY <1>1, CcSaid DEF World
  <2>3. QED  BY <1>1, <2>1, <2>2, CcScriptKept DEF World
<1>2. CASE Begin
  <2>1. said' = said
    BY <1>2, CcSaid DEF Begin
  <2>2. CASE hpc' = hpc
    BY <1>2, <2>1, <2>2, CcScriptKept DEF Begin
  <2>3. CASE hpc' = "open"
    BY <1>2, <2>1, <2>3 DEF Begin, Script, LastWord
  <2>4. QED  BY <1>2, <2>2, <2>3 DEF Begin
<1>3. CASE ReadLine
  BY <1>3, CcSaid, CcScriptKept DEF ReadLine
<1>4. CASE Close
  BY <1>4, CcSaid, CcScriptKept DEF Close
<1>5. CASE Abort
  BY <1>5, CcSaid, CcScriptKept DEF Abort
<1>6. CASE Wall
  BY <1>6, CcSaid, CcScriptKept DEF Wall
<1>7. CASE Open
  BY <1>7, CcSaid, CcFinishes DEF Open, At, Ended, Script, LastWord
<1>8. CASE CompareKey
  BY <1>8, CcSaid, CcFinishes DEF CompareKey, At, Ended, Script, LastWord
<1>9. CASE Ready
  <2>1. CASE Finish("already-exited") \/ Finish("refused")
    BY <1>9, <2>1, CcFinishes DEF Ready, At, Ended
  <2>2. CASE hpc' = "control" /\ Say("ready")
    BY <1>9, <2>2, CcSays DEF Ready, At, Say, Line, Script, LastWord, Pinned
  <2>3. QED  BY <1>9, <2>1, <2>2 DEF Ready
<1>10. CASE ReadControl
  BY <1>10, CcSaid, CcFinishes DEF ReadControl, At, Ended, Script, LastWord
<1>11. CASE Recheck
  BY <1>11, CcSaid, CcFinishes DEF Recheck, At, Ended, Script, LastWord
<1>12. CASE Signal
  <2>1. CASE Finish("already-exited") \/ Finish("refused")
    BY <1>12, <2>1, CcFinishes DEF Signal, At, Ended, Finish
  <2>2. CASE signalled' = fd /\ hpc' = "requested" /\ UNCHANGED out
    BY <1>12, <2>2, CcSaid DEF Signal, At, Script, LastWord, Pinned
  <2>3. QED  BY <1>12, <2>1, <2>2 DEF Signal
<1>13. CASE Requested
  BY <1>13, CcSays DEF Requested, At, Say, Line, Script, LastWord, Pinned
<1>14. CASE AwaitExit
  BY <1>14, CcFinishes DEF AwaitExit, At, Ended, FdAlive, Pinned
<1>15. CASE Leave
  <2>1. said' = said /\ said \in Seq(Line) /\ Len(said) <= 3
    BY <1>15, CcSaid, CcShort DEF Leave
  <2>2. LastWord'
    BY <1>15, <2>1 DEF Leave, Script, LastWord
  <2>3. QED  BY <1>15, <2>1, <2>2 DEF Leave, Script
<1>16. CASE HelperDies
  <2>1. CASE UNCHANGED out
    BY <1>16, <2>1, CcSaid, CcShort DEF HelperDies, Running, Script
  <2>2. CASE Say("partial")
    BY <1>16, <2>2, CcSaid, CcSays, CcShort DEF HelperDies, Running, Say, Line, Script
  <2>3. QED  BY <1>16, <2>1, <2>2 DEF HelperDies
<1>17. CASE UNCHANGED ccvars
  BY <1>17, CcSaid, CcScriptKept DEF ccvars
<1>18. QED  BY <1>1, <1>2, <1>3, <1>4, <1>5, <1>6, <1>7, <1>8, <1>9, <1>10, <1>11, <1>12,
               <1>13, <1>14, <1>15, <1>16, <1>17 DEF CcNext, Node, Helper

(* The answer is worked out from everything the helper said, and by then it
   has nothing more to do. *)
LEMMA CcAnswerStep ==
  ASSUME CcTypeOK, CcInv, [CcNext]_ccvars
  PROVE  ReceiptIsTrue'
<1> USE DEF CcInv, ReceiptIsTrue, UntouchedIfSaidSo, ExitedIsTrue, Exchange,
   Running, world, node, helper
<1>1. CASE World  BY <1>1 DEF World, Exit, Reuse, Drift
<1>2. CASE Begin  BY <1>2 DEF Begin, Answer, Script
<1>3. CASE ReadLine  BY <1>3 DEF ReadLine
<1>4. CASE Close
  <2> DEFINE ok == ~protocol /\ out = <<>> /\ clean
  <2>1. hpc = "over" /\ UNCHANGED <<signalled, hpc, holder>>
    BY <1>4 DEF Close
  <2>2. ASSUME ok PROVE LastWord /\ said = lines
    BY <2>2, ConcatEmptySeq DEF Script, said, CcTypeOK
  <2>3. CASE sent = "go"
    <3>1. result' = AfterGo(ok /\ ~stopped)
      BY <1>4, <2>3 DEF Close, Answer
    <3>2. result' \in {"refused", "not-signalled"} => ok /\ lines \in {<<"ready",
       x>> : x \in Ended}
      BY <3>1 DEF AfterGo, Ended
    <3>3. result' = "exited" => ok /\ lines = <<"ready", "signal-requested", "exited">>
      BY <3>1 DEF AfterGo
    <3>4. result' \in {"refused", "not-signalled"} => signalled = "nobody"
      BY <2>2, <3>2 DEF LastWord
    <3>5. result' = "exited" => signalled = "target" /\ holder # "target"
      BY <2>2, <3>3 DEF LastWord
    <3>6. QED  BY <2>1, <3>4, <3>5
  <2>4. CASE sent # "go"
    <3>1. signalled = "nobody"
      BY <2>4 DEF Pinned
    <3>2. result' \in {"refused", "not-signalled"}
      BY <1>4, <2>4 DEF Close, Answer, BeforeGo
    <3>3. QED  BY <2>1, <3>1, <3>2
  <2>5. QED  BY <2>3, <2>4
<1>5. CASE Abort  BY <1>5 DEF Abort
<1>6. CASE Wall  BY <1>6 DEF Wall
<1>7. CASE Helper
  BY <1>7 DEF Helper, Open, CompareKey, Ready, ReadControl, Recheck, Signal,
     Requested, AwaitExit, Leave, At
<1>8. CASE HelperDies  BY <1>8 DEF HelperDies
<1>9. CASE UNCHANGED ccvars  BY <1>9 DEF ccvars
<1>10. QED  BY <1>1, <1>2, <1>3, <1>4, <1>5, <1>6, <1>7, <1>8, <1>9 DEF CcNext, Node

(* The pidfd pins the process whose key was compared, and what the helper has
   said, read or not, tells what it has done: the adapter's inductive
   invariant. *)
THEOREM CcInvariant == CcSpec => [](CcTypeOK /\ CcInv)
<1>1. ASSUME CcInit PROVE CcTypeOK /\ CcInv
  <2> USE <1>1 DEF CcInit
  <2>1. said = <<>>
    BY DEF said
  <2>2. CcTypeOK
    <3>1. lines \in Seq(Line) /\ out \in Seq(Line)
      OBVIOUS
    <3>2. aborted \in BOOLEAN /\ protocol \in BOOLEAN /\ stopped \in BOOLEAN /\ killed \in BOOLEAN
          /\ clean \in BOOLEAN
      BY Zenon
    <3>3. QED  BY <3>1, <3>2 DEF CcTypeOK, Who, Frame, HelperStep, Result
  <2>3. QED
    BY <2>1, <2>2 DEF CcInv, Pinned, Exchange, Script, ReceiptIsTrue,
       UntouchedIfSaidSo, ExitedIsTrue
<1>2. ASSUME CcTypeOK, CcInv, [CcNext]_ccvars PROVE (CcTypeOK /\ CcInv)'
  BY <1>2, CcTypeStep, CcPinnedStep, CcExchangeStep, CcScriptStep, CcAnswerStep DEF CcInv
<1>3. QED  BY <1>1, <1>2, PTL DEF CcSpec

(* SIGTERM reaches the process whose start key was compared, or none. *)
THEOREM CcHitsNoStranger == CcSpec => []NoStrangerHit
<1>1. CcInv => NoStrangerHit
  BY DEF CcInv, Pinned, NoStrangerHit
<1>2. QED  BY <1>1, CcInvariant, PTL

(* The receipt tells the truth about the target. *)
THEOREM CcAnswersTruly == CcSpec => []ReceiptIsTrue
<1>1. CcInv => ReceiptIsTrue
  BY DEF CcInv
<1>2. QED  BY <1>1, CcInvariant, PTL

(* `go` is written only while the pinned process is the bound one. *)
THEOREM CcGoIsFresh == CcSpec => GoIsFresh
<1> DEFINE Fresh == sent # "go" /\ sent' = "go" =>
             /\ witness = "bound" /\ holder = "target" /\ fd = "target"
             /\ ~aborted /\ ~Terminal
<1>1. ASSUME CcTypeOK, CcInv, [CcNext]_ccvars PROVE Fresh
  <2> USE <1>1 DEF world, node, helper
  <2>1. CASE ReadLine
    <3> SUFFICES ASSUME sent # "go", sent' = "go"
                 PROVE  /\ witness = "bound" /\ holder = "target" /\ fd = "target"
                        /\ ~aborted /\ ~Terminal
      OBVIOUS
    <3>1. /\ lines = <<>> /\ out # <<>> /\ Head(out) = "ready"
          /\ Binding /\ ~aborted /\ ~Terminal
      BY <2>1 DEF ReadLine, Write
    <3>2. said = out
      BY <3>1, ConcatEmptySeq DEF said, CcTypeOK
    <3>3. out[1] = Head(out)
      BY <3>1 DEF CcTypeOK
    <3>4. fd = "target"
      BY <3>1, <3>2, <3>3 DEF CcInv, Script
    <3>5. QED  BY <3>1, <3>4 DEF Binding
  <2>2. CASE Abort
    BY <2>2 DEF Abort, Write
  <2>3. CASE UNCHANGED sent
    BY <2>3
  <2>4. QED
    BY <2>1, <2>2, <2>3
    DEF CcNext, World, Node, Begin, Close, Wall, Helper, Open,
       CompareKey, Ready, ReadControl, Recheck, Signal, Requested,
       AwaitExit, Leave, At, HelperDies, ccvars
<1>2. CcTypeOK /\ CcInv /\ [CcNext]_ccvars => [Fresh]_ccvars
  BY <1>1
<1>3. QED  BY <1>2, CcInvariant, PTL DEF CcSpec, GoIsFresh

(* requestCcRetire implements TrueReceipt, as Retire supposes of it: it answers
   once, and what it has said of the target stays true. *)
THEOREM CcGivesReceipts == CcSpec => CcGivesReceipt
<1>1. CcInit => CcReceipt!Init
  BY DEF CcInit, CcReceipt!Init
<1>2. ASSUME CcTypeOK, CcTypeOK', CcInv, CcInv', [CcNext]_ccvars
      PROVE  [CcReceipt!Next]_(CcReceipt!vars)
  <2> DEFINE acts == IF signalled = "nobody" THEN 0 ELSE 1
  <2> USE DEF CcReceipt!Next, CcReceipt!Give, CcReceipt!Act, CcReceipt!vars
  <2>1. \/ UNCHANGED <<result, signalled>>
        \/ result = "none" /\ UNCHANGED signalled
        \/ result = "none" /\ UNCHANGED result /\ signalled' = fd
    <3> USE <1>2 DEF CcInv, Exchange, world, node, helper, At
    <3>1. CASE World  BY <3>1 DEF World
    <3>2. CASE Node  BY <3>2 DEF Node, Begin, ReadLine, Close
    <3>3. CASE Abort \/ Wall  BY <3>3 DEF Abort, Wall
    <3>4. CASE Signal  BY <3>4 DEF Signal
    <3>5. CASE Helper /\ ~Signal
      BY <3>5 DEF Helper, Open, CompareKey, Ready, ReadControl, Recheck, Requested, AwaitExit, Leave
    <3>6. CASE HelperDies  BY <3>6 DEF HelperDies
    <3>7. CASE UNCHANGED ccvars  BY <3>7 DEF ccvars
    <3>8. QED  BY <3>1, <3>2, <3>3, <3>4, <3>5, <3>6, <3>7 DEF CcNext
  <2>2. /\ result' \in {"refused", "not-signalled"} => signalled' = "nobody"
        /\ result' = "exited" => signalled' = "target"
    BY <1>2 DEF CcInv, ReceiptIsTrue, UntouchedIfSaidSo, ExitedIsTrue
  <2>3. result' \in {"none", "exited", "refused", "not-signalled", "unknown"}
    BY <1>2 DEF CcTypeOK, Result
  <2>4. CASE UNCHANGED <<result, signalled>>
    BY <2>4
  <2>5. CASE result = "none" /\ UNCHANGED result /\ signalled' = fd
    <3>1. CASE (signalled' # "nobody") <=> (signalled # "nobody")
      BY <2>5, <3>1, Zenon
    <3>2. CASE signalled' # "nobody" /\ signalled = "nobody"
      BY <2>5, <3>2
    <3>3. CASE signalled' = "nobody" /\ signalled # "nobody"
      BY <1>2, <2>5, <3>3 DEF CcInv, Pinned
    <3>4. QED  BY <3>1, <3>2, <3>3
  <2>6. CASE result = "none" /\ result' # "none" /\ UNCHANGED signalled
    <3>1. CcReceipt!Give(result')
      BY <2>2, <2>3, <2>6
    <3>2. QED  BY <2>3, <2>6, <3>1
  <2>7. QED  BY <2>1, <2>4, <2>5, <2>6
<1>3. QED  BY <1>1, <1>2, CcInvariant, PTL DEF CcSpec, CcGivesReceipt, CcReceipt!Spec
=============================================================================
