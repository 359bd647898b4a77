-------------------------- MODULE RecordArmProofs --------------------------
(* What RecordArm promises, for any number of Claude processes, sessions,
   gardens and hook runs. *)
EXTENDS RecordArm, TLAPS

USE NoneAssumption, BoundAssumption

(* The invariant by process. *)
BegunBy(p) ==
  run[p].step # "idle" =>
    run[p].native # None /\ session[p] \in {run[p].native, None} /\ last[p] = "none"
AboutBy(p) ==
  /\ run[p].step \in Past \cup {"publish"} => run[p].target # None
  /\ run[p].step \in Past =>
       record[run[p].target] # None /\ record[run[p].target].native = run[p].native
  /\ run[p].step \in OfArms => run[p].event = "arm"
LocksBy(p) ==
  /\ run[p].step \in {"recertify", "attach"} \/ Arms(p) => lock[run[p].target] = p
  /\ Arms(p) \/ (run[p].step = "attach" /\ run[p].event = "prompt") =>
       run[p].incarnation = record[run[p].target].incarnation
SoleBy(p) ==
  /\ session[p] # None => key[p] > 0
  /\ run[p].step \in {"inspect", "retire"} => sender[p] # None /\ sender[p].garden = run[p].previous
  /\ Arms(p) /\ run[p].step \in {"serve", "signal", "mark", "emit"} /\ run[p].previous = None
       /\ session[p] # None
     => \A g \in Garden : Speaks(p, g) => g = run[p].target
ServedBy(p) ==
  \A g \in Garden :
    record[g] # None /\ Speaks(p, g) /\ session[p] # None =>
      /\ last[p] \in {"armed", "prompted"} => session[p] = record[g].native
      /\ last[p] = "armed" => watching[p] = g
Own(p) == BegunBy(p) /\ AboutBy(p) /\ LocksBy(p) /\ SoleBy(p) /\ ServedBy(p)

(* What a step of p leaves alone. *)
Others(p) ==
  \A q \in Process \ {p} :
    /\ run'[q] = run[q] /\ last'[q] = last[q] /\ session'[q] = session[q] /\ key'[q] = key[q]
    /\ watching'[q] = watching[q] /\ sender'[q] = sender[q]
Kept(p) ==
  \A g \in Garden : record[g] # None =>
    /\ record'[g] # None /\ record'[g].native = record[g].native
    /\ lock[g] # p => record'[g].incarnation = record[g].incarnation
Held(p) == \A g \in Garden : lock[g] \in Process \ {p} => lock'[g] = lock[g]
Marked(p) ==
  \A g \in Garden : marker'[g] = marker[g] \/ marker'[g] = None \/ marker'[g].owner = p
Paired(p) ==
  \A g \in Garden : marker'[g] # None =>
    \/ /\ marker'[g] = marker[g] /\ record'[g] = record[g] /\ (g \in broken => g \in broken')
       /\ run[p].target = g /\ Unpaired(p) => g \in broken' \/ (run'[p].target = g /\ Unpaired(p)')
    \/ record'[g] # None /\ marker'[g].incarnation = record'[g].incarnation
    \/ record'[g] # None /\ run'[p].target = g /\ Unpaired(p)'
Moves(p) == Others(p) /\ Kept(p) /\ Held(p) /\ Marked(p) /\ Paired(p)

(* A process whose hook does not run, or runs on, keeps what it had. *)
LEMMA OthersKeepTheirOwn ==
  ASSUME TypeOK, TypeOK', ArmInv, NEW p \in Process, Moves(p), NEW q \in Process, q # p
  PROVE  Own(q)'
<1>1. /\ run'[q] = run[q] /\ last'[q] = last[q] /\ session'[q] = session[q] /\ key'[q] = key[q]
      /\ watching'[q] = watching[q] /\ sender'[q] = sender[q]
  BY DEF Moves, Others
<1>2. run[q] \in Run
  BY DEF TypeOK
<1>3. BegunBy(q)'
  BY <1>1 DEF ArmInv, Begun, BegunBy
<1>4. AboutBy(q)'
  BY <1>1, <1>2 DEF ArmInv, About, AboutBy, Moves, Kept, Run, Past
<1>5. LocksBy(q)'
  <2>1. CASE run[q].step \in {"recertify", "attach"} \/ Arms(q)
    <3>1. run[q].step \in Past
      BY <2>1 DEF Arms, Past, OfArms
    <3>2. run[q].target \in Garden /\ record[run[q].target] # None /\ lock[run[q].target] = q
      BY <1>2, <2>1, <3>1 DEF ArmInv, About, Locks, Run
    <3>3. /\ lock'[run[q].target] = q
          /\ record'[run[q].target].incarnation = record[run[q].target].incarnation
      BY <3>2 DEF Moves, Held, Kept
    <3> QED BY <1>1, <2>1, <3>2, <3>3 DEF ArmInv, Locks, LocksBy, Arms
  <2>2. CASE ~(run[q].step \in {"recertify", "attach"} \/ Arms(q))
    BY <1>1, <2>2 DEF LocksBy, Arms
  <2> QED BY <2>1, <2>2
<1>6. \A g \in Garden : Speaks(q, g)' => Speaks(q, g) /\ marker[g] # None
  BY <1>1 DEF Moves, Marked, Speaks
<1>7. SoleBy(q)'
  BY <1>1, <1>6 DEF ArmInv, Sole, SoleBy, Arms
<1>8. ServedBy(q)'
  <2> SUFFICES ASSUME NEW g \in Garden, record'[g] # None, Speaks(q, g)', session'[q] # None
               PROVE  /\ last'[q] \in {"armed", "prompted"} => session'[q] = record'[g].native
                      /\ last'[q] = "armed" => watching'[q] = g
    BY DEF ServedBy
  <2>1. Speaks(q, g) /\ record[g] # None
    BY <1>6 DEF ArmInv, Pairs
  <2>2. Deliverable(g) /\ marker[g].owner = q
    BY <1>1, <2>1 DEF Deliverable, Speaks
  <2>3. record'[g].native = record[g].native
    BY <2>1 DEF Moves, Kept
  <2> QED BY <1>1, <2>2, <2>3 DEF ArmInv, DeliverableIsServed
<1> QED BY <1>3, <1>4, <1>5, <1>7, <1>8 DEF Own

LEMMA PairsKept ==
  ASSUME TypeOK, TypeOK', ArmInv, NEW p \in Process, Moves(p)
  PROVE  Pairs'
<1> SUFFICES ASSUME NEW g \in Garden, marker'[g] # None
             PROVE  /\ record'[g] # None
                    /\ g \in broken' \/ marker'[g].incarnation = record'[g].incarnation
                       \/ \E q \in Process : run'[q].target = g /\ Unpaired(q)'
  BY DEF Pairs
<1>1. CASE /\ marker'[g] = marker[g] /\ record'[g] = record[g] /\ (g \in broken => g \in broken')
           /\ run[p].target = g /\ Unpaired(p) => g \in broken' \/ (run'[p].target = g /\ Unpaired(p)')
  <2>1. /\ record[g] # None
        /\ g \in broken \/ marker[g].incarnation = record[g].incarnation
           \/ \E q \in Process : run[q].target = g /\ Unpaired(q)
    BY <1>1 DEF ArmInv, Pairs
  <2>2. ASSUME NEW q \in Process, run[q].target = g, Unpaired(q)
        PROVE  g \in broken' \/ \E r \in Process : run'[r].target = g /\ Unpaired(r)'
    <3>1. CASE q = p
      BY <1>1, <2>2, <3>1
    <3>2. CASE q # p
      BY <2>2, <3>2 DEF Moves, Others, Unpaired
    <3> QED BY <3>1, <3>2
  <2> QED BY <1>1, <2>1, <2>2
<1>2. CASE record'[g] # None /\ marker'[g].incarnation = record'[g].incarnation
  BY <1>2
<1>3. CASE record'[g] # None /\ run'[p].target = g /\ Unpaired(p)'
  BY <1>3
<1> QED BY <1>1, <1>2, <1>3 DEF Moves, Paired

LEMMA StepKeepsInvariant ==
  ASSUME TypeOK, TypeOK', ArmInv, NEW p \in Process, Moves(p), Own(p)', UNCHANGED addressed
  PROVE  ArmInv'
<1>1. \A q \in Process : Own(q)'
  BY OthersKeepTheirOwn
<1>2. Pairs'
  BY PairsKept
<1>3. Reached'
  BY DEF ArmInv, Reached, TypeOK, Moves, Kept
<1>4. Begun' /\ About' /\ Locks' /\ Sole'
  BY <1>1 DEF Own, Begun, BegunBy, About, AboutBy, Locks, LocksBy, Sole, SoleBy
<1>5. DeliverableIsServed'
  <2> SUFFICES ASSUME NEW g \in Garden, Deliverable(g)'
               PROVE  LET q == marker'[g].owner
                      IN  /\ last'[q] \in {"armed", "prompted"} => session'[q] = record'[g].native
                          /\ last'[q] = "armed" => watching'[q] = g
    BY DEF DeliverableIsServed
  <2>1. marker'[g] # None /\ marker'[g] \in Marker \cup {None}
    BY DEF Deliverable, TypeOK
  <2>2. PICK q \in Process : q = marker'[g].owner
    BY <2>1 DEF Marker
  <2>3. record'[g] # None /\ Speaks(q, g)' /\ session'[q] # None
    BY <2>2 DEF Deliverable, Speaks
  <2>4. ServedBy(q)'
    BY <1>1 DEF Own
  <2> QED BY <2>2, <2>3, <2>4 DEF ServedBy
<1> QED BY <1>2, <1>3, <1>4, <1>5 DEF ArmInv

-----------------------------------------------------------------------------
(* Steps of a hook: it runs on, or it ends. *)
OnlyRun(p) == \A q \in Process \ {p} : run'[q] = run[q] /\ last'[q] = last[q]
Same(p) ==
  /\ run'[p].event = run[p].event /\ run'[p].native = run[p].native
  /\ run'[p].incarnation = run[p].incarnation

LEMMA GotoGoes ==
  ASSUME TypeOK, NEW p \in Process, NEW s \in Step, Goto(p, s)
  PROVE  /\ run' \in [Process -> Run] /\ last' = last /\ OnlyRun(p) /\ Same(p)
         /\ run'[p].step = s /\ run'[p].target = run[p].target /\ run'[p].previous = run[p].previous
<1>1. run[p] \in Run /\ run' = [run EXCEPT ![p] = [run[p] EXCEPT !.step = s]] /\ last' = last
  BY DEF Goto, TypeOK
<1>2. [run[p] EXCEPT !.step = s] \in Run
  BY <1>1 DEF Run
<1> QED BY <1>1, <1>2 DEF OnlyRun, Same, Run, TypeOK

LEMMA GotoWithGoes ==
  ASSUME TypeOK, NEW p \in Process, NEW s \in Step, NEW g \in Garden, GotoWith(p, s, g)
  PROVE  /\ run' \in [Process -> Run] /\ last' = last /\ OnlyRun(p) /\ Same(p)
         /\ run'[p].step = s /\ run'[p].target = g /\ run'[p].previous = run[p].previous
<1>1. /\ run[p] \in Run /\ last' = last
      /\ run' = [run EXCEPT ![p] = [run[p] EXCEPT !.step = s, !.target = g]]
  BY DEF GotoWith, TypeOK
<1>2. [run[p] EXCEPT !.step = s, !.target = g] \in Run
  BY <1>1 DEF Run
<1> QED BY <1>1, <1>2 DEF OnlyRun, Same, Run, TypeOK

LEMMA KeepGoes ==
  ASSUME TypeOK, NEW p \in Process, Keep(p)
  PROVE  /\ run' \in [Process -> Run] /\ last' = last /\ OnlyRun(p) /\ Same(p)
         /\ run'[p].step = "serve" /\ run'[p].target = run[p].target /\ run'[p].previous = None
<1>1. /\ run[p] \in Run /\ last' = last
      /\ run' = [run EXCEPT ![p] = [run[p] EXCEPT !.step = "serve", !.previous = None]]
  BY DEF Keep, TypeOK
<1>2. [run[p] EXCEPT !.step = "serve", !.previous = None] \in Run
  BY <1>1 DEF Run, Step
<1> QED BY <1>1, <1>2 DEF OnlyRun, Same, Run, TypeOK

LEMMA ReleasingReleases ==
  ASSUME TypeOK, NEW p \in Process, NEW left \in {None, Dead}, Releasing(p, left)
  PROVE  lock' \in [Garden -> Process \cup {None, Dead}] /\ Held(p)
BY DEF TypeOK, Releasing, Held

LEMMA EndEnds ==
  ASSUME TypeOK, NEW p \in Process, NEW e \in {"none", "armed", "prompted"}, End(p, e)
  PROVE  /\ run' \in [Process -> Run] /\ last' \in [Process -> {"none", "armed", "prompted"}]
         /\ lock' \in [Garden -> Process \cup {None, Dead}]
         /\ OnlyRun(p) /\ Held(p) /\ run'[p] = Idle /\ run'[p].step = "idle" /\ last'[p] = e
<1>1. Idle \in Run /\ Idle.step = "idle"
  BY DEF Idle, Run, Step, Event, Incarnation
<1>2. Releasing(p, None) \/ Releasing(p, Dead)
  BY DEF End
<1>3. lock' \in [Garden -> Process \cup {None, Dead}] /\ Held(p)
  BY <1>2, ReleasingReleases
<1> QED BY <1>1, <1>3 DEF End, OnlyRun, TypeOK

(* Who is between its two writes when its hook ends must have said so. *)
LEMMA EndOwns ==
  ASSUME TypeOK, ArmInv, NEW p \in Process, run'[p].step = "idle", Others(p), Kept(p),
         session'[p] # None => key'[p] > 0, last'[p] = "none"
  PROVE  Own(p)'
<1>1. BegunBy(p)' /\ AboutBy(p)' /\ LocksBy(p)' /\ SoleBy(p)'
  BY DEF BegunBy, AboutBy, LocksBy, SoleBy, Arms, Past, OfArms
<1>2. ServedBy(p)'
  BY DEF ServedBy
<1> QED BY <1>1, <1>2 DEF Own

LEMMA OwnNow ==
  ASSUME TypeOK, ArmInv, NEW p \in Process
  PROVE  Own(p)
<1>1. BegunBy(p) /\ AboutBy(p) /\ LocksBy(p) /\ SoleBy(p)
  BY DEF ArmInv, Begun, BegunBy, About, AboutBy, Locks, LocksBy, Sole, SoleBy
<1>2. ServedBy(p)
  BY DEF ArmInv, DeliverableIsServed, ServedBy, Speaks, Deliverable
<1> QED BY <1>1, <1>2 DEF Own

-----------------------------------------------------------------------------
Good(p) == TypeOK' /\ Moves(p) /\ Own(p)' /\ UNCHANGED addressed

(* A run that ends without having changed the store. *)
LEMMA FailingIsGood ==
  ASSUME TypeOK, ArmInv, NEW p \in Process, End(p, "none"),
         UNCHANGED <<record, marker, sender, session, key, runs, addressed>>,
         watching' \in [Process -> Garden \cup {None}],
         \A q \in Process \ {p} : watching'[q] = watching[q],
         broken' = broken \/ (Breaks(p) /\ run[p].step \in Past),
         Unpaired(p) => Breaks(p)
  PROVE  Good(p)
<1>1. /\ run' \in [Process -> Run] /\ last' \in [Process -> {"none", "armed", "prompted"}]
      /\ lock' \in [Garden -> Process \cup {None, Dead}]
      /\ OnlyRun(p) /\ Held(p) /\ run'[p].step = "idle" /\ last'[p] = "none"
  BY EndEnds
<1>2. broken' \subseteq Garden
  <2>1. run[p].step \in Past => run[p].target \in Garden
    BY DEF ArmInv, About, TypeOK, Run
  <2> QED BY <2>1 DEF Breaks, TypeOK
<1>3. TypeOK'
  BY <1>1, <1>2 DEF TypeOK
<1>4. Others(p) /\ Kept(p) /\ Marked(p)
  BY <1>1 DEF Others, OnlyRun, Kept, Marked
<1>5. Paired(p)
  BY DEF Paired, Breaks
<1>6. session'[p] # None => key'[p] > 0
  BY DEF ArmInv, Sole
<1> QED BY <1>1, <1>3, <1>4, <1>5, <1>6, EndOwns DEF Good, Moves

(* A run that goes on without having changed the store, the lock aside. *)
LEMMA GoingIsGood ==
  ASSUME TypeOK, ArmInv, NEW p \in Process,
         run' \in [Process -> Run], last' = last, OnlyRun(p), run'[p].native = run[p].native,
         run[p].step # "idle",
         lock' \in [Garden -> Process \cup {None, Dead}], Held(p),
         UNCHANGED <<record, marker, sender, world, runs, broken, addressed>>,
         Unpaired(p) => run'[p].target = run[p].target /\ Unpaired(p)',
         AboutBy(p)', LocksBy(p)', SoleBy(p)'
  PROVE  Good(p)
<1>1. TypeOK'
  BY DEF TypeOK, world
<1>2. Moves(p)
  BY DEF Moves, Others, OnlyRun, Kept, Marked, Paired, world
<1>3. BegunBy(p)'
  BY DEF ArmInv, Begun, BegunBy, world
<1>4. ServedBy(p)'
  BY OwnNow DEF Own, ServedBy, Speaks, world
<1> QED BY <1>1, <1>2, <1>3, <1>4 DEF Good, Own

(* Before its record is locked a run need only know which one it is about. *)
LEMMA EarlyGoing ==
  ASSUME TypeOK, ArmInv, NEW p \in Process,
         run' \in [Process -> Run], last' = last, OnlyRun(p), Same(p),
         run[p].step \in {"lookup", "certify", "publish", "relookup"},
         run'[p].step \in {"certify", "publish", "relookup", "lock"},
         run'[p].step = "publish" => run'[p].target # None,
         run'[p].step = "lock" => run'[p].target \in Holders(run[p].native),
         UNCHANGED <<store, world, runs, broken, addressed>>
  PROVE  Good(p)
<1>1. AboutBy(p)'
  BY DEF AboutBy, Past, OfArms, Holders, Same, store
<1>2. LocksBy(p)' /\ SoleBy(p)'
  BY DEF LocksBy, SoleBy, Arms, OfArms, ArmInv, Sole, world
<1>3. lock' \in [Garden -> Process \cup {None, Dead}] /\ Held(p)
  BY DEF TypeOK, Held, store
<1>4. ~Unpaired(p)
  BY DEF Unpaired
<1> QED BY <1>1, <1>2, <1>3, <1>4, GoingIsGood DEF Same, store

LEMMA LookupIsGood == ASSUME TypeOK, ArmInv, NEW p \in Process, Lookup(p) PROVE Good(p)
<1>1. CASE End(p, "none")
  BY <1>1, FailingIsGood DEF Lookup, At, Unpaired, TypeOK
<1>2. CASE Goto(p, "certify") /\ UNCHANGED lock
  <2>1. "certify" \in Step
    BY DEF Step
  <2> QED BY <1>2, <2>1, GotoGoes, EarlyGoing DEF Lookup, At, store, world
<1>3. ASSUME NEW g \in Holders(run[p].native), GotoWith(p, "lock", g), UNCHANGED lock
      PROVE  Good(p)
  <2>1. "lock" \in Step /\ g \in Garden
    BY DEF Step, Holders
  <2> QED BY <1>3, <2>1, GotoWithGoes, EarlyGoing DEF Lookup, At, store, world
<1> QED BY <1>1, <1>2, <1>3 DEF Lookup

LEMMA CertifyIsGood == ASSUME TypeOK, ArmInv, NEW p \in Process, Certify(p) PROVE Good(p)
<1>1. CASE End(p, "none")
  BY <1>1, FailingIsGood DEF Certify, At, Unpaired, TypeOK
<1>2. CASE Goto(p, "relookup") /\ UNCHANGED lock
  <2>1. "relookup" \in Step
    BY DEF Step
  <2> QED BY <1>2, <2>1, GotoGoes, EarlyGoing DEF Certify, At, store, world
<1>3. ASSUME NEW g \in Garden, GotoWith(p, "publish", g), UNCHANGED lock
      PROVE  Good(p)
  <2>1. "publish" \in Step
    BY DEF Step
  <2> QED BY <1>3, <2>1, GotoWithGoes, EarlyGoing DEF Certify, At, store, world
<1> QED BY <1>1, <1>2, <1>3 DEF Certify

LEMMA RelookupIsGood == ASSUME TypeOK, ArmInv, NEW p \in Process, Relookup(p) PROVE Good(p)
<1>1. CASE End(p, "none")
  BY <1>1, FailingIsGood DEF Relookup, At, Unpaired, TypeOK
<1>2. ASSUME NEW g \in Holders(run[p].native), GotoWith(p, "lock", g), UNCHANGED lock
      PROVE  Good(p)
  <2>1. "lock" \in Step /\ g \in Garden
    BY DEF Step, Holders
  <2> QED BY <1>2, <2>1, GotoWithGoes, EarlyGoing DEF Relookup, At, store, world
<1> QED BY <1>1, <1>2 DEF Relookup

(* A birth publishes where there was no record, hence no marker either. *)
LEMMA PublishIsGood == ASSUME TypeOK, ArmInv, NEW p \in Process, Publish(p) PROVE Good(p)
<1> DEFINE g == run[p].target
           new == [native |-> run[p].native, incarnation |-> 0]
<1>1. /\ g \in Garden /\ run[p].native \in Native /\ run[p].step = "publish"
      /\ UNCHANGED <<session, key, runs, addressed, marker, sender, watching, broken>>
  BY DEF Publish, At, ArmInv, About, Begun, TypeOK, Run
<1>2. CASE UNCHANGED record /\ End(p, "none")
  BY <1>1, <1>2, FailingIsGood DEF Unpaired, TypeOK
<1>3. CASE record[g] = None /\ record' = [record EXCEPT ![g] = new]
  <2>1. new \in Record /\ new # None
    BY <1>1 DEF Record, Incarnation
  <2>2. /\ record' \in [Garden -> Record \cup {None}] /\ record'[g] = new
        /\ \A h \in Garden : h # g => record'[h] = record[h]
    BY <1>1, <1>3, <2>1 DEF TypeOK
  <2>3. marker[g] = None /\ Kept(p) /\ ~Unpaired(p)
    BY <1>1, <1>3, <2>2 DEF ArmInv, Pairs, Kept, Unpaired
  <2>4. Marked(p) /\ Paired(p)
    BY <1>1, <2>2, <2>3 DEF Marked, Paired
  <2>5. CASE End(p, "none")
    <3>1. /\ run' \in [Process -> Run] /\ last' \in [Process -> {"none", "armed", "prompted"}]
          /\ lock' \in [Garden -> Process \cup {None, Dead}]
          /\ OnlyRun(p) /\ Held(p) /\ run'[p].step = "idle" /\ last'[p] = "none"
      BY <2>5, EndEnds
    <3>2. TypeOK'
      BY <1>1, <2>2, <3>1 DEF TypeOK
    <3>3. Others(p)
      BY <1>1, <3>1 DEF Others, OnlyRun
    <3> QED BY <1>1, <2>3, <2>4, <3>1, <3>2, <3>3, EndOwns DEF Good, Moves, ArmInv, Sole
  <2>6. CASE Goto(p, IF run[p].event = "arm" THEN "lock" ELSE "serve") /\ UNCHANGED lock
    <3> DEFINE s == IF run[p].event = "arm" THEN "lock" ELSE "serve"
    <3>1. s \in Step
      BY DEF Step
    <3>2. /\ run' \in [Process -> Run] /\ last' = last /\ OnlyRun(p) /\ Same(p)
          /\ run'[p].step = s /\ run'[p].target = g
      BY <2>6, <3>1, GotoGoes
    <3>3. TypeOK'
      BY <1>1, <2>2, <2>6, <3>2 DEF TypeOK
    <3>4. Others(p) /\ Held(p)
      BY <1>1, <2>6, <3>2 DEF Others, OnlyRun, Held
    <3>5. run[p].event \in Event
      BY DEF TypeOK, Run
    <3>6. BegunBy(p)'
      BY <1>1, <3>2 DEF ArmInv, Begun, BegunBy, Same
    <3>7. AboutBy(p)'
      BY <1>1, <2>1, <2>2, <3>2 DEF AboutBy, Same, Past, OfArms
    <3>8. LocksBy(p)' /\ SoleBy(p)'
      BY <1>1, <3>2, <3>5 DEF LocksBy, SoleBy, Arms, OfArms, Same, ArmInv, Sole, Event
    <3>9. ServedBy(p)'
      BY <1>1, <2>2, <2>3, <3>2, OwnNow DEF Own, ServedBy, Speaks
    <3> QED BY <1>1, <2>3, <2>4, <3>3, <3>4, <3>6, <3>7, <3>8, <3>9 DEF Good, Moves, Own
  <2> QED BY <1>3, <2>5, <2>6 DEF Publish
<1> QED BY <1>2, <1>3 DEF Publish

LEMMA TakeArmLockIsGood == ASSUME TypeOK, ArmInv, NEW p \in Process, TakeArmLock(p) PROVE Good(p)
<1> DEFINE g == run[p].target
<1>1. /\ g \in Garden /\ run[p].step = "lock"
      /\ UNCHANGED <<session, key, runs, addressed, record, marker, sender, watching, broken>>
  BY DEF TakeArmLock, At, ArmInv, About, TypeOK, Run, Past
<1>2. CASE End(p, "none")
  BY <1>1, <1>2, FailingIsGood DEF Unpaired, TypeOK
<1>3. CASE lock[g] \in {None, Dead} /\ Goto(p, "recertify") /\ lock' = [lock EXCEPT ![g] = p]
  <2>1. "recertify" \in Step
    BY DEF Step
  <2>2. /\ run' \in [Process -> Run] /\ last' = last /\ OnlyRun(p) /\ Same(p)
        /\ run'[p].step = "recertify" /\ run'[p].target = g
    BY <1>3, <2>1, GotoGoes
  <2>3. lock' \in [Garden -> Process \cup {None, Dead}] /\ Held(p) /\ lock'[g] = p
    BY <1>1, <1>3 DEF TypeOK, Held
  <2>4. AboutBy(p)'
    BY <1>1, <2>2 DEF ArmInv, About, AboutBy, Same, Past, OfArms
  <2>5. LocksBy(p)' /\ SoleBy(p)'
    BY <1>1, <2>2, <2>3 DEF LocksBy, SoleBy, Arms, OfArms, ArmInv, Sole
  <2>6. ~Unpaired(p)
    BY <1>1 DEF Unpaired
  <2> QED BY <1>1, <2>2, <2>3, <2>4, <2>5, <2>6, GoingIsGood DEF Same, world
<1> QED BY <1>2, <1>3 DEF TakeArmLock

(* A certified store has one record of the session, the one that is locked. *)
LEMMA RecertifyIsGood == ASSUME TypeOK, ArmInv, NEW p \in Process, Recertify(p) PROVE Good(p)
<1>1. /\ run[p].step = "recertify"
      /\ UNCHANGED <<session, key, runs, addressed, record, marker, sender, watching, broken>>
  BY DEF Recertify, At
<1>2. CASE End(p, "none")
  BY <1>1, <1>2, FailingIsGood DEF Unpaired, TypeOK
<1>3. ASSUME Certified, UNCHANGED <<lock, last>>, NEW g \in Holders(run[p].native),
             run' = [run EXCEPT ![p].step = "attach", ![p].target = g,
                       ![p].incarnation = IF run[p].event = "arm" THEN @
                                          ELSE record[g].incarnation]
      PROVE  Good(p)
  <2>1. /\ run[p] \in Run /\ run[p].target \in Garden /\ lock[run[p].target] = p
        /\ record[run[p].target] # None /\ record[run[p].target].native = run[p].native
    BY <1>1 DEF ArmInv, About, Locks, Past, TypeOK, Run
  <2>2. g \in Garden /\ record[g] # None /\ record[g].native = run[p].native
    BY DEF Holders
  <2>3. g = run[p].target
    BY <1>3, <2>1, <2>2 DEF Certified
  <2>4. record[g].incarnation \in Incarnation
    BY <2>2 DEF TypeOK, Record
  <2> DEFINE r == [run[p] EXCEPT !.step = "attach", !.target = g,
                     !.incarnation = IF run[p].event = "arm" THEN @ ELSE record[g].incarnation]
  <2>5. r \in Run
    BY <2>1, <2>2, <2>4 DEF Run, Step
  <2>6. run' = [run EXCEPT ![p] = r]
    BY <1>3, <2>1, <2>4 DEF TypeOK, Run
  <2>7. /\ run' \in [Process -> Run] /\ OnlyRun(p) /\ last' = last
        /\ run'[p].step = "attach" /\ run'[p].target = g /\ run'[p].native = run[p].native
        /\ run'[p].event = run[p].event
        /\ run[p].event = "prompt" => run'[p].incarnation = record[g].incarnation
    BY <1>3, <2>1, <2>5, <2>6 DEF TypeOK, OnlyRun, Run
  <2>8. lock' \in [Garden -> Process \cup {None, Dead}] /\ Held(p) /\ lock'[g] = p
    BY <1>3, <2>1, <2>3 DEF TypeOK, Held
  <2>9. AboutBy(p)' /\ LocksBy(p)'
    BY <1>1, <2>2, <2>7, <2>8 DEF AboutBy, LocksBy, Arms, OfArms, Past
  <2>10. SoleBy(p)' /\ ~Unpaired(p)
    BY <1>1, <2>7 DEF SoleBy, Arms, OfArms, ArmInv, Sole, Unpaired
  <2> QED BY <1>1, <2>7, <2>8, <2>9, <2>10, GoingIsGood DEF world
<1> QED BY <1>2, <1>3 DEF Recertify

(* What a run past its lookup knows of its record. *)
LEMMA Knows ==
  ASSUME TypeOK, ArmInv, NEW p \in Process, run[p].step \in Past
  PROVE  /\ run[p] \in Run /\ run[p].target \in Garden /\ run[p].native \in Native
         /\ record[run[p].target] \in Record /\ record[run[p].target] # None
         /\ record[run[p].target].native = run[p].native
         /\ run[p].step \in OfArms => run[p].event = "arm"
BY DEF TypeOK, Run, Past, ArmInv, About, Begun

LEMMA AttachIsGood == ASSUME TypeOK, ArmInv, NEW p \in Process, Attach(p) PROVE Good(p)
<1> DEFINE g == run[p].target
           new == [native |-> run[p].native, incarnation |-> run[p].incarnation]
<1>1. /\ run[p].step = "attach"
      /\ UNCHANGED <<session, key, runs, addressed, marker, sender, watching, broken>>
  BY DEF Attach, At
<1>2. /\ run[p] \in Run /\ g \in Garden /\ run[p].native \in Native
      /\ record[g] \in Record /\ record[g] # None /\ record[g].native = run[p].native
  BY <1>1, Knows DEF Past
<1>3. CASE End(p, "none") /\ UNCHANGED record
  BY <1>1, <1>3, FailingIsGood DEF Unpaired, TypeOK
<1>4. CASE /\ record' = [record EXCEPT ![g] = new] /\ UNCHANGED lock
           /\ Goto(p, IF run[p].event = "arm" THEN "previous" ELSE "serve")
  <2> DEFINE s == IF run[p].event = "arm" THEN "previous" ELSE "serve"
  <2>1. new \in Record /\ new # None /\ s \in Step /\ run[p].event \in {"arm", "prompt"}
    BY <1>2 DEF Record, Run, Step, Event
  <2>2. /\ record' \in [Garden -> Record \cup {None}] /\ record'[g] = new
        /\ \A h \in Garden : h # g => record'[h] = record[h]
    BY <1>2, <1>4, <2>1 DEF TypeOK
  <2>3. /\ run' \in [Process -> Run] /\ last' = last /\ OnlyRun(p) /\ Same(p)
        /\ run'[p].step = s /\ run'[p].target = g
    BY <1>4, <2>1, GotoGoes
  <2>4. TypeOK'
    BY <1>1, <1>4, <2>2, <2>3 DEF TypeOK
  <2>5. lock[g] = p
    BY <1>1 DEF ArmInv, Locks
  <2>6. run[p].event = "prompt" => record'[g] = record[g]
    <3> SUFFICES ASSUME run[p].event = "prompt" PROVE new = record[g]
      BY <2>2
    <3>1. run[p].incarnation = record[g].incarnation
      BY <1>1 DEF ArmInv, Locks
    <3> QED BY <1>2, <3>1 DEF Record
  <2>7. Others(p) /\ Kept(p) /\ Held(p) /\ Marked(p)
    <3>1. Others(p) /\ Held(p) /\ Marked(p)
      BY <1>1, <1>4, <2>3 DEF Others, OnlyRun, Held, Marked
    <3>2. ASSUME NEW h \in Garden, record[h] # None
          PROVE  /\ record'[h] # None /\ record'[h].native = record[h].native
                 /\ lock[h] # p => record'[h].incarnation = record[h].incarnation
      BY <1>2, <2>1, <2>2, <2>5, <3>2
    <3> QED BY <3>1, <3>2 DEF Kept
  <2>8. ~Unpaired(p) /\ (run[p].event = "arm" => Unpaired(p)')
    BY <1>1, <2>3 DEF Unpaired, Same
  <2>9. Paired(p)
    BY <1>1, <2>1, <2>2, <2>3, <2>6, <2>8 DEF Paired
  <2>10. BegunBy(p)' /\ AboutBy(p)'
    BY <1>1, <1>2, <2>1, <2>2, <2>3 DEF ArmInv, Begun, BegunBy, AboutBy, Same, Past, OfArms
  <2>11. LocksBy(p)'
    BY <1>4, <2>1, <2>2, <2>3, <2>5 DEF LocksBy, Same, Arms, OfArms
  <2>12. SoleBy(p)'
    BY <1>1, <2>1, <2>3 DEF SoleBy, Arms, Same, OfArms, ArmInv, Sole
  <2>13. ServedBy(p)'
    <3>1. \A h \in Garden : record'[h] # None => record[h] # None /\ record'[h].native = record[h].native
      BY <1>2, <2>2
    <3>2. ServedBy(p) /\ \A h \in Garden : Speaks(p, h)' => Speaks(p, h)
      BY <1>1, OwnNow DEF Own, Speaks
    <3> QED BY <1>1, <2>3, <3>1, <3>2 DEF ServedBy
  <2> QED BY <1>1, <2>4, <2>7, <2>9, <2>10, <2>11, <2>12, <2>13 DEF Good, Moves, Own
<1> QED BY <1>3, <1>4 DEF Attach

(* An arm that goes on under its lock, without having changed the store. *)
LEMMA ArmGoing ==
  ASSUME TypeOK, ArmInv, NEW p \in Process,
         run' \in [Process -> Run], last' = last, OnlyRun(p), Same(p),
         run'[p].target = run[p].target,
         run[p].step \in OfArms \cup {"serve"}, run[p].event = "arm",
         run'[p].step \in OfArms \cup {"serve"}, run'[p].step # "emit",
         UNCHANGED <<store, world, runs, broken, addressed>>,
         SoleBy(p)'
  PROVE  Good(p)
<1>1. run[p].step \in Past /\ run'[p].step \in Past /\ run'[p].step # "publish"
  BY DEF Past, OfArms
<1>2. AboutBy(p)'
  BY <1>1, Knows DEF AboutBy, Same, store
<1>3. LocksBy(p)'
  BY DEF ArmInv, Locks, LocksBy, Arms, Same, store, OfArms
<1>4. Unpaired(p)'
  BY DEF Unpaired, Same, OfArms
<1>5. lock' \in [Garden -> Process \cup {None, Dead}] /\ Held(p)
  BY DEF TypeOK, Held, store
<1>6. run[p].step # "idle"
  BY DEF OfArms
<1> QED BY <1>2, <1>3, <1>4, <1>5, <1>6, GoingIsGood DEF Same, store

LEMMA PreviousIsGood == ASSUME TypeOK, ArmInv, NEW p \in Process, Previous(p) PROVE Good(p)
<1> DEFINE before == IF sender[p] = None \/ sender[p].key = 0 THEN None ELSE sender[p].garden
<1>1. /\ run[p].step = "previous" /\ last' = last
      /\ UNCHANGED <<session, key, runs, addressed, store, watching, broken>>
  BY DEF Previous, At
<1>2. /\ run[p] \in Run /\ run[p].target \in Garden /\ run[p].event = "arm"
      /\ run[p].step \in OfArms /\ before \in Garden \cup {None}
  BY <1>1, Knows DEF Past, OfArms, TypeOK, Sender
<1>3. CASE before \in {None, run[p].target} /\ run' = [run EXCEPT ![p].step = "serve"]
  <2>1. Goto(p, "serve") /\ "serve" \in Step
    BY <1>1, <1>3 DEF Goto, Step
  <2>2. /\ run' \in [Process -> Run] /\ last' = last /\ OnlyRun(p) /\ Same(p)
        /\ run'[p].step = "serve" /\ run'[p].target = run[p].target
    BY <2>1, GotoGoes
  <2>3. ASSUME session[p] # None, NEW g \in Garden, Speaks(p, g) PROVE g = run[p].target
    BY <1>2, <1>3, <2>3 DEF Speaks, ArmInv, Sole, TypeOK
  <2>4. SoleBy(p)'
    BY <1>1, <2>2, <2>3 DEF SoleBy, ArmInv, Sole, Speaks, store
  <2> QED BY <1>1, <1>2, <2>2, <2>4, ArmGoing DEF world
<1>4. CASE /\ before \notin {None, run[p].target}
           /\ run' = [run EXCEPT ![p].step = "inspect", ![p].previous = before]
  <2> DEFINE r == [run[p] EXCEPT !.step = "inspect", !.previous = before]
  <2>1. r \in Run /\ run' = [run EXCEPT ![p] = r]
    BY <1>2, <1>4 DEF Run, Step, TypeOK
  <2>2. /\ run' \in [Process -> Run] /\ OnlyRun(p) /\ Same(p)
        /\ run'[p].step = "inspect" /\ run'[p].target = run[p].target /\ run'[p].previous = before
    BY <1>1, <1>2, <2>1 DEF OnlyRun, Same, TypeOK, Run
  <2>3. SoleBy(p)'
    BY <1>1, <1>4, <2>2 DEF SoleBy, ArmInv, Sole, store
  <2>4. run'[p].step \in OfArms \cup {"serve"} /\ run'[p].step # "emit"
    BY <2>2 DEF OfArms
  <2> QED BY <1>1, <1>2, <2>2, <2>3, <2>4, ArmGoing DEF world
<1>5. CASE run' = [run EXCEPT ![p].step = "unowned"]
  <2>1. Goto(p, "unowned") /\ "unowned" \in Step
    BY <1>1, <1>5 DEF Goto, Step
  <2>2. /\ run' \in [Process -> Run] /\ last' = last /\ OnlyRun(p) /\ Same(p)
        /\ run'[p].step = "unowned" /\ run'[p].target = run[p].target
    BY <2>1, GotoGoes
  <2>3. SoleBy(p)' /\ run'[p].step \in OfArms \cup {"serve"} /\ run'[p].step # "emit"
    BY <1>1, <2>2 DEF SoleBy, ArmInv, Sole, OfArms
  <2> QED BY <1>1, <1>2, <2>2, <2>3, ArmGoing DEF world
<1> QED BY <1>3, <1>4, <1>5 DEF Previous

LEMMA InspectIsGood == ASSUME TypeOK, ArmInv, NEW p \in Process, Inspect(p) PROVE Good(p)
<1> DEFINE m == marker[run[p].previous]
           mine == m # None /\ m.owner = p /\ m.key # 0
<1>1. /\ run[p].step = "inspect"
      /\ UNCHANGED <<session, key, runs, addressed, store, watching, broken>>
  BY DEF Inspect, At
<1>2. /\ run[p] \in Run /\ run[p].target \in Garden /\ run[p].event = "arm"
      /\ run[p].step \in OfArms /\ sender[p] # None /\ sender[p].garden = run[p].previous
  BY <1>1, Knows DEF Past, OfArms, ArmInv, Sole
<1>3. CASE mine /\ Goto(p, "retire")
  <2>1. "retire" \in Step
    BY DEF Step
  <2>2. /\ run' \in [Process -> Run] /\ last' = last /\ OnlyRun(p) /\ Same(p)
        /\ run'[p].step = "retire" /\ run'[p].target = run[p].target
        /\ run'[p].previous = run[p].previous
    BY <1>3, <2>1, GotoGoes
  <2>3. SoleBy(p)' /\ run'[p].step \in OfArms \cup {"serve"} /\ run'[p].step # "emit"
    BY <1>1, <1>2, <2>2 DEF SoleBy, ArmInv, Sole, OfArms, store
  <2> QED BY <1>1, <1>2, <2>2, <2>3, ArmGoing DEF world
<1>4. CASE ~mine /\ Keep(p)
  <2>1. /\ run' \in [Process -> Run] /\ last' = last /\ OnlyRun(p) /\ Same(p)
        /\ run'[p].step = "serve" /\ run'[p].target = run[p].target
    BY <1>4, KeepGoes
  <2>2. ASSUME session[p] # None, NEW g \in Garden, Speaks(p, g) PROVE FALSE
    BY <1>2, <1>4, <2>2 DEF Speaks, ArmInv, Sole, TypeOK
  <2>3. SoleBy(p)'
    BY <1>1, <2>1, <2>2 DEF SoleBy, ArmInv, Sole, Speaks, store
  <2> QED BY <1>1, <1>2, <2>1, <2>3, ArmGoing DEF world
<1> QED BY <1>3, <1>4 DEF Inspect

LEMMA RetireIsGood == ASSUME TypeOK, ArmInv, NEW p \in Process, Retire(p) PROVE Good(p)
<1> DEFINE b == run[p].previous
<1>1. /\ run[p].step = "retire"
      /\ UNCHANGED <<session, key, runs, addressed, record, sender, lock, watching, broken>>
  BY DEF Retire, At
<1>2. /\ run[p] \in Run /\ run[p].target \in Garden /\ run[p].event = "arm" /\ run[p].step \in Past
      /\ run[p].step \in OfArms /\ sender[p] # None /\ sender[p].garden = b /\ b \in Garden
  BY <1>1, Knows DEF Past, OfArms, ArmInv, Sole, TypeOK, Sender
<1>3. CASE UNCHANGED marker /\ Goto(p, "serve")
  <2>1. "serve" \in Step
    BY DEF Step
  <2>2. /\ run' \in [Process -> Run] /\ last' = last /\ OnlyRun(p) /\ Same(p)
        /\ run'[p].step = "serve" /\ run'[p].target = run[p].target /\ run'[p].previous = b
    BY <1>3, <2>1, GotoGoes
  <2>3. SoleBy(p)'
    BY <1>1, <1>2, <2>2 DEF SoleBy, ArmInv, Sole
  <2> QED BY <1>1, <1>2, <1>3, <2>2, <2>3, ArmGoing DEF store, world
<1>4. CASE Keep(p) /\ marker' = [marker EXCEPT ![b] = None]
  <2>1. /\ run' \in [Process -> Run] /\ last' = last /\ OnlyRun(p) /\ Same(p)
        /\ run'[p].step = "serve" /\ run'[p].target = run[p].target
    BY <1>4, KeepGoes
  <2>2. /\ marker' \in [Garden -> Marker \cup {None}] /\ marker'[b] = None
        /\ \A g \in Garden : g # b => marker'[g] = marker[g]
    BY <1>2, <1>4 DEF TypeOK
  <2>3. TypeOK'
    BY <1>1, <2>1, <2>2 DEF TypeOK
  <2>4. Unpaired(p)'
    BY <1>2, <2>1 DEF Unpaired, Same
  <2>5. Others(p) /\ Kept(p) /\ Held(p) /\ Marked(p)
    BY <1>1, <2>1, <2>2 DEF Others, OnlyRun, Kept, Held, Marked
  <2>6. Paired(p)
    BY <1>1, <2>1, <2>2, <2>4 DEF Paired
  <2>7. BegunBy(p)' /\ AboutBy(p)'
    BY <1>1, <1>2, <2>1 DEF ArmInv, Begun, About, BegunBy, AboutBy, Same, Past, OfArms
  <2>8. LocksBy(p)'
    BY <1>1, <1>2, <2>1 DEF ArmInv, Locks, LocksBy, Same, Arms, OfArms
  <2>9. \A g \in Garden : Speaks(p, g)' => Speaks(p, g) /\ g # b
    BY <1>1, <2>2 DEF Speaks
  <2>10. SoleBy(p)'
    <3>1. \A g \in Garden : ~Speaks(p, g)'
      BY <1>2, <2>9 DEF Speaks
    <3> QED BY <1>1, <2>1, <3>1 DEF SoleBy, ArmInv, Sole
  <2>11. ServedBy(p)'
    <3>1. ServedBy(p)
      BY OwnNow DEF Own
    <3> QED BY <1>1, <2>1, <2>9, <3>1 DEF ServedBy
  <2> QED BY <1>1, <2>3, <2>5, <2>6, <2>7, <2>8, <2>10, <2>11 DEF Good, Moves, Own
<1> QED BY <1>3, <1>4 DEF Retire

LEMMA KeyNowIsAKey == ASSUME TypeOK, NEW p \in Process PROVE KeyNow(p) \in 0..MaxKey
BY DEF TypeOK, KeyNow

(* From here on the process speaks for no garden but its run's. *)
LEMMA ServeIsGood == ASSUME TypeOK, ArmInv, NEW p \in Process, Serve(p) PROVE Good(p)
<1> DEFINE g == run[p].target
           new == [garden |-> g, key |-> KeyNow(p)]
<1>1. /\ run[p].step = "serve"
      /\ UNCHANGED <<session, key, runs, addressed, record, marker, watching, broken>>
  BY DEF Serve, At
<1>2. /\ run[p] \in Run /\ g \in Garden /\ run[p].step \in Past /\ record[g] # None
      /\ record[g].native = run[p].native /\ run[p].event \in {"arm", "prompt"}
  BY <1>1, Knows DEF Past, Run, Event
<1>3. CASE UNCHANGED sender /\ run[p].event = "arm" /\ Goto(p, "signal") /\ UNCHANGED lock
  <2>1. "signal" \in Step
    BY DEF Step
  <2>2. /\ run' \in [Process -> Run] /\ last' = last /\ OnlyRun(p) /\ Same(p)
        /\ run'[p].step = "signal" /\ run'[p].target = g /\ run'[p].previous = run[p].previous
    BY <1>3, <2>1, GotoGoes
  <2>3. SoleBy(p)'
    BY <1>1, <1>3, <2>2 DEF SoleBy, ArmInv, Sole, Arms, Speaks, OfArms
  <2>4. run'[p].step \in OfArms \cup {"serve"} /\ run'[p].step # "emit"
    BY <2>2 DEF OfArms
  <2> QED BY <1>1, <1>3, <2>2, <2>3, <2>4, ArmGoing DEF store, world
<1>4. CASE UNCHANGED sender /\ run[p].event = "prompt" /\ End(p, "none")
  BY <1>1, <1>4, FailingIsGood DEF Unpaired, TypeOK
<1>5. ASSUME sender' = [sender EXCEPT ![p] = new]
      PROVE  /\ sender' \in [Process -> Sender \cup {None}]
             /\ \A q \in Process \ {p} : sender'[q] = sender[q]
             /\ \A h \in Garden : Speaks(p, h)' => h = g
  BY <1>1, <1>2, <1>5, KeyNowIsAKey DEF TypeOK, Sender, Speaks
<1>6. CASE /\ sender' = [sender EXCEPT ![p] = new]
           /\ run[p].event = "arm" /\ Goto(p, "signal") /\ UNCHANGED lock
  <2>1. "signal" \in Step
    BY DEF Step
  <2>2. /\ run' \in [Process -> Run] /\ last' = last /\ OnlyRun(p) /\ Same(p)
        /\ run'[p].step = "signal" /\ run'[p].target = g
    BY <1>6, <2>1, GotoGoes
  <2>3. TypeOK'
    BY <1>1, <1>5, <1>6, <2>2 DEF TypeOK
  <2>4. Others(p) /\ Kept(p) /\ Held(p) /\ Marked(p)
    BY <1>1, <1>5, <1>6, <2>2 DEF Others, OnlyRun, Kept, Held, Marked
  <2>5. Paired(p)
    BY <1>1, <1>6, <2>2 DEF Paired, Unpaired, Same
  <2>6. BegunBy(p)' /\ AboutBy(p)'
    BY <1>1, <1>2, <1>6, <2>2 DEF ArmInv, Begun, BegunBy, AboutBy, Same
  <2>7. LocksBy(p)'
    BY <1>1, <1>6, <2>2 DEF ArmInv, Locks, LocksBy, Same, Arms, OfArms
  <2>8. SoleBy(p)'
    BY <1>1, <1>5, <1>6, <2>2 DEF SoleBy, ArmInv, Sole
  <2>9. last'[p] = "none"
    BY <1>1, <2>2 DEF ArmInv, Begun
  <2>10. ServedBy(p)'
    BY <2>9 DEF ServedBy
  <2> QED BY <1>1, <2>3, <2>4, <2>5, <2>6, <2>7, <2>8, <2>10 DEF Good, Moves, Own
<1>7. CASE sender' = [sender EXCEPT ![p] = new] /\ run[p].event = "prompt" /\ End(p, "prompted")
  <2>1. /\ run' \in [Process -> Run] /\ last' \in [Process -> {"none", "armed", "prompted"}]
        /\ lock' \in [Garden -> Process \cup {None, Dead}]
        /\ OnlyRun(p) /\ Held(p) /\ run'[p].step = "idle" /\ last'[p] = "prompted"
    BY <1>7, EndEnds
  <2>2. TypeOK'
    BY <1>1, <1>5, <1>7, <2>1 DEF TypeOK
  <2>3. Others(p) /\ Kept(p) /\ Marked(p) /\ ~Unpaired(p)
    BY <1>1, <1>5, <1>7, <2>1 DEF Others, OnlyRun, Kept, Marked, Unpaired
  <2>4. Paired(p)
    BY <1>1, <2>3 DEF Paired
  <2>5. BegunBy(p)' /\ AboutBy(p)' /\ LocksBy(p)' /\ SoleBy(p)'
    BY <1>1, <2>1 DEF BegunBy, AboutBy, LocksBy, SoleBy, Arms, Past, OfArms, ArmInv, Sole
  <2>6. session[p] \in {run[p].native, None}
    BY <1>1 DEF ArmInv, Begun
  <2>7. ServedBy(p)'
    BY <1>1, <1>2, <1>5, <1>7, <2>1, <2>6 DEF ServedBy
  <2> QED BY <1>1, <2>1, <2>2, <2>3, <2>4, <2>5, <2>7 DEF Good, Moves, Own
<1> QED BY <1>3, <1>4, <1>6, <1>7 DEF Serve

LEMMA SignalIsGood == ASSUME TypeOK, ArmInv, NEW p \in Process, Signal(p) PROVE Good(p)
<1>1. /\ run[p].step = "signal"
      /\ UNCHANGED <<session, key, runs, addressed, record, marker, sender, watching>>
  BY DEF Signal, At
<1>2. run[p].event = "arm" /\ run[p].step \in OfArms /\ run[p].step \in Past
  BY <1>1, Knows DEF Past, OfArms
<1>3. CASE Goto(p, "mark") /\ UNCHANGED <<lock, broken>>
  <2>1. "mark" \in Step
    BY DEF Step
  <2>2. /\ run' \in [Process -> Run] /\ last' = last /\ OnlyRun(p) /\ Same(p)
        /\ run'[p].step = "mark" /\ run'[p].target = run[p].target
        /\ run'[p].previous = run[p].previous
    BY <1>3, <2>1, GotoGoes
  <2>3. SoleBy(p)' /\ run'[p].step \in OfArms \cup {"serve"} /\ run'[p].step # "emit"
    BY <1>1, <1>2, <2>2 DEF SoleBy, ArmInv, Sole, Arms, Speaks, OfArms
  <2> QED BY <1>1, <1>2, <1>3, <2>2, <2>3, ArmGoing DEF store, world
<1>4. CASE End(p, "none") /\ Breaks(p)
  BY <1>1, <1>2, <1>4, FailingIsGood DEF TypeOK
<1> QED BY <1>3, <1>4 DEF Signal

LEMMA MarkIsGood == ASSUME TypeOK, ArmInv, NEW p \in Process, Mark(p) PROVE Good(p)
<1> DEFINE g == run[p].target
           new == [owner |-> p, key |-> KeyNow(p), incarnation |-> run[p].incarnation]
<1>1. /\ run[p].step = "mark" /\ Goto(p, "emit")
      /\ UNCHANGED <<session, key, runs, addressed, record, sender, lock, watching>>
  BY DEF Mark, At
<1>2. /\ run[p] \in Run /\ g \in Garden /\ run[p].event = "arm" /\ run[p].step \in OfArms
      /\ run[p].step \in Past /\ record[g] # None /\ record[g].native = run[p].native
      /\ run[p].incarnation = record[g].incarnation /\ lock[g] = p
  BY <1>1, Knows DEF Past, OfArms, ArmInv, Locks, Arms
<1>3. "emit" \in Step
  BY DEF Step
<1>4. /\ run' \in [Process -> Run] /\ last' = last /\ OnlyRun(p) /\ Same(p)
      /\ run'[p].step = "emit" /\ run'[p].target = g /\ run'[p].previous = run[p].previous
  BY <1>1, <1>3, GotoGoes
<1>5. last'[p] = "none"
  BY <1>1, <1>4 DEF ArmInv, Begun
<1>6. BegunBy(p)' /\ AboutBy(p)' /\ ServedBy(p)'
  BY <1>1, <1>2, <1>4, <1>5 DEF ArmInv, Begun, BegunBy, AboutBy, ServedBy, Same, OfArms
<1>7. LocksBy(p)'
  BY <1>1, <1>2, <1>4 DEF LocksBy, Same, Arms, OfArms
<1>8. Others(p) /\ Kept(p) /\ Held(p)
  BY <1>1, <1>4 DEF Others, OnlyRun, Kept, Held
<1>9. ASSUME marker' \in [Garden -> Marker \cup {None}], broken' \subseteq Garden, Marked(p), Paired(p),
             \A h \in Garden : Speaks(p, h)' => h = g \/ Speaks(p, h)
      PROVE  Good(p)
  <2>1. TypeOK'
    BY <1>1, <1>4, <1>9 DEF TypeOK
  <2>2. SoleBy(p)'
    BY <1>1, <1>2, <1>4, <1>9 DEF SoleBy, ArmInv, Sole, Arms, Same
  <2> QED BY <1>1, <1>6, <1>7, <1>8, <1>9, <2>1, <2>2 DEF Good, Moves, Own
<1>10. CASE marker' = [marker EXCEPT ![g] = new] /\ broken' = broken \ {g}
  <2>1. new \in Marker
    BY <1>2, KeyNowIsAKey DEF Marker, Run
  <2>2. /\ marker' \in [Garden -> Marker \cup {None}] /\ broken' \subseteq Garden /\ marker'[g] = new
        /\ \A h \in Garden : h # g => marker'[h] = marker[h]
    BY <1>2, <1>10, <2>1 DEF TypeOK
  <2>3. Marked(p) /\ Paired(p)
    BY <1>1, <1>2, <1>10, <2>2 DEF Marked, Paired
  <2> QED BY <1>1, <1>9, <2>2, <2>3 DEF Speaks
<1>11. CASE Breaks(p) /\ UNCHANGED marker
  BY <1>1, <1>2, <1>9, <1>11 DEF Breaks, Marked, Paired, Speaks, TypeOK
<1> QED BY <1>10, <1>11 DEF Mark

(* The host watches what its marker advertises, unless the session has changed. *)
LEMMA EmitIsGood == ASSUME TypeOK, ArmInv, NEW p \in Process, Emit(p) PROVE Good(p)
<1> DEFINE e == IF run[p].previous = None THEN "armed" ELSE "none"
<1>1. /\ run[p].step = "emit" /\ End(p, e) /\ Watches(p)
      /\ UNCHANGED <<session, key, runs, addressed, record, marker, sender, broken>>
  BY DEF Emit, At
<1>2. /\ run[p] \in Run /\ run[p].target \in Garden /\ run[p].event = "arm" /\ ~Unpaired(p)
      /\ run[p].step \in OfArms /\ record[run[p].target].native = run[p].native
  BY <1>1, Knows DEF Past, OfArms, Unpaired
<1>3. /\ run' \in [Process -> Run] /\ last' \in [Process -> {"none", "armed", "prompted"}]
      /\ lock' \in [Garden -> Process \cup {None, Dead}]
      /\ OnlyRun(p) /\ Held(p) /\ run'[p].step = "idle" /\ last'[p] = e
  BY <1>1, EndEnds
<1>4. /\ watching' \in [Process -> Garden \cup {None}]
      /\ \A q \in Process \ {p} : watching'[q] = watching[q]
      /\ session[p] = run[p].native => watching'[p] = run[p].target
  BY <1>1, <1>2 DEF Watches, TypeOK
<1>5. TypeOK'
  BY <1>1, <1>3, <1>4 DEF TypeOK
<1>6. Others(p) /\ Kept(p) /\ Marked(p) /\ Paired(p)
  BY <1>1, <1>2, <1>3, <1>4 DEF Others, OnlyRun, Kept, Marked, Paired
<1>7. BegunBy(p)' /\ AboutBy(p)' /\ LocksBy(p)' /\ SoleBy(p)'
  BY <1>1, <1>3 DEF BegunBy, AboutBy, LocksBy, SoleBy, Arms, Past, OfArms, ArmInv, Sole
<1>8. ASSUME NEW g \in Garden, Speaks(p, g), session[p] # None, last'[p] \in {"armed", "prompted"}
      PROVE  g = run[p].target /\ session[p] = run[p].native
  <2>1. run[p].previous = None
    BY <1>3, <1>8
  <2> QED BY <1>1, <1>2, <1>8, <2>1 DEF ArmInv, Sole, Begun, Arms
<1>9. ServedBy(p)'
  BY <1>1, <1>2, <1>4, <1>8 DEF ServedBy, Speaks
<1> QED BY <1>1, <1>3, <1>5, <1>6, <1>7, <1>9 DEF Good, Moves, Own

LEMMA UnownedIsGood == ASSUME TypeOK, ArmInv, NEW p \in Process, Unowned(p) PROVE Good(p)
<1>1. /\ run[p].step = "unowned" /\ End(p, "none") /\ Breaks(p)
      /\ UNCHANGED <<session, key, runs, addressed, record, marker, sender>>
  BY DEF Unowned, At
<1>2. run[p].step \in Past /\ run[p].target \in Garden
  BY <1>1, Knows DEF Past
<1>3. /\ watching' \in [Process -> Garden \cup {None}]
      /\ \A q \in Process \ {p} : watching'[q] = watching[q]
  BY <1>2 DEF Unowned, Watches, TypeOK
<1> QED BY <1>1, <1>2, <1>3, FailingIsGood

LEMMA HookDiesIsGood == ASSUME TypeOK, ArmInv, NEW p \in Process, HookDies(p) PROVE Good(p)
<1>1. End(p, "none")
  BY DEF HookDies, End
<1>2. Unpaired(p) => run[p].step \in Past
  BY DEF Unpaired, Past
<1> QED BY <1>1, <1>2, FailingIsGood DEF HookDies, world, TypeOK

-----------------------------------------------------------------------------
(* Steps of Claude. *)
LEMMA FireFires ==
  ASSUME TypeOK, NEW p \in Process, NEW e \in Event, NEW n \in Native, Fire(p, e, n)
  PROVE  /\ run' \in [Process -> Run] /\ last' \in [Process -> {"none", "armed", "prompted"}]
         /\ runs' \in Incarnation /\ OnlyRun(p) /\ run[p].step = "idle"
         /\ run'[p].step = "lookup" /\ run'[p].native = n /\ last'[p] = "none"
         /\ UNCHANGED <<store, broken, addressed>>
<1>1. /\ run[p].step = "idle" /\ runs' \in Incarnation /\ UNCHANGED <<store, broken, addressed>>
  BY DEF Fire, Running, TypeOK, Incarnation
<1> DEFINE i == IF e = "arm" THEN runs' ELSE 0
           r == [Idle EXCEPT !.step = "lookup", !.event = e, !.native = n, !.incarnation = i]
<1>2. i \in Incarnation
  BY <1>1 DEF Incarnation
<1>3. r \in Run /\ r.step = "lookup" /\ r.native = n
  BY <1>2 DEF Run, Idle, Step, Event, Incarnation
<1>4. run' = [run EXCEPT ![p] = r] /\ last' = [last EXCEPT ![p] = "none"]
  BY DEF Fire
<1> QED BY <1>1, <1>3, <1>4 DEF OnlyRun, TypeOK

LEMMA FiringIsGood ==
  ASSUME TypeOK, ArmInv, NEW p \in Process, NEW e \in Event, NEW n \in Native, Fire(p, e, n),
         session' \in [Process -> Native \cup {None}], key' \in [Process -> 0..MaxKey],
         watching' \in [Process -> Garden \cup {None}],
         \A q \in Process \ {p} : /\ session'[q] = session[q] /\ key'[q] = key[q]
                                  /\ watching'[q] = watching[q],
         session'[p] = n, key'[p] > 0
  PROVE  Good(p)
<1>1. /\ run' \in [Process -> Run] /\ last' \in [Process -> {"none", "armed", "prompted"}]
      /\ runs' \in Incarnation /\ OnlyRun(p) /\ run[p].step = "idle"
      /\ run'[p].step = "lookup" /\ run'[p].native = n /\ last'[p] = "none"
      /\ UNCHANGED <<store, broken, addressed>>
  BY FireFires
<1>2. TypeOK'
  BY <1>1 DEF TypeOK, store
<1>3. Moves(p)
  BY <1>1 DEF Moves, Others, OnlyRun, Kept, Held, Marked, Paired, Unpaired, store
<1>4. BegunBy(p)' /\ AboutBy(p)' /\ LocksBy(p)' /\ SoleBy(p)' /\ ServedBy(p)'
  BY <1>1 DEF BegunBy, AboutBy, LocksBy, SoleBy, ServedBy, Arms, Past, OfArms
<1> QED BY <1>1, <1>2, <1>3, <1>4 DEF Good, Own

LEMMA OpenIsGood ==
  ASSUME TypeOK, ArmInv, NEW p \in Process, NEW n \in Native, Open(p, n) PROVE Good(p)
<1>1. "arm" \in Event
  BY DEF Event
<1>2. /\ session' \in [Process -> Native \cup {None}] /\ session'[p] = n
      /\ watching' \in [Process -> Garden \cup {None}]
      /\ \A q \in Process \ {p} : session'[q] = session[q] /\ watching'[q] = watching[q]
  BY DEF Open, TypeOK
<1>3. /\ key' \in [Process -> 0..MaxKey] /\ key'[p] > 0
      /\ \A q \in Process \ {p} : key'[q] = key[q]
  BY DEF Open, TypeOK, ArmInv, Sole
<1> QED BY <1>1, <1>2, <1>3, FiringIsGood DEF Open

LEMMA FireAgainIsGood ==
  ASSUME TypeOK, ArmInv, NEW p \in Process, Refire(p) \/ Prompt(p) PROVE Good(p)
<1>1. /\ session[p] \in Native /\ key[p] > 0
      /\ session \in [Process -> Native \cup {None}] /\ key \in [Process -> 0..MaxKey]
      /\ watching \in [Process -> Garden \cup {None}]
  BY DEF Refire, Prompt, TypeOK, ArmInv, Sole
<1>2. UNCHANGED <<session, key, watching>>
  BY DEF Refire, Prompt, world
<1>3. PICK e \in Event : Fire(p, e, session[p])
  BY DEF Refire, Prompt, Event
<1> QED BY <1>1, <1>2, <1>3, FiringIsGood

LEMMA ExitIsGood == ASSUME TypeOK, ArmInv, NEW p \in Process, Exit(p) PROVE Good(p)
<1>1. /\ session' = [session EXCEPT ![p] = None] /\ watching' = [watching EXCEPT ![p] = None]
      /\ UNCHANGED <<record, marker, sender, lock, key, run, last, runs, broken, addressed>>
  BY DEF Exit, store, hook
<1>2. TypeOK' /\ session'[p] = None
  BY <1>1 DEF TypeOK
<1>3. Moves(p)
  BY <1>1 DEF Moves, Others, Kept, Held, Marked, Paired, Unpaired, TypeOK
<1>4. Own(p)
  BY OwnNow
<1>5. Own(p)'
  BY <1>1, <1>2, <1>4 DEF Own, BegunBy, AboutBy, LocksBy, SoleBy, ServedBy, Arms, Speaks
<1> QED BY <1>1, <1>2, <1>3, <1>5 DEF Good

LEMMA ProcessIsGood ==
  ASSUME TypeOK, ArmInv, NEW p \in Process,
         \/ \E n \in Native : Open(p, n)
         \/ Refire(p) \/ Prompt(p) \/ Exit(p) \/ Hook(p) \/ HookDies(p)
  PROVE  Good(p)
<1>1. CASE Hook(p)
  BY <1>1, LookupIsGood, CertifyIsGood, PublishIsGood, RelookupIsGood, TakeArmLockIsGood,
     RecertifyIsGood, AttachIsGood, PreviousIsGood, InspectIsGood, RetireIsGood, ServeIsGood,
     SignalIsGood, MarkIsGood, EmitIsGood, UnownedIsGood DEF Hook
<1> QED BY <1>1, OpenIsGood, FireAgainIsGood, ExitIsGood, HookDiesIsGood

LEMMA AddressKeeps ==
  ASSUME TypeOK, ArmInv, NEW g \in Garden, Address(g) PROVE TypeOK' /\ ArmInv'
<1>1. /\ record[g] # None /\ record[g].native \in Native
      /\ addressed' = addressed \cup {<<record[g].native, g>>}
      /\ UNCHANGED <<record, marker, sender, lock, session, key, watching, run, last, runs, broken>>
  BY DEF Address, TypeOK, Record, store, world, hook
<1>2. TypeOK'
  BY <1>1 DEF TypeOK
<1>3. Reached'
  BY <1>1 DEF ArmInv, Reached
<1>4. Begun' /\ About' /\ Locks' /\ Sole'
  BY <1>1 DEF ArmInv, Begun, About, Locks, Sole, Arms, Speaks
<1>5. Pairs' /\ DeliverableIsServed'
  BY <1>1 DEF ArmInv, Pairs, Unpaired, DeliverableIsServed, Deliverable
<1> QED BY <1>2, <1>3, <1>4, <1>5 DEF ArmInv

-----------------------------------------------------------------------------
LEMMA Begins == Init => TypeOK /\ ArmInv
<1> SUFFICES ASSUME Init PROVE TypeOK /\ ArmInv
  OBVIOUS
<1>1. Idle \in Run /\ Idle.step = "idle"
  BY DEF Idle, Run, Step, Event, Incarnation
<1>2. TypeOK
  BY <1>1 DEF Init, TypeOK, Incarnation
<1>3. ArmInv
  BY <1>1 DEF Init, ArmInv, Begun, About, Locks, Pairs, Reached, Sole, DeliverableIsServed,
     Deliverable, Arms, Past, OfArms
<1> QED BY <1>2, <1>3

LEMMA NextKeeps == TypeOK /\ ArmInv /\ [Next]_vars => TypeOK' /\ ArmInv'
<1> SUFFICES ASSUME TypeOK, ArmInv, [Next]_vars PROVE TypeOK' /\ ArmInv'
  OBVIOUS
<1>1. ASSUME NEW p \in Process,
             \/ \E n \in Native : Open(p, n)
             \/ Refire(p) \/ Prompt(p) \/ Exit(p) \/ Hook(p) \/ HookDies(p)
      PROVE  TypeOK' /\ ArmInv'
  BY <1>1, ProcessIsGood, StepKeepsInvariant DEF Good
<1>2. ASSUME NEW g \in Garden, Address(g) PROVE TypeOK' /\ ArmInv'
  BY <1>2, AddressKeeps
<1>3. CASE UNCHANGED vars
  <2>1. TypeOK'
    BY <1>3 DEF vars, store, world, hook, TypeOK
  <2>2. Begun' /\ About' /\ Locks' /\ Pairs' /\ Reached' /\ Sole'
    BY <1>3 DEF vars, store, world, hook, ArmInv, Begun, About, Locks, Pairs, Reached, Sole,
       Arms, Speaks, Unpaired
  <2>3. DeliverableIsServed'
    BY <1>3 DEF vars, store, world, hook, ArmInv, DeliverableIsServed, Deliverable
  <2> QED BY <2>1, <2>2, <2>3 DEF ArmInv
<1> QED BY <1>1, <1>2, <1>3 DEF Next

(* Every variable keeps its type. *)
THEOREM TypeCorrect == Spec => []TypeOK
BY Begins, NextKeeps, PTL DEF Spec

(* A run of a hook holds the lock of its record while the record and the
   marker differ, and speaks for no other garden by the time it answers. *)
THEOREM ArmInvariant == Spec => []ArmInv
BY Begins, NextKeeps, PTL DEF Spec

(* "Two normal arms always finish as a matching record/marker pair": whoever
   is between its two writes holds the lock. *)
THEOREM PairsMatch == Spec => []PairMatches
<1>1. TypeOK /\ ArmInv => PairMatches
  <2> SUFFICES ASSUME TypeOK, ArmInv, NEW g \in Garden,
                      marker[g] # None, lock[g] \notin Process, g \notin broken
               PROVE  record[g] # None /\ marker[g].incarnation = record[g].incarnation
    BY DEF PairMatches
  <2>1. ASSUME NEW p \in Process, run[p].target = g, Unpaired(p) PROVE FALSE
    <3>1. Arms(p)
      BY <2>1 DEF Unpaired, Arms, OfArms
    <3> QED BY <2>1, <3>1 DEF ArmInv, Locks
  <2> QED BY <2>1 DEF ArmInv, Pairs
<1> QED BY <1>1, TypeCorrect, ArmInvariant, PTL

(* No two dispatches reach one session through two gardens: the second record
   stops both, and the first is never unbound. *)
THEOREM OneAddressEach == Spec => []OneAddress
<1>1. Init => OneAddress
  BY DEF Init, OneAddress
<1>2. TypeOK /\ ArmInv /\ OneAddress /\ [Next]_vars => OneAddress'
  <2> SUFFICES ASSUME TypeOK, ArmInv, OneAddress, [Next]_vars PROVE OneAddress'
    OBVIOUS
  <2>1. ASSUME NEW g \in Garden, Address(g) PROVE OneAddress'
    <3>1. \A a \in addressed : a[1] = record[g].native => a[2] = g
      <4> SUFFICES ASSUME NEW a \in addressed, a[1] = record[g].native PROVE a[2] = g
        OBVIOUS
      <4>1. a[2] \in Garden /\ record[a[2]] # None /\ record[a[2]].native = a[1]
        BY DEF ArmInv, Reached, TypeOK
      <4> QED BY <2>1, <4>1 DEF Address, Holders
    <3>2. addressed' = addressed \cup {<<record[g].native, g>>}
      BY <2>1 DEF Address
    <3> QED BY <3>1, <3>2 DEF OneAddress
  <2>2. CASE UNCHANGED addressed
    BY <2>2 DEF OneAddress
  <2>3. ASSUME NEW p \in Process,
               \/ \E n \in Native : Open(p, n)
               \/ Refire(p) \/ Prompt(p) \/ Exit(p) \/ Hook(p) \/ HookDies(p)
        PROVE  UNCHANGED addressed
    BY <2>3, ProcessIsGood DEF Good
  <2> QED BY <2>1, <2>2, <2>3 DEF Next, vars
<1> QED BY <1>1, <1>2, TypeCorrect, ArmInvariant, PTL DEF Spec

(* Mail is not enqueued into a void: what is deliverable is served. *)
THEOREM DeliverableServed == Spec => []DeliverableIsServed
<1>1. ArmInv => DeliverableIsServed
  BY DEF ArmInv
<1> QED BY <1>1, ArmInvariant, PTL

(* A garden id is never bound to another session, and never unbound. *)
THEOREM BoundForLife == Spec => GardenIsForLife
<1>1. TypeOK /\ ArmInv /\ [Next]_vars =>
        [\A g \in Garden : record[g] # None =>
           record'[g] # None /\ record'[g].native = record[g].native]_vars
  <2> SUFFICES ASSUME TypeOK, ArmInv, Next, NEW g \in Garden, record[g] # None
               PROVE  record'[g] # None /\ record'[g].native = record[g].native
    OBVIOUS
  <2>1. ASSUME NEW p \in Process,
               \/ \E n \in Native : Open(p, n)
               \/ Refire(p) \/ Prompt(p) \/ Exit(p) \/ Hook(p) \/ HookDies(p)
        PROVE  Kept(p)
    BY <2>1, ProcessIsGood DEF Good, Moves
  <2>2. ASSUME NEW h \in Garden, Address(h) PROVE record' = record
    BY <2>2 DEF Address, store
  <2> QED BY <2>1, <2>2 DEF Next, Kept
<1> QED BY <1>1, TypeCorrect, ArmInvariant, PTL DEF Spec, GardenIsForLife
=============================================================================
