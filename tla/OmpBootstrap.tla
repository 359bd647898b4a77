---------------------------- MODULE OmpBootstrap ----------------------------
(***************************************************************************)
(* The two-stage bootstrap of a fresh OMP citizen (meta-bridge-omp.ts).    *)
(* The launcher puts a task on a flag of the process.  The extension, in   *)
(* that process, waits until the callback tool can be called, prompts for  *)
(* the callback alone, and hands over the task at the end of the turn in   *)
(* which the callback has succeeded.  The operator may replace the session *)
(* under the living process at any time, by another or by itself.          *)
(*                                                                         *)
(* Handlers are synchronous, so each is one step; only the call to         *)
(* sendUserMessage at its end is a step of its own, as events may fire in  *)
(* it.  A conversation is what one birth edge begins.                      *)
(***************************************************************************)
EXTENDS Naturals, Sequences

CONSTANTS
  Session,  \* native session ids
  ToolCall, \* tool call ids
  Nil,      \* no session, no call
  MaxConvs, \* bound: conversations
  Misfires  \* whether births, timers and sends may fail

ASSUME NilAssumption == Nil \notin Session \cup ToolCall
ASSUME ConvsAssumption == MaxConvs \in Nat \ {0} /\ Misfires \in BOOLEAN

VARIABLES
  here,     \* the native session of the host
  conv,     \* the conversation it is in, by number
  edge,     \* the birth edge the host has still to report, or "none"
  turn,     \* a turn is running
  call,     \* call[k]: a tool call: which tool, whose, in which conversation
  live,     \* the callback tool is registered by MCP and enabled
  late,     \* the readiness deadline has passed
  consumed, \* bootstrapConsumed
  active,   \* activeBootstrap: the session it is bound to, or Nil
  phase,    \* its phase, "none" before there is one
  callId,   \* the call whose result it waits for
  timer,    \* its poll is scheduled
  outbox,   \* the message sendUserMessage is being called with
  armedIn,  \* history: the conversation in which it was armed
  proved,   \* history: conversations in which the host's callback succeeded
  prompts,  \* history: the conversation each callback prompt went to
  tasks     \* history: the conversation each task went to

vendor == <<here, conv, edge, turn>>
tools == <<call, proved>>
boot == <<active, phase, callId, timer>>
history == <<armedIn, prompts, tasks>>
bootvars == <<vendor, tools, live, late, consumed, boot, outbox, history>>

NoCall == [what |-> "none", who |-> "host", conv |-> 0]
Tool == [what : {"none", "callback", "other", "over"}, who : {"host", "sub"}, conv : 0..MaxConvs]
Phase == {"none", "waiting", "callback-sent", "released", "task-sent", "failed"}

BootTypeOK ==
  /\ here \in Session /\ conv \in 0..MaxConvs /\ edge \in {"none", "start", "new", "same"}
  /\ call \in [ToolCall -> Tool]
  /\ turn \in BOOLEAN /\ live \in BOOLEAN /\ late \in BOOLEAN
  /\ consumed \in BOOLEAN /\ timer \in BOOLEAN
  /\ active \in Session \cup {Nil} /\ phase \in Phase
  /\ callId \in ToolCall \cup {Nil} /\ outbox \in {"none", "prompt", "task"}
  /\ armedIn \in 0..MaxConvs /\ proved \subseteq 0..MaxConvs
  /\ prompts \in Seq(0..MaxConvs) /\ tasks \in Seq(0..MaxConvs)

BootInit ==
  /\ here \in Session /\ conv = 0 /\ edge = "start" /\ turn = FALSE
  /\ call = [k \in ToolCall |-> NoCall] /\ live \in BOOLEAN /\ late = FALSE
  /\ consumed = FALSE /\ active = Nil /\ phase = "none" /\ callId = Nil /\ timer = FALSE
  /\ outbox = "none" /\ armedIn = 0 /\ proved = {} /\ prompts = <<>> /\ tasks = <<>>

Idle == outbox = "none"
IsFinal == phase \in {"task-sent", "failed"}
Failed == IF IsFinal THEN phase ELSE "failed"

-----------------------------------------------------------------------------
(* The poll.  The phase moves before the prompt is sent. *)
(* Mutant: the deadline is not looked at. *)
TickUnbounded ==
  \/ live /\ phase' = "callback-sent" /\ outbox' = "prompt" /\ timer' = FALSE
  \/ ~live /\ phase' = "waiting" /\ timer' = TRUE /\ UNCHANGED outbox

Tick ==
  \/ live /\ phase' = "callback-sent" /\ outbox' = "prompt" /\ timer' = FALSE
  \/ ~live /\ late /\ phase' = "failed" /\ timer' = FALSE /\ UNCHANGED outbox
  \/ ~live /\ ~late /\ phase' = "waiting" /\ timer' = TRUE /\ UNCHANGED outbox
  \/ Misfires /\ ~live /\ ~late /\ phase' = "failed" /\ timer' = FALSE /\ UNCHANGED outbox

TimerFires ==
  /\ timer /\ Idle
  /\ \/ phase = "waiting" /\ Tick
     \/ phase # "waiting" /\ timer' = FALSE /\ UNCHANGED <<phase, outbox>>
  /\ UNCHANGED <<vendor, tools, live, late, consumed, active, callId, history>>

DeadlinePasses ==
  /\ phase = "waiting" /\ ~late /\ late' = TRUE
  /\ UNCHANGED <<vendor, tools, live, consumed, boot, outbox, history>>

ToolsChange ==
  /\ live' = ~live
  /\ UNCHANGED <<vendor, tools, late, consumed, boot, outbox, history>>

(* send: it throws, or a turn begins. *)
Deliver ==
  /\ ~Idle /\ outbox' = "none"
  /\ \/ /\ turn' = TRUE /\ UNCHANGED <<phase, timer>>
        /\ prompts' = IF outbox = "prompt" THEN Append(prompts, conv) ELSE prompts
        /\ tasks' = IF outbox = "task" THEN Append(tasks, conv) ELSE tasks
     \/ /\ Misfires /\ phase' = Failed /\ timer' = FALSE
        /\ UNCHANGED <<turn, prompts, tasks>>
  /\ UNCHANGED <<here, conv, edge, tools, live, late, consumed, active, callId, armedIn>>

-----------------------------------------------------------------------------
(* Birth edges. *)

(* /new, a fork, a resume: another id, or the same one again. *)
Replace(s) ==
  /\ Idle /\ edge = "none" /\ conv < MaxConvs /\ here' = s
  /\ IF s = here THEN edge' = "same" /\ UNCHANGED conv
                 ELSE edge' = "new" /\ conv' = conv + 1
  /\ UNCHANGED <<turn, tools, live, late, consumed, boot, outbox, history>>

(* Mutant: the poll is left to itself. *)
InvalidatedPolling == active' = Nil /\ phase' = Failed /\ UNCHANGED <<timer, callId>>

(* endBootstrapEpochOnLaterEdge, before anything that can bail. *)
Invalidated == active' = Nil /\ phase' = Failed /\ timer' = FALSE /\ UNCHANGED callId

(* Mutant: the candidate that compared the ids. *)
EndEpochIfMoved ==
  IF consumed /\ active # Nil /\ active # here THEN Invalidated ELSE UNCHANGED boot

EndEpoch == IF consumed /\ active # Nil THEN Invalidated ELSE UNCHANGED boot

(* startOmpBootstrap with the latch open: a flag that cannot be read leaves
   it so; a launch without a caller, or timers of its own, spends it. *)
ArmBootstrap ==
  \/ /\ consumed' = TRUE /\ active' = here /\ callId' = Nil /\ armedIn' = conv' /\ Tick
  \/ Misfires /\ consumed' = TRUE /\ UNCHANGED <<boot, outbox, armedIn>>
  \/ Misfires /\ UNCHANGED <<consumed, boot, outbox, armedIn>>

(* onBirthEdge.  A refused envelope or a failing upsert comes before the latch. *)
BirthEdge ==
  /\ Idle /\ edge # "none" /\ edge' = "none"
  /\ conv' = (IF edge = "new" THEN conv ELSE conv + 1)
  /\ \/ consumed /\ EndEpoch /\ UNCHANGED <<consumed, outbox, armedIn>>
     \/ ~consumed /\ ArmBootstrap
     \/ Misfires /\ ~consumed /\ UNCHANGED <<consumed, boot, outbox, armedIn>>
  /\ UNCHANGED <<here, turn, tools, live, late, prompts, tasks>>

-----------------------------------------------------------------------------
(* Tool and turn events, of the host or of a task subagent, which runs the
   same module with a context that says "print". *)
Accepts(who) == who = "host" /\ active = here

(* A turn of the host ends when its own calls have returned. *)
Calling(k) == call[k].who = "host" /\ call[k].conv = conv /\ call[k].what \in {"callback", "other"}
Ends(who) == turn' = (who = "sub") /\ (who = "host" => \A k \in ToolCall : ~Calling(k))

Type ==
  /\ Idle /\ edge # "start" /\ ~turn /\ turn' = TRUE
  /\ UNCHANGED <<here, conv, edge, tools, live, late, consumed, boot, outbox, history>>

(* The tool is the callback only by its exact name and with no arguments. *)
Call(k, what, who) ==
  /\ turn /\ call[k].what = "none"
  /\ call' = [call EXCEPT ![k] = [what |-> what, who |-> who, conv |-> conv]]
  /\ callId' = IF Accepts(who) /\ phase = "callback-sent" /\ callId = Nil /\ what = "callback"
               THEN k ELSE callId
  /\ UNCHANGED <<vendor, proved, live, late, consumed, active, phase, timer, outbox, history>>

Result(k, isError) ==
  /\ call[k].what \in {"callback", "other"}
  /\ call' = [call EXCEPT ![k].what = "over"]
  /\ proved' = IF call[k].what = "callback" /\ call[k].who = "host" /\ ~isError
               THEN proved \cup {call[k].conv} ELSE proved
  /\ IF Accepts(call[k].who) /\ phase = "callback-sent" /\ callId = k /\ ~isError
     THEN phase' = "released" /\ timer' = FALSE
     ELSE UNCHANGED <<phase, timer>>
  /\ UNCHANGED <<vendor, live, late, consumed, active, callId, outbox, history>>

(* Mutant: the latch moves after the send, if at all. *)
TurnEndUnlatched(who) ==
  /\ turn /\ Ends(who)
  /\ outbox' = (IF Idle /\ Accepts(who) /\ phase = "released" THEN "task" ELSE outbox)
  /\ UNCHANGED <<here, conv, edge, tools, live, late, consumed, boot, history>>

(* onTurnEnd: latch, then send. *)
TurnEnd(who) ==
  /\ turn /\ Ends(who)
  /\ IF Accepts(who) /\ phase = "released"
     THEN phase' = "task-sent" /\ outbox' = "task"
     ELSE UNCHANGED <<phase, outbox>>
  /\ UNCHANGED <<here, conv, edge, tools, live, late, consumed, active, callId, timer, history>>

-----------------------------------------------------------------------------
BootNext ==
  \/ TimerFires \/ DeadlinePasses \/ ToolsChange \/ Deliver \/ BirthEdge \/ Type
  \/ \E s \in Session : Replace(s)
  \/ \E k \in ToolCall, who \in {"host", "sub"} :
       \/ \E what \in {"callback", "other"} : Call(k, what, who)
       \/ \E isError \in BOOLEAN : Result(k, isError)
       \/ TurnEnd(who)

(* Timers fire, calls return, edges are reported, and a turn ends. *)
Fairness ==
  /\ WF_bootvars(TimerFires) /\ WF_bootvars(DeadlinePasses)
  /\ WF_bootvars(Deliver) /\ WF_bootvars(BirthEdge)
  /\ WF_bootvars(TurnEnd("host"))
  /\ \A k \in ToolCall : WF_bootvars(\E isError \in BOOLEAN : Result(k, isError))

BootSpec == BootInit /\ [][BootNext]_bootvars /\ Fairness

-----------------------------------------------------------------------------
(* "One release is one task": whatever turns end, sessions change and sends
   throw, at most one prompt and one task leave this process. *)
OneTask == Len(prompts) <= 1 /\ Len(tasks) <= 1

(* The task goes to the conversation that armed the bootstrap, after the
   host's own callback has succeeded in it; never to one that took its place,
   under another id or under the same.  (The prompt may: the poll knows no
   session, and an edge may be on its way when it fires.) *)
TaskIsProved == \A i \in 1..Len(tasks) : tasks[i] = armedIn /\ armedIn \in proved

(* No poll outlives its bootstrap. *)
NoPollOutlives == timer => active # Nil /\ phase = "waiting"

(* What makes the three above inductive.  Before the latch nothing is armed. *)
Unspent == ~consumed => active = Nil /\ phase = "none" /\ ~timer /\ callId = Nil

(* The first edge is the start, and each edge has a number to give. *)
Edges == /\ edge = "start" => ~consumed
         /\ edge \in {"start", "same"} => conv < MaxConvs

(* What has been sent by each phase, and what is being sent. *)
Sendings ==
  /\ phase \in {"none", "waiting"} => Idle /\ prompts = <<>>
  /\ phase # "task-sent" => outbox # "task" /\ tasks = <<>>
  /\ outbox = "prompt" => prompts = <<>>
  /\ outbox = "task" => tasks = <<>> /\ conv = armedIn /\ armedIn \in proved

(* While it is active, only an edge on its way separates the bootstrap from
   the conversation that armed it. *)
Bound ==
  active # Nil => /\ consumed /\ edge # "start"
                  /\ edge \in {"none", "same"} => active = here /\ conv = armedIn
                  /\ edge = "new" => active # here

(* The call it waits for, and the result that released it. *)
Heard ==
  /\ callId # Nil => /\ callId \in ToolCall
                     /\ call[callId].what \in {"callback", "over"}
                     /\ call[callId].who = "host" /\ call[callId].conv = armedIn
  /\ phase = "released" => armedIn \in proved

BootstrapInv ==
  Unspent /\ Edges /\ Sendings /\ Bound /\ Heard /\ OneTask /\ TaskIsProved /\ NoPollOutlives

(* An armed bootstrap prompts or fails, and a released one hands its task
   over or fails: neither waits for ever. *)
BootstrapSettles ==
  /\ phase = "waiting" ~> phase # "waiting"
  /\ phase = "released" ~> phase # "released"

(* "Leaving the latch open would let the next `/new` arm the caller's task
   into a session the caller never opened": only the first one is the
   launch's. *)
TaskIsOfTheLaunch == \A i \in 1..Len(tasks) : tasks[i] = 1
=============================================================================
