------------------------------ MODULE CcRetire ------------------------------
(***************************************************************************)
(* Retiring one Claude Code citizen (cc-retire-request.ts and its helper   *)
(* cc-retire-pidfd.py): one request, the helper child it starts, the two   *)
(* pipes between them, and the world that changes under both.  The target  *)
(* process can exit and its number be taken by a stranger; it can switch   *)
(* its session in place, which its hook writes into the record and marker  *)
(* files (the witness); the requester can abort.                           *)
(*                                                                         *)
(* A start key tells the target from every later holder of its number.     *)
(***************************************************************************)
EXTENDS Naturals, Sequences

VARIABLES
  holder,    \* who has the target's process number
  witness,   \* whether record and markers still name the citizen asked for
  aborted,   \* the requester's abort signal
  npc,       \* the adapter: "begin", "exchange" with its helper, "answered"
  sent,      \* the frame Node has written, or closed the pipe without
  protocol,  \* a protocol failure is latched
  stopped,   \* the wall timer expired, or an abort came after go
  killed,    \* Node has sent SIGKILL to its own helper
  lines,     \* the lines read from the helper
  result,    \* the answer
  hpc,       \* the helper's step
  fd,        \* the process its pidfd pins
  control,   \* what has arrived on its stdin
  out,       \* its stdout, unread
  clean,     \* it ended by itself, with the exit code of its last line
  signalled  \* who was sent SIGTERM

world == <<holder, witness>>
node == <<npc, sent, protocol, stopped, killed, lines, result>>
helper == <<hpc, fd, out, clean, signalled>>
ccvars == <<world, aborted, node, control, helper>>

Who == {"target", "stranger", "nobody"}
Frame == {"none", "go", "cancel", "eof"}
Ended == {"refused", "already-exited", "go-deadline", "cancelled", "cancelled-eof",
          "observe-failed-before-signal", "exited", "exit-unobserved", "observe-failed"}
Line == Ended \cup {"ready", "signal-requested", "partial"}
HelperStep == {"none", "open", "key", "poll", "control", "recheck", "signal",
               "requested", "wait", "leave", "over"}
Result == {"none", "exited", "refused", "not-signalled", "unknown"}

CcTypeOK == /\ holder \in Who /\ witness \in {"bound", "drifted"} /\ aborted \in BOOLEAN
            /\ npc \in {"begin", "exchange", "answered"}
            /\ sent \in {"none", "go", "cancel"} /\ control \in Frame
            /\ protocol \in BOOLEAN /\ stopped \in BOOLEAN /\ killed \in BOOLEAN
            /\ lines \in Seq(Line) /\ out \in Seq(Line)
            /\ result \in Result /\ hpc \in HelperStep /\ clean \in BOOLEAN
            /\ fd \in Who /\ signalled \in Who

CcInit == /\ holder \in Who /\ witness \in {"bound", "drifted"} /\ aborted \in BOOLEAN
          /\ npc = "begin" /\ sent = "none" /\ control = "none"
          /\ protocol = FALSE /\ stopped = FALSE /\ killed = FALSE
          /\ lines = <<>> /\ out = <<>> /\ result = "none"
          /\ hpc = "none" /\ fd = "nobody" /\ clean = FALSE /\ signalled = "nobody"

-----------------------------------------------------------------------------
(* The world: processes come and go, and the hook rewrites the witness; a
   binding once replaced is never the one that was authorised again. *)
Exit == holder # "nobody" /\ holder' = "nobody" /\ UNCHANGED witness
Reuse == holder = "nobody" /\ holder' = "stranger" /\ UNCHANGED witness
Drift == witness = "bound" /\ witness' = "drifted" /\ UNCHANGED holder
World == (Exit \/ Reuse \/ Drift) /\ UNCHANGED <<aborted, node, control, helper>>

-----------------------------------------------------------------------------
(* The adapter.  A check can pass only while record and markers agree and the
   owner they name is alive under its start key; reading them can also fail. *)
Binding == witness = "bound" /\ holder = "target"

Answer(r) == npc' = "answered" /\ result' = r

Begin ==
  /\ npc = "begin"
  /\ \/ Answer("refused") /\ UNCHANGED hpc  \* aborted, a failed check, no helper, no spawn
     \/ Binding /\ ~aborted /\ npc' = "exchange" /\ hpc' = "open" /\ UNCHANGED result
  /\ UNCHANGED <<world, aborted, sent, protocol, stopped, killed, lines, control, fd, out, clean,
                 signalled>>

(* After any of these no frame is written any more. *)
Terminal == npc = "answered" \/ protocol \/ stopped

(* write: recorded before it happens; if it throws, the frame may have left. *)
Write(frame) ==
  IF Terminal \/ sent # "none"
  THEN UNCHANGED <<sent, control, protocol, killed>>
  ELSE /\ sent' = frame
       /\ \/ control' = frame /\ UNCHANGED <<protocol, killed>>
          \/ control' \in {frame, control} /\ protocol' = TRUE /\ killed' = TRUE

(* Mutant: the second check is left out. *)
ReadLineUnchecked ==
  /\ npc = "exchange" /\ ~protocol /\ out # <<>> /\ Head(out) # "partial"
  /\ lines' = Append(lines, Head(out)) /\ out' = Tail(out)
  /\ IF lines = <<>> /\ Head(out) = "ready" /\ sent = "none"
     THEN Write(IF aborted THEN "cancel" ELSE "go")
     ELSE UNCHANGED <<sent, control, protocol, killed>>
  /\ UNCHANGED <<world, aborted, npc, stopped, result, hpc, fd, clean, signalled>>

(* onLine: `ready` is answered once, by a second check while the fd is held. *)
ReadLine ==
  /\ npc = "exchange" /\ ~protocol /\ out # <<>> /\ Head(out) # "partial"
  /\ lines' = Append(lines, Head(out)) /\ out' = Tail(out)
  /\ IF lines = <<>> /\ Head(out) = "ready" /\ sent = "none"
     THEN \/ Binding /\ ~aborted /\ Write("go")
          \/ Write("cancel")
     ELSE UNCHANGED <<sent, control, protocol, killed>>
  /\ UNCHANGED <<world, aborted, npc, stopped, result, hpc, fd, clean, signalled>>

(* onAbort: before go it cancels, or closes the pipe of a helper that has not
   spoken; after go it ends the helper and leaves the outcome unknown. *)
Abort ==
  /\ ~aborted /\ aborted' = TRUE
  /\ \/ /\ npc # "exchange" /\ UNCHANGED <<sent, control, protocol, stopped, killed>>
     \/ /\ npc = "exchange" /\ sent = "none" /\ lines # <<>> /\ Write("cancel") /\ UNCHANGED stopped
     \/ /\ npc = "exchange" /\ sent = "none" /\ lines = <<>> /\ sent' = "cancel"
        /\ \/ control' = "eof" /\ UNCHANGED <<protocol, killed>>
           \/ control' \in {control, "eof"} /\ protocol' = TRUE /\ killed' = TRUE
        /\ UNCHANGED stopped
     \/ /\ npc = "exchange" /\ sent = "go" /\ stopped' = TRUE /\ killed' = TRUE
        /\ UNCHANGED <<sent, control, protocol>>
     \/ /\ npc = "exchange" /\ sent = "cancel"
        /\ UNCHANGED <<sent, control, protocol, stopped, killed>>
  /\ UNCHANGED <<world, npc, lines, result, helper>>

(* Mutant: the timer gives up on the helper but does not end it. *)
WallGivesUp ==
  /\ npc = "exchange" /\ ~stopped /\ stopped' = TRUE
  /\ UNCHANGED <<world, aborted, npc, sent, protocol, killed, lines, result, control, helper>>

Wall ==
  /\ npc = "exchange" /\ ~stopped /\ stopped' = TRUE /\ killed' = TRUE
  /\ UNCHANGED <<world, aborted, npc, sent, protocol, lines, result, control, helper>>

(* Mutant: an exchange that was cut off counts as not signalled. *)
AfterGoOptimistic(ok) ==
  IF ~ok THEN "not-signalled"
  ELSE IF lines = <<"ready", "signal-requested", "exited">> THEN "exited"
  ELSE "unknown"

(* What the whole of the helper's output says, once it has ended. *)
AfterGo(ok) ==
  IF ok /\ lines = <<"ready", "signal-requested", "exited">> THEN "exited"
  ELSE IF ok /\ \E x \in {"already-exited", "observe-failed-before-signal", "refused"} :
                  lines = <<"ready", x>>
  THEN "not-signalled"
  ELSE "unknown"

BeforeGo(ok) ==
  CASE ok /\ lines = <<"refused">> -> "refused"
    [] ok /\ lines = <<"already-exited">> -> "not-signalled"
    [] OTHER -> IF lines # <<>> /\ lines[1] = "ready" THEN "not-signalled" ELSE "refused"

(* close: the helper is gone and its output read (a partial last line is a
   protocol failure; so is an exit code that is not its last line's). *)
Close ==
  /\ npc = "exchange" /\ hpc = "over" /\ (protocol \/ out \in {<<>>, <<"partial">>})
  /\ LET whole == ~protocol /\ out = <<>>
     IN  Answer(CASE sent = "go" -> AfterGo(whole /\ clean /\ ~stopped)
                  [] sent = "cancel" -> "not-signalled"
                  [] OTHER -> BeforeGo(whole /\ clean))
  /\ UNCHANGED <<world, aborted, sent, protocol, stopped, killed, lines, control, helper>>

Node == Begin \/ ReadLine \/ Close

-----------------------------------------------------------------------------
(* The helper. *)
FdAlive == holder = fd

At(step) == hpc = step /\ UNCHANGED <<world, aborted, node, control, clean>>
Say(line) == out' = Append(out, line)

Finish(outcome) == hpc' = "leave" /\ Say(outcome)

Open == /\ At("open")
        /\ \/ holder # "nobody" /\ fd' = holder /\ hpc' = "key" /\ UNCHANGED out
           \/ Finish("refused") /\ UNCHANGED fd
        /\ UNCHANGED signalled

(* /proc is read by number: it may already describe a later holder. *)
CompareKey == /\ At("key")
              /\ \/ holder = "target" /\ hpc' = "poll" /\ UNCHANGED out
                 \/ Finish("refused")
              /\ UNCHANGED <<fd, signalled>>

Ready == /\ At("poll")
         /\ \/ FdAlive /\ hpc' = "control" /\ Say("ready")
            \/ ~FdAlive /\ Finish("already-exited")
            \/ Finish("refused")
         /\ UNCHANGED <<fd, signalled>>

ReadControl == /\ At("control")
               /\ \/ control = "go" /\ hpc' = "recheck" /\ UNCHANGED out
                  \/ control = "cancel" /\ Finish("cancelled")
                  \/ control = "eof" /\ Finish("cancelled-eof")
                  \/ Finish("go-deadline")
               /\ UNCHANGED <<fd, signalled>>

Recheck == /\ At("recheck")
           /\ \/ FdAlive /\ hpc' = "signal" /\ UNCHANGED out
              \/ ~FdAlive /\ Finish("already-exited")
              \/ Finish("observe-failed-before-signal")
           /\ UNCHANGED <<fd, signalled>>

(* Mutant: the signal goes to the number. *)
SignalNumber == /\ At("signal")
                /\ holder # "nobody" /\ signalled' = holder /\ hpc' = "requested"
                /\ UNCHANGED <<fd, out>>

(* pidfd_send_signal reaches the pinned process or none. *)
Signal == /\ At("signal")
          /\ \/ FdAlive /\ signalled' = fd /\ hpc' = "requested" /\ UNCHANGED out
             \/ ~FdAlive /\ Finish("already-exited") /\ UNCHANGED signalled
             \/ Finish("refused") /\ UNCHANGED signalled
          /\ UNCHANGED fd

Requested == At("requested") /\ hpc' = "wait" /\ Say("signal-requested") /\ UNCHANGED <<fd, signalled>>

AwaitExit == /\ At("wait")
             /\ \/ ~FdAlive /\ Finish("exited")
                \/ Finish("exit-unobserved")
                \/ Finish("observe-failed")
             /\ UNCHANGED <<fd, signalled>>

Leave == /\ hpc = "leave" /\ hpc' = "over" /\ clean' = TRUE
         /\ UNCHANGED <<world, aborted, node, control, fd, out, signalled>>

(* It crashes or is killed, perhaps in the middle of a line. *)
Running == hpc \notin {"none", "over"}
HelperDies == /\ Running /\ hpc' = "over"
              /\ (Say("partial") \/ UNCHANGED out)
              /\ UNCHANGED <<world, aborted, node, control, fd, clean, signalled>>

Helper == Open \/ CompareKey \/ Ready \/ ReadControl \/ Recheck \/ Signal \/ Requested
          \/ AwaitExit \/ Leave

CcNext == World \/ Node \/ Abort \/ Wall \/ Helper \/ HelperDies

CcSpec == CcInit /\ [][CcNext]_ccvars

(* Node's event loop and timer run and its SIGKILL works; the helper may hang. *)
FairSpec == CcSpec /\ WF_ccvars(Node) /\ WF_ccvars(Wall) /\ WF_ccvars(killed /\ HelperDies)

-----------------------------------------------------------------------------
(* The signal never reaches a later holder of the target's number. *)
NoStrangerHit == signalled # "stranger"

(* "Nothing was signalled" is true, and stays true: the helper is over. *)
UntouchedIfSaidSo ==
  result \in {"refused", "not-signalled"} => signalled = "nobody" /\ ~Running

(* "SIGTERM was requested through the pidfd and THAT process's exit was
   observed." *)
ExitedIsTrue == result = "exited" => signalled = "target" /\ holder # "target"

(* The receipt of a retirement tells the truth about the target. *)
ReceiptIsTrue == UntouchedIfSaidSo /\ ExitedIsTrue

(* `go` is written while the fd pins the process that the witness, read again
   at that moment, names, and never after an abort or a latched failure. *)
GoIsFresh ==
  [][sent # "go" /\ sent' = "go" => /\ witness = "bound" /\ holder = "target" /\ fd = "target"
                                    /\ ~aborted /\ ~Terminal]_ccvars

(* The adapter gives a true receipt, which is all that Retire supposes of it. *)
CcReceipt == INSTANCE TrueReceipt WITH
               Untouched <- {"refused", "not-signalled"}, Acted <- {"exited"}, Open <- {"unknown"},
               answer <- result, acts <- IF signalled = "nobody" THEN 0 ELSE 1
CcGivesReceipt == CcReceipt!Spec

(* The request ends even if the helper hangs. *)
AlwaysAnswers == <>(npc = "answered")

(* What makes these inductive.  The number never comes back to the target, so
   a pidfd that was opened before its key was compared pins it; `go` is on its
   way only if it was written; and what the helper has said, read or not, tells
   where it is and whether it has signalled. *)
Pinned ==
  /\ fd # "nobody" /\ holder = "target" => fd = "target"
  /\ hpc \in {"none", "open"} => fd = "nobody"
  /\ hpc \in {"key", "poll", "control", "recheck", "signal"} => fd # "nobody"
  /\ hpc \in {"poll", "control", "recheck", "signal", "requested", "wait"} => fd = "target"
  /\ signalled # "nobody" => signalled = "target" /\ fd = "target" /\ control = "go"

Exchange ==
  /\ npc = "begin" => hpc = "none" /\ sent = "none"
  /\ hpc = "none" => npc # "exchange" /\ result \in {"none", "refused"}
  /\ npc = "answered" => hpc \in {"none", "over"}
  /\ npc # "answered" => result = "none"
  /\ control = "go" => sent = "go"
  /\ hpc \in {"recheck", "signal", "requested", "wait"} => control = "go"
  /\ clean => hpc = "over"

said == lines \o out

(* Its last word and its signal go together. *)
LastWord ==
  \/ said \in {<<"refused">>, <<"already-exited">>} /\ signalled = "nobody"
  \/ /\ said \in {<<"ready", x>> : x \in Ended} /\ signalled = "nobody"
  \/ /\ said \in {<<"ready", "signal-requested", x>> : x \in Ended} /\ signalled = "target"
     /\ said[3] = "exited" => holder # "target"

Script ==
  /\ hpc \in {"none", "open", "key", "poll"} => said = <<>> /\ signalled = "nobody"
  /\ hpc \in {"control", "recheck", "signal"} => said = <<"ready">> /\ signalled = "nobody"
  /\ hpc = "requested" => said = <<"ready">> /\ signalled = "target"
  /\ hpc = "wait" => said = <<"ready", "signal-requested">> /\ signalled = "target"
  /\ hpc = "leave" \/ clean => LastWord
  /\ hpc = "over" => Len(said) <= 4
  /\ said # <<>> /\ said[1] = "ready" => fd = "target"

CcInv == Pinned /\ Exchange /\ Script /\ ReceiptIsTrue
=============================================================================
