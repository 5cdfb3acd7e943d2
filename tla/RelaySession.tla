---------------------------- MODULE RelaySession ----------------------------
(***************************************************************************)
(* One session of the relay (src/core/relay.ts): its status machine, the   *)
(* two participants, consent and withdrawal, recorder arming, provider     *)
(* preparation, the cursor-ordered tail of evidence operations, the        *)
(* failure of the evidence store, and the end of the session.              *)
(*                                                                         *)
(* The relay runs on one JavaScript thread.  A handler is cut at its       *)
(* awaits: each action below is the code between two awaits.  Four         *)
(* activities interleave:                                                  *)
(*    cmd      the command tail (start, pause, resume, consent, arm)       *)
(*    ingress  the loop over media events of the participants              *)
(*    prep     the background preparation of the translation provider      *)
(*    end      finishEnd, started at most once                             *)
(* at[p] names the await at which activity p is suspended.                 *)
(*                                                                         *)
(* Status changes take effect when their event has been persisted: an      *)
(* activity appends an operation to evidenceOperationTail and is resumed   *)
(* after the operation left it.  Alerts, generation cuts, audio and        *)
(* transcript records change no variable of this module: they are not      *)
(* queued here one by one, and stand behind EvidenceFails only.            *)
(***************************************************************************)
EXTENDS Sequences, Integers

CONSTANTS
  Side,         \* the two participants
  MacrotaskIO   \* TRUE: a persist or an adapter call needs a turn of the
                \* event loop (the encrypted store), so every continuation
                \* that is ready runs first.  FALSE: it may settle within the
                \* same turn (the in-memory store of the benchmark harness).

ASSUME MacrotaskIOAssumption == MacrotaskIO \in BOOLEAN

Lane == {"A_TO_B", "B_TO_A"}
Activity == {"cmd", "ingress", "prep", "end"}
Status == {"waiting", "ready", "active", "paused", "closing", "closed"}

\* Sessions that a participant is, or may at once be, heard in.
Live == {"ready", "active", "paused"}

Readiness == {"none", "accepted", "stopped"}
ArmState == {"awaiting_consents", "unarmed", "arming", "armed", "failed"}

VARIABLES
  status,         \* runtime.status, the public status
  control,        \* runtime.controlStatus: a transition reserved, not yet durable
  ingressStopped, \* runtime.ingressStopped
  connected,      \* runtime.connected
  readiness,      \* runtime.participantReadiness, up to what the checks tell apart
  consent,        \* runtime.consent
  arm,            \* runtime.recorderArmState
  provider,       \* lanes whose runtime.providerReadiness is defined
  pausedReady,    \* runtime.pausedFromAcceptedReadiness
  failed,         \* runtime.evidenceFailureStarted
  tail,           \* evidenceOperationTail: the operations not yet settled
  at,             \* where each activity is suspended
  receipts,       \* sides whose withdrawal event was persisted
  finalization    \* runtime.evidenceFinalization

vars == <<status, control, ingressStopped, connected, readiness, consent, arm,
          provider, pausedReady, failed, tail, at, receipts,
          finalization>>

participants == <<connected, readiness, consent>>
lifecycle    == <<status, control, ingressStopped>>
evidence     == <<failed, receipts, finalization>>

CmdPlace == {"idle", "start_existing", "start_begin", "start_prep",
             "start_check", "start_status", "pause_status",
             "resume_existing", "resume_begin", "resume_prep", "resume_check",
             "resume_status", "consent_event", "consent_arm",
             "consent_status", "arm_arming", "arm_preflight", "arm_event",
             "arm_tracks", "arm_armed", "arm_status", "arm_failed"}
IngressPlace == {"idle", "state_event", "drop_event", "drop_status",
                 "readiness_event", "ingress_status", "stopped"}
PrepPlace == {"none", "calling", "emit_A_TO_B", "emit_B_TO_A", "prep_status",
              "prep_alert"}
EndPlace == {"none", "cleanup", "closing_event", "background", "closed_event",
             "drain", "finalizing", "session_closed", "done"}

\* The operations of the tail: an event to persist and what its callback does.
Op == [kind : {"status", "control"}, owner : Activity, to : Status, prev : Status]
        \cup [kind : {"connection"}, owner : {"ingress"}, side : Side, to : BOOLEAN]
        \cup [kind : {"readiness"}, owner : {"ingress"}, side : Side, to : Readiness]
        \cup [kind : {"consent"}, owner : {"cmd"}, side : Side]
        \cup [kind : {"arm"}, owner : {"cmd"}, to : ArmState]
        \cup [kind : {"provider"}, owner : {"prep"}, lane : Lane]
        \cup [kind : {"withdrawal"}, owner : {"none"}, side : Side]
        \cup [kind : {"event"}, owner : Activity]

TypeOK ==
  /\ status \in Status
  /\ control \in Status \cup {"none"}
  /\ ingressStopped \in BOOLEAN
  /\ connected \in [Side -> BOOLEAN]
  /\ readiness \in [Side -> Readiness]
  /\ consent \in [Side -> {"none", "given", "withdrawn"}]
  /\ arm \in ArmState
  /\ provider \in SUBSET Lane
  /\ pausedReady \in BOOLEAN
  /\ failed \in BOOLEAN
  /\ tail \in Seq(Op)
  /\ at \in [Activity -> CmdPlace \cup IngressPlace \cup PrepPlace \cup EndPlace]
  /\ at["cmd"] \in CmdPlace /\ at["ingress"] \in IngressPlace
  /\ at["prep"] \in PrepPlace /\ at["end"] \in EndPlace
  /\ receipts \in SUBSET Side
  /\ finalization \in {"none", "sealed", "failed"}

Init ==
  /\ status = "waiting" /\ control = "none" /\ ingressStopped = FALSE
  /\ connected = [s \in Side |-> FALSE]
  /\ readiness = [s \in Side |-> "none"]
  /\ consent = [s \in Side |-> "none"]
  /\ arm = "awaiting_consents"
  /\ provider = {}
  /\ pausedReady = FALSE
  /\ failed = FALSE
  /\ tail = <<>>
  /\ at = [p \in Activity |-> IF p \in {"prep", "end"} THEN "none" ELSE "idle"]
  /\ receipts = {} /\ finalization = "none"

-----------------------------------------------------------------------------
(***************************************************************************)
(* Conditions of the code.                                                 *)
(***************************************************************************)
Ending == at["end"] # "none"                     \* runtime.endTask !== undefined
Terminating == status \in {"closing", "closed"}

AllConsents == \A s \in Side : consent[s] = "given"
AcceptedReadiness(s) == readiness[s] = "accepted"
ResumeReadiness(s) == AcceptedReadiness(s) \/ (pausedReady /\ readiness[s] = "stopped")

\* Mutant of NonProviderPrerequisites: the recorder is not looked at.
UnarmedPrerequisites(allowPaused) ==
  /\ AllConsents
  /\ \A s \in Side : connected[s]
  /\ \A s \in Side : IF allowPaused THEN ResumeReadiness(s) ELSE AcceptedReadiness(s)

NonProviderPrerequisites(allowPaused) ==
  /\ AllConsents
  /\ \A s \in Side : connected[s]
  /\ \A s \in Side : IF allowPaused THEN ResumeReadiness(s) ELSE AcceptedReadiness(s)
  /\ arm = "armed"

ProviderReady == provider = Lane
ReadyPrerequisites == NonProviderPrerequisites(FALSE) /\ ProviderReady
ResumePrerequisites == NonProviderPrerequisites(TRUE) /\ ProviderReady

-----------------------------------------------------------------------------
(***************************************************************************)
(* The tail, and the turns of the event loop.                              *)
(***************************************************************************)

\* p awaits an operation of the tail that has not settled.
Pending(p) == \E i \in DOMAIN tail : tail[i].owner = p

\* The places where an activity awaits one of its own tail operations.
AwaitsTail ==
  {"start_status", "pause_status", "resume_status", "consent_event",
   "consent_arm", "consent_status", "arm_arming", "arm_event", "arm_armed",
   "arm_status", "arm_failed", "state_event", "drop_event", "drop_status",
   "readiness_event", "ingress_status", "emit_A_TO_B", "emit_B_TO_A",
   "prep_status", "prep_alert", "closing_event", "closed_event",
   "session_closed"}

\* A continuation of p is in the microtask queue.
Runnable(p) ==
  \/ at[p] \in {"start_begin", "start_check", "resume_begin", "resume_check"}
  \/ at[p] \in AwaitsTail /\ ~Pending(p)

\* What arrives from outside the thread finds the microtask queue empty.
NewTurn == MacrotaskIO => \A p \in Activity : ~Runnable(p)

Enqueue(op) == tail' = Append(tail, op)

StatusOp(p, to) == [kind |-> "status", owner |-> p, to |-> to, prev |-> status]
ControlOp(p, to) == [kind |-> "control", owner |-> p, to |-> to, prev |-> status]
EventOp(p) == [kind |-> "event", owner |-> p]

\* p is resumed: its operation settled, or timed out, which fails the evidence.
Resumed(p, place) == at[p] = place /\ (~Pending(p) \/ failed)

Goto(p, place) == [at EXCEPT ![p] = place]

\* Mutant of PrepDone: a resume that awaits the task is not resumed.
PrepDoneAlone ==
  [at EXCEPT
     !["prep"] = "none",
     !["cmd"] = CASE @ = "start_existing"  -> "start_begin"
                  [] @ = "start_prep"      -> "start_check"
                  [] @ = "resume_existing" -> "resume_begin"
                  [] OTHER                 -> @]

\* The preparation task settles and resumes the command that awaits it.
PrepDone ==
  [at EXCEPT
     !["prep"] = "none",
     !["cmd"] = CASE @ = "start_existing"  -> "start_begin"
                  [] @ = "start_prep"      -> "start_check"
                  [] @ = "resume_existing" -> "resume_begin"
                  [] @ = "resume_prep"     -> "resume_check"
                  [] OTHER                 -> @]

\* Activity p has nothing more to do.
Finish(p) == CASE p = "cmd"     -> Goto("cmd", "idle")
               [] p = "ingress" -> Goto("ingress", "idle")
               [] p = "prep"    -> PrepDone

\* The part of a status callback that changes the session.
Apply(to) ==
  /\ status' = to
  /\ control' = "none"
  /\ ingressStopped' = (to \notin {"active", "waiting", "ready"})

\* Mutant of StillExpected: a transition reserved meanwhile is not looked at.
StatusUnmoved(op) == status = op.prev

\* The status did not move, nor was another transition reserved, meanwhile.
StillExpected(op) ==
  /\ status = op.prev
  /\ control = IF op.kind = "status" THEN "none" ELSE op.to

\* The head of the tail is persisted, its callback runs, its event is
\* published.  After a failure of the evidence it settles without effect.
CommitStatus(op) ==
  /\ op.kind \in {"status", "control"}
  /\ IF StillExpected(op)
     THEN Apply(op.to)
     ELSE UNCHANGED lifecycle
  /\ UNCHANGED <<participants, arm, provider, receipts>>

CommitConnection(op) ==
  /\ op.kind = "connection"
  /\ connected' = [connected EXCEPT ![op.side] = op.to]
  /\ readiness' = IF connected[op.side] # op.to
                  THEN [readiness EXCEPT ![op.side] = "none"]
                  ELSE readiness
  /\ UNCHANGED <<lifecycle, consent, arm, provider, receipts>>

CommitReadiness(op) ==
  /\ op.kind = "readiness"
  /\ readiness' = [readiness EXCEPT ![op.side] = op.to]
  /\ UNCHANGED <<lifecycle, connected, consent, arm, provider, receipts>>

CommitConsent(op) ==
  /\ op.kind = "consent"
  /\ consent' = [consent EXCEPT ![op.side] = "given"]
  /\ UNCHANGED <<lifecycle, connected, readiness, arm, provider, receipts>>

CommitArm(op) ==
  /\ op.kind = "arm"
  /\ arm' = op.to
  /\ UNCHANGED <<lifecycle, participants, provider, receipts>>

CommitProvider(op) ==
  /\ op.kind = "provider"
  /\ provider' = provider \cup {op.lane}
  /\ UNCHANGED <<lifecycle, participants, arm, receipts>>

CommitWithdrawal(op) ==
  /\ op.kind = "withdrawal"
  /\ receipts' = receipts \cup {op.side}
  /\ UNCHANGED <<lifecycle, participants, arm, provider>>

CommitEvent(op) ==
  /\ op.kind = "event"
  /\ UNCHANGED <<lifecycle, participants, arm, provider, receipts>>

Commit ==
  /\ tail # <<>>
  /\ NewTurn
  /\ tail' = Tail(tail)
  /\ IF failed
     THEN UNCHANGED <<lifecycle, participants, arm, provider, receipts>>
     ELSE LET op == Head(tail) IN
            \/ CommitStatus(op)     \/ CommitConnection(op) \/ CommitReadiness(op)
            \/ CommitConsent(op)    \/ CommitArm(op)        \/ CommitProvider(op)
            \/ CommitWithdrawal(op) \/ CommitEvent(op)
  /\ UNCHANGED <<pausedReady, failed, at, finalization>>

-----------------------------------------------------------------------------
(***************************************************************************)
(* Ending the session.  #end starts finishEnd once; beginControlStatus     *)
(* reserves closing, or takes it at once when the evidence failed.         *)
(***************************************************************************)

\* #end called with places a and tail t by code that has set failed to f.
BeginEnd(a, t, f) ==
  IF Ending
  THEN at' = a /\ tail' = t /\ UNCHANGED lifecycle
  ELSE /\ at' = [a EXCEPT !["end"] = "cleanup"]
       /\ ingressStopped' = TRUE
       /\ IF f
          THEN status' = "closing" /\ control' = "none" /\ tail' = t
          ELSE /\ control' = "closing"
               /\ tail' = Append(t, ControlOp("end", "closing"))
               /\ UNCHANGED status

\* #failEvidence by an activity that moves to places a.
FailEvidence(a) == failed' = TRUE /\ BeginEnd(a, tail, TRUE)

\* An operation in flight is refused, rejected or times out.  Until the
\* evidence is drained that may be an alert, a cut or an audio record.
EvidenceFails ==
  /\ ~failed
  /\ NewTurn
  /\ \/ at["end"] \notin {"finalizing", "session_closed", "done"}
     \/ at["cmd"] \in {"arm_preflight", "arm_tracks"}
     \/ tail # <<>>
  /\ FailEvidence(at)
  /\ UNCHANGED <<participants, arm, provider, pausedReady, receipts,
                 finalization>>

\* The operator ends the session, or a pause's, a cut's or an end's playout
\* clear fails: each of them calls #end and does nothing else here.
End ==
  /\ ~Ending
  /\ NewTurn
  /\ BeginEnd(at, tail, FALSE)
  /\ UNCHANGED <<participants, arm, provider, pausedReady, evidence>>

\* Mutant of Withdraw: the end waits for the event to be durable.
WithdrawLater(s) ==
  /\ NewTurn
  /\ consent[s] = "given"
  /\ \A t \in Side : consent[t] # "withdrawn"
  /\ ~Terminating
  /\ consent' = [consent EXCEPT ![s] = "withdrawn"]
  /\ Enqueue([kind |-> "withdrawal", owner |-> "none", side |-> s])
  /\ UNCHANGED <<lifecycle, connected, readiness, arm, provider, pausedReady, at, evidence>>

\* reserveWithdrawal: consent is gone at once, its event is queued, then #end.
Withdraw(s) ==
  /\ NewTurn
  /\ consent[s] = "given"
  /\ \A t \in Side : consent[t] # "withdrawn"
  /\ ~Terminating
  /\ consent' = [consent EXCEPT ![s] = "withdrawn"]
  /\ BeginEnd(at,
              Append(tail, [kind |-> "withdrawal", owner |-> "none", side |-> s]),
              failed)
  /\ UNCHANGED <<connected, readiness, arm, provider, pausedReady, evidence>>

\* Both adapters closed the session, or the bound on their cleanup passed.
EndCleaned ==
  /\ at["end"] = "cleanup"
  /\ NewTurn
  /\ at' = Goto("end", "closing_event")
  /\ UNCHANGED <<lifecycle, participants, arm, provider, pausedReady, tail, evidence>>

EndClosingSettled ==
  /\ Resumed("end", "closing_event")
  /\ at' = Goto("end", "background")
  /\ control' = IF failed /\ control = "closing" THEN "none" ELSE control
  /\ UNCHANGED <<status, ingressStopped, participants, arm, provider,
                 pausedReady, tail, evidence>>

CloseNow == status' = "closed" /\ control' = "none" /\ ingressStopped' = TRUE

\* setStatus("closed") from finishEnd, when f tells whether the evidence failed.
SetClosed(f) ==
  IF f
  THEN CloseNow /\ at' = Goto("end", "drain") /\ UNCHANGED tail
  ELSE /\ Enqueue(StatusOp("end", "closed"))
       /\ at' = Goto("end", "closed_event")
       /\ UNCHANGED lifecycle

BackgroundSettled == at["ingress"] = "stopped" /\ at["prep"] = "none"

EndBackgroundDrained ==
  /\ at["end"] = "background"
  /\ BackgroundSettled
  /\ SetClosed(failed)
  /\ UNCHANGED <<participants, arm, provider, pausedReady, evidence>>

EndBackgroundTimeout ==
  /\ at["end"] = "background"
  /\ ~BackgroundSettled
  /\ NewTurn
  /\ failed' = TRUE
  /\ SetClosed(TRUE)
  /\ UNCHANGED <<participants, arm, provider, pausedReady, receipts,
                 finalization>>

\* Mutant of EndClosed: a failure of the event is not caught.
EndClosedUncaught ==
  /\ Resumed("end", "closed_event")
  /\ ~failed
  /\ at' = Goto("end", "drain")
  /\ UNCHANGED <<lifecycle, participants, arm, provider, pausedReady, tail, evidence>>

EndClosed ==
  /\ Resumed("end", "closed_event")
  /\ at' = Goto("end", "drain")
  /\ IF failed THEN CloseNow ELSE UNCHANGED lifecycle
  /\ UNCHANGED <<participants, arm, provider, pausedReady, tail, evidence>>

\* Mutant of EndDrained: the end awaits its own operations only.
EndDrainedAlone ==
  /\ at["end"] = "drain"
  /\ ~Pending("end")
  /\ at' = Goto("end", "finalizing")
  /\ UNCHANGED <<lifecycle, participants, arm, provider, pausedReady, tail, evidence>>

EndDrained ==
  /\ at["end"] = "drain"
  /\ tail = <<>>
  /\ at' = Goto("end", "finalizing")
  /\ UNCHANGED <<lifecycle, participants, arm, provider, pausedReady, tail, evidence>>

EndDrainTimeout ==
  /\ at["end"] = "drain"
  /\ tail # <<>>
  /\ NewTurn
  /\ failed' = TRUE
  /\ at' = Goto("end", "finalizing")
  /\ UNCHANGED <<lifecycle, participants, arm, provider, pausedReady, tail,
                 receipts, finalization>>

\* The store seals the session, or fails, or does not settle in time.
Finalize(sealed) ==
  /\ at["end"] = "finalizing"
  /\ NewTurn
  /\ finalization' = IF sealed /\ ~failed THEN "sealed" ELSE "failed"
  /\ IF failed
     THEN at' = Goto("end", "done") /\ UNCHANGED tail
     ELSE at' = Goto("end", "session_closed") /\ Enqueue(EventOp("end"))
  /\ UNCHANGED <<lifecycle, participants, arm, provider, pausedReady, failed,
                 receipts>>

EndAnnounced ==
  /\ Resumed("end", "session_closed")
  /\ at' = Goto("end", "done")
  /\ UNCHANGED <<lifecycle, participants, arm, provider, pausedReady, tail, evidence>>

EndNext ==
  \/ End \/ \E s \in Side : Withdraw(s)
  \/ EndCleaned \/ EndClosingSettled
  \/ EndBackgroundDrained \/ EndBackgroundTimeout
  \/ EndClosed \/ EndDrained \/ EndDrainTimeout
  \/ \E sealed \in BOOLEAN : Finalize(sealed)
  \/ EndAnnounced

-----------------------------------------------------------------------------
(***************************************************************************)
(* Readiness and the preparation of the translation provider.              *)
(***************************************************************************)

\* The places after beginProviderPreparation, called with places a.
BeginPreparation(a, allowPaused, ready) ==
  IF /\ a["prep"] = "none"
     /\ NonProviderPrerequisites(allowPaused)
     /\ ready # Lane
  THEN [a EXCEPT !["prep"] = "calling"]
  ELSE a

\* updateReadiness called by p, which awaits a status change at place.
UpdateReadiness(p, place) ==
  \/ /\ status = "ready"
     /\ ~NonProviderPrerequisites(FALSE)
     /\ Enqueue(StatusOp(p, "waiting"))
     /\ at' = Goto(p, place)
  \/ /\ status \in {"waiting", "ready"}
     /\ NonProviderPrerequisites(FALSE)
     /\ ~ProviderReady
     /\ at' = IF p = "prep" THEN Finish(p) ELSE BeginPreparation(Finish(p), FALSE, provider)
     /\ UNCHANGED tail
  \/ /\ status = "waiting"
     /\ ReadyPrerequisites
     /\ Enqueue(StatusOp(p, "ready"))
     /\ at' = Goto(p, place)
  \/ /\ \/ status \notin {"waiting", "ready"}
        \/ status = "waiting" /\ ~NonProviderPrerequisites(FALSE)
        \/ status = "ready" /\ ReadyPrerequisites
     /\ at' = Finish(p)
     /\ UNCHANGED tail

PrepareSettles ==
  /\ at["prep"] = "calling"
  /\ NewTurn
  /\ IF Terminating
     THEN at' = PrepDone /\ UNCHANGED tail
     ELSE /\ Enqueue([kind |-> "provider", owner |-> "prep", lane |-> "A_TO_B"])
          /\ at' = Goto("prep", "emit_A_TO_B")
  /\ UNCHANGED <<lifecycle, participants, arm, provider, pausedReady, evidence>>

PrepareFails ==
  /\ at["prep"] = "calling"
  /\ NewTurn
  /\ IF Terminating
     THEN at' = PrepDone /\ UNCHANGED tail
     ELSE Enqueue(EventOp("prep")) /\ at' = Goto("prep", "prep_alert")
  /\ UNCHANGED <<lifecycle, participants, arm, provider, pausedReady, evidence>>

PrepareEmitted ==
  /\ \/ /\ Resumed("prep", "emit_A_TO_B")
        /\ IF failed \/ Terminating
           THEN at' = PrepDone /\ UNCHANGED tail
           ELSE /\ Enqueue([kind |-> "provider", owner |-> "prep", lane |-> "B_TO_A"])
                /\ at' = Goto("prep", "emit_B_TO_A")
     \/ /\ Resumed("prep", "emit_B_TO_A")
        /\ IF failed \/ Terminating
           THEN at' = PrepDone /\ UNCHANGED tail
           ELSE UpdateReadiness("prep", "prep_status")
     \/ /\ Resumed("prep", "prep_status")
        /\ at' = PrepDone /\ UNCHANGED tail
  /\ UNCHANGED <<lifecycle, participants, arm, provider, pausedReady, evidence>>

PrepareFailureReported ==
  /\ Resumed("prep", "prep_alert")
  /\ IF failed
     THEN at' = PrepDone /\ UNCHANGED <<tail, lifecycle>>
     ELSE BeginEnd(PrepDone, tail, FALSE)
  /\ UNCHANGED <<participants, arm, provider, pausedReady, evidence>>

PrepNext == PrepareSettles \/ PrepareFails \/ PrepareEmitted \/ PrepareFailureReported

-----------------------------------------------------------------------------
(***************************************************************************)
(* The command tail.  A command whose turn comes after #end is refused.    *)
(***************************************************************************)
CommandTurn == at["cmd"] = "idle" /\ ~Ending /\ NewTurn

\* refreshProviderPreparation once no task is awaited: forget, then prepare.
Refresh(allowPaused, place) ==
  /\ provider' = {}
  /\ LET a == BeginPreparation(at, allowPaused, {}) IN
       at' = [a EXCEPT !["cmd"] = IF a["prep"] = "none" THEN "idle" ELSE place]

BeginRefresh(allowPaused, existing, place) ==
  IF at["prep"] # "none"
  THEN at' = Goto("cmd", existing) /\ UNCHANGED provider
  ELSE Refresh(allowPaused, place)

Start ==
  /\ CommandTurn
  /\ status = "ready" /\ ReadyPrerequisites
  /\ BeginRefresh(FALSE, "start_existing", "start_prep")
  /\ UNCHANGED <<lifecycle, participants, arm, pausedReady, tail, evidence>>

Resume ==
  /\ CommandTurn
  /\ status = "paused" /\ ResumePrerequisites
  /\ BeginRefresh(TRUE, "resume_existing", "resume_prep")
  /\ UNCHANGED <<lifecycle, participants, arm, pausedReady, tail, evidence>>

\* The task found by the refresh has settled.
RefreshContinues ==
  /\ at["cmd"] \in {"start_begin", "resume_begin"}
  /\ IF Terminating
     THEN at' = Goto("cmd", "idle") /\ UNCHANGED provider
     ELSE IF at["cmd"] = "start_begin"
          THEN Refresh(FALSE, "start_prep")
          ELSE Refresh(TRUE, "resume_prep")
  /\ UNCHANGED <<lifecycle, participants, arm, pausedReady, tail, evidence>>

StartPrepared ==
  /\ at["cmd"] = "start_check"
  /\ IF status = "ready" /\ ReadyPrerequisites /\ ~failed
     THEN Enqueue(StatusOp("cmd", "active")) /\ at' = Goto("cmd", "start_status")
     ELSE at' = Goto("cmd", "idle") /\ UNCHANGED tail
  /\ UNCHANGED <<lifecycle, participants, arm, provider, pausedReady, evidence>>

\* beginControlStatus by a command.
BeginControl(to, place) ==
  /\ Enqueue(ControlOp("cmd", to))
  /\ control' = to
  /\ ingressStopped' = TRUE
  /\ at' = Goto("cmd", place)
  /\ UNCHANGED status

\* The test of the code is repeated after the refresh, but for the end task.
ResumePrepared ==
  /\ at["cmd"] = "resume_check"
  /\ IF status = "paused" /\ ResumePrerequisites
     THEN BeginControl("active", "resume_status")
     ELSE at' = Goto("cmd", "idle") /\ UNCHANGED <<tail, lifecycle>>
  /\ UNCHANGED <<participants, arm, provider, pausedReady, evidence>>

Pause ==
  /\ CommandTurn
  /\ status = "active"
  /\ pausedReady' = \A s \in Side : AcceptedReadiness(s)
  /\ BeginControl("paused", "pause_status")
  /\ UNCHANGED <<participants, arm, provider, evidence>>

\* The status event of a start, pause or resume settled.
ControlSettled ==
  /\ \E place \in {"start_status", "pause_status", "resume_status"} :
       Resumed("cmd", place)
  /\ control' = IF failed /\ \/ at["cmd"] = "pause_status" /\ control = "paused"
                             \/ at["cmd"] = "resume_status" /\ control = "active"
                THEN "none" ELSE control
  /\ at' = Goto("cmd", "idle")
  /\ UNCHANGED <<status, ingressStopped, participants, arm, provider,
                 pausedReady, tail, evidence>>

Consent(s) ==
  /\ CommandTurn
  /\ status \in {"waiting", "ready"}
  /\ consent[s] = "none"
  /\ Enqueue([kind |-> "consent", owner |-> "cmd", side |-> s])
  /\ at' = Goto("cmd", "consent_event")
  /\ UNCHANGED <<lifecycle, participants, arm, provider, pausedReady, evidence>>

ArmOp(to) == [kind |-> "arm", owner |-> "cmd", to |-> to]

ConsentRecorded ==
  /\ \/ /\ Resumed("cmd", "consent_event")
        /\ IF failed
           THEN at' = Goto("cmd", "idle") /\ UNCHANGED tail
           ELSE IF AllConsents /\ arm # "unarmed"
                THEN Enqueue(ArmOp("unarmed")) /\ at' = Goto("cmd", "consent_arm")
                ELSE UpdateReadiness("cmd", "consent_status")
     \/ /\ Resumed("cmd", "consent_arm")
        /\ IF failed
           THEN at' = Goto("cmd", "idle") /\ UNCHANGED tail
           ELSE UpdateReadiness("cmd", "consent_status")
     \/ /\ Resumed("cmd", "consent_status")
        /\ at' = Goto("cmd", "idle") /\ UNCHANGED tail
  /\ UNCHANGED <<lifecycle, participants, arm, provider, pausedReady, evidence>>

CanArm == status = "waiting" /\ AllConsents /\ \A s \in Side : connected[s]

ArmRecorder ==
  /\ CommandTurn
  /\ CanArm /\ arm = "unarmed"
  /\ Enqueue(ArmOp("arming")) /\ at' = Goto("cmd", "arm_arming")
  /\ UNCHANGED <<lifecycle, participants, arm, provider, pausedReady, evidence>>

\* The steps of arm_recorder between its awaits, while the evidence is intact.
ArmArming ==
  /\ Resumed("cmd", "arm_arming")
  /\ at' = Goto("cmd", IF failed THEN "idle" ELSE "arm_preflight")
  /\ UNCHANGED <<lifecycle, participants, arm, provider, pausedReady, tail, evidence>>

\* preflightRecorder returned and its record was persisted; its event is next.
ArmPreflight ==
  /\ at["cmd"] = "arm_preflight"
  /\ NewTurn
  /\ IF failed
     THEN at' = Goto("cmd", "idle") /\ UNCHANGED tail
     ELSE Enqueue(EventOp("cmd")) /\ at' = Goto("cmd", "arm_event")
  /\ UNCHANGED <<lifecycle, participants, arm, provider, pausedReady, evidence>>

ArmPreflightRecorded ==
  /\ Resumed("cmd", "arm_event")
  /\ ~failed
  /\ at' = Goto("cmd", "arm_tracks")
  /\ UNCHANGED <<lifecycle, participants, arm, provider, pausedReady, tail, evidence>>

\* The four tracks were armed and flushed: the conditions are tested again.
ArmFlushed ==
  /\ at["cmd"] = "arm_tracks"
  /\ NewTurn
  /\ ~failed
  /\ IF CanArm /\ arm = "arming"
     THEN Enqueue(ArmOp("armed")) /\ at' = Goto("cmd", "arm_armed")
     ELSE IF status = "waiting" /\ arm = "arming"
          THEN Enqueue(ArmOp("failed")) /\ at' = Goto("cmd", "arm_failed")
          ELSE at' = Goto("cmd", "idle") /\ UNCHANGED tail
  /\ UNCHANGED <<lifecycle, participants, arm, provider, pausedReady, evidence>>

ArmSettled ==
  /\ \/ /\ Resumed("cmd", "arm_armed")
        /\ IF failed
           THEN at' = Goto("cmd", "idle") /\ UNCHANGED tail
           ELSE UpdateReadiness("cmd", "arm_status")
     \/ /\ \/ Resumed("cmd", "arm_status")
           \/ Resumed("cmd", "arm_failed")
           \/ failed /\ (Resumed("cmd", "arm_event") \/ at["cmd"] = "arm_tracks")
        /\ at' = Goto("cmd", "idle") /\ UNCHANGED tail
  /\ UNCHANGED <<lifecycle, participants, arm, provider, pausedReady, evidence>>

\* The preflight, a record of it or the flush fails, or the recorder is not ready.
ArmFails ==
  /\ ~failed
  /\ \/ at["cmd"] \in {"arm_preflight", "arm_tracks"} /\ NewTurn
     \/ Resumed("cmd", "arm_event")
  /\ FailEvidence(Goto("cmd", "idle"))
  /\ UNCHANGED <<participants, arm, provider, pausedReady, receipts,
                 finalization>>

CmdNext ==
  \/ Start \/ Pause \/ Resume \/ ArmRecorder \/ \E s \in Side : Consent(s)
  \/ RefreshContinues \/ StartPrepared \/ ResumePrepared \/ ControlSettled
  \/ ConsentRecorded \/ ArmArming \/ ArmPreflight \/ ArmPreflightRecorded
  \/ ArmFlushed \/ ArmSettled \/ ArmFails

-----------------------------------------------------------------------------
(***************************************************************************)
(* The ingress loop: it awaits the handler of one event before the next.   *)
(***************************************************************************)
\* After the abort of finishEnd the adapter delivers at most the disconnects
\* and stops it still holds for a participant (browser-websocket.ts withAbort).
IngressTurn(s, leaving) ==
  /\ at["ingress"] = "idle"
  /\ Ending => leaving
  /\ NewTurn
  /\ ~Terminating
  /\ consent[s] = "given"

ParticipantState(s, c) ==
  /\ IngressTurn(s, ~c)
  /\ Enqueue([kind |-> "connection", owner |-> "ingress", side |-> s, to |-> c])
  /\ at' = Goto("ingress",
                IF ~c /\ connected[s] /\ status \in {"active", "paused"}
                THEN "drop_event" ELSE "state_event")
  /\ UNCHANGED <<lifecycle, participants, arm, provider, pausedReady, evidence>>

ParticipantReadiness(s, r) ==
  /\ IngressTurn(s, r = "stopped")
  /\ connected[s]
  /\ Enqueue([kind |-> "readiness", owner |-> "ingress", side |-> s, to |-> r])
  /\ at' = Goto("ingress", "readiness_event")
  /\ UNCHANGED <<lifecycle, participants, arm, provider, pausedReady, evidence>>

IngressRecorded ==
  /\ \E place \in {"state_event", "readiness_event"} : Resumed("ingress", place)
  /\ IF failed
     THEN at' = Goto("ingress", "idle") /\ UNCHANGED tail
     ELSE UpdateReadiness("ingress", "ingress_status")
  /\ UNCHANGED <<lifecycle, participants, arm, provider, pausedReady, evidence>>

\* A participant of an active or paused session disconnected.
DropRecorded ==
  /\ Resumed("ingress", "drop_event")
  /\ IF failed
     THEN at' = Goto("ingress", "idle") /\ UNCHANGED tail
     ELSE IF status = "waiting"
          THEN UpdateReadiness("ingress", "ingress_status")
          ELSE Enqueue(StatusOp("ingress", "waiting")) /\ at' = Goto("ingress", "drop_status")
  /\ UNCHANGED <<lifecycle, participants, arm, provider, pausedReady, evidence>>

\* setStatus throws after a failure: the loop over the media events is over.
DropSettled ==
  /\ \/ /\ Resumed("ingress", "drop_status")
        /\ IF failed
           THEN at' = Goto("ingress", "stopped") /\ UNCHANGED tail
           ELSE UpdateReadiness("ingress", "ingress_status")
     \/ /\ Resumed("ingress", "ingress_status")
        /\ at' = Goto("ingress", IF failed THEN "stopped" ELSE "idle")
        /\ UNCHANGED tail
  /\ UNCHANGED <<lifecycle, participants, arm, provider, pausedReady, evidence>>

\* The media adapter ends its event stream: aborted by finishEnd, or failed.
IngressEnds ==
  /\ at["ingress"] = "idle"
  /\ NewTurn
  /\ at' = Goto("ingress", "stopped")
  /\ UNCHANGED <<lifecycle, participants, arm, provider, pausedReady, tail, evidence>>

IngressNext ==
  \/ \E s \in Side, c \in BOOLEAN : ParticipantState(s, c)
  \/ \E s \in Side, r \in {"accepted", "stopped"} : ParticipantReadiness(s, r)
  \/ IngressRecorded \/ DropRecorded \/ DropSettled \/ IngressEnds

Next == Commit \/ EvidenceFails \/ EndNext \/ PrepNext \/ CmdNext \/ IngressNext

Spec == Init /\ [][Next]_vars

(***************************************************************************)
(* Fairness.  Every await of the relay is bounded: continuations run, the  *)
(* store settles an operation or its timer fires, finishEnd bounds each of *)
(* its phases, and an aborted media stream ends.  The translation adapter  *)
(* is assumed to settle the preparation it was asked for.  Nothing is      *)
(* assumed of operators and participants.                                  *)
(***************************************************************************)
IngressContinues ==
  (Ending /\ IngressEnds) \/ IngressRecorded \/ DropRecorded \/ DropSettled
CmdContinues ==
  \/ RefreshContinues \/ StartPrepared \/ ResumePrepared \/ ControlSettled
  \/ ConsentRecorded
  \/ ArmArming \/ ArmPreflight \/ ArmFails \/ ArmPreflightRecorded \/ ArmFlushed
  \/ ArmSettled
EndContinues ==
  \/ EndCleaned \/ EndClosingSettled \/ EndBackgroundDrained \/ EndBackgroundTimeout
  \/ EndClosed \/ EndDrained \/ EndDrainTimeout
  \/ \E sealed \in BOOLEAN : Finalize(sealed)
  \/ EndAnnounced

Fairness ==
  /\ WF_vars(Commit) /\ WF_vars(PrepNext)
  /\ WF_vars(IngressContinues) /\ WF_vars(CmdContinues) /\ WF_vars(EndContinues)

FairSpec == Spec /\ Fairness

-----------------------------------------------------------------------------
(***************************************************************************)
(* Properties.                                                             *)
(***************************************************************************)

\* A session that is ready, active or paused and was not told to end has the
\* consent of every participant: no interleaving of a queued status change
\* with a withdrawal leaves a running session without consent (relay.ts
\* applyCommand, reserveWithdrawal, updateReadiness).
LiveMeansConsented == status \in Live => Ending \/ AllConsents

\* A session is ready, active or paused only with its recorder armed, although
\* arming takes several awaits that withdrawals, disconnects and ends cross.
LiveMeansArmed == status \in Live => arm = "armed"

\* Evidence that is finalized as intact holds the withdrawals: when finishEnd
\* leaves its drain without a failure, the event of every withdrawal accepted so
\* far was persisted, whatever else was queued around it.
DrainCoversWithdrawal ==
  [][at["end"] = "drain" /\ at'["end"] = "finalizing" /\ ~failed' =>
       \A s \in Side : consent[s] = "withdrawn" => s \in receipts]_vars

\* What a session promises of its status, its consents and its end.
Lifecycle == INSTANCE SessionLifecycle WITH ended <- Ending

\* The status, the consents and the end of a session follow its lifecycle, from
\* its opening or from a state where it is ready: whatever an activity found before
\* it was suspended, the status change it queued takes effect as one that the
\* lifecycle has in the state it meets (relay.ts setStatus, beginControlStatus).
ImplementsLifecycle ==
  /\ Lifecycle!Init \/ (status = "ready" /\ AllConsents /\ ~Ending)
  /\ [][Lifecycle!Next]_(Lifecycle!vars)

\* docs/implementation-architecture.md:104 of a withdrawal: it cannot be
\* reversed into active.
WithdrawalIsTerminal ==
  [][(\E s \in Side : consent[s] = "withdrawn") /\ status # "active" => status' # "active"]_vars

\* docs/implementation-architecture.md:103: start cannot make a session active
\* that is not fully qualified.
StartQualified ==
  [][status = "ready" /\ status' = "active" => \A s \in Side : connected[s]]_vars

\* docs/implementation-architecture.md:94-96: an ended session is closed.
EndCloses == Ending ~> status = "closed"

\* An ended session is finalized and its end task settles, whatever the store,
\* the adapters and the pending commands do.
EndSettles == Ending ~> at["end"] = "done" /\ finalization # "none"

\* A command that reached its turn settles.
CommandsSettle == at["cmd"] # "idle" ~> at["cmd"] = "idle"

=============================================================================
