------------------------- MODULE RelaySessionProofs -------------------------
(***************************************************************************)
(* What holds of RelaySession for every set of participants and for both   *)
(* kinds of evidence store, and that a session implements its lifecycle:   *)
(* each of its steps is a step of SessionLifecycle or leaves its status,   *)
(* its consents and its end alone.                                         *)
(***************************************************************************)
EXTENDS RelaySession, SequenceTheorems, TLAPS

-----------------------------------------------------------------------------
(***************************************************************************)
(* Types.                                                                  *)
(***************************************************************************)
Places == CmdPlace \cup IngressPlace \cup PrepPlace \cup EndPlace

\* The part of TypeOK about where the activities are suspended.
AtOK(a) ==
  /\ a \in [Activity -> Places]
  /\ a["cmd"] \in CmdPlace /\ a["ingress"] \in IngressPlace
  /\ a["prep"] \in PrepPlace /\ a["end"] \in EndPlace

\* The part of TypeOK about the variables that few steps change.
RestOK ==
  /\ status \in Status
  /\ control \in Status \cup {"none"}
  /\ ingressStopped \in BOOLEAN
  /\ connected \in [Side -> BOOLEAN]
  /\ readiness \in [Side -> Readiness]
  /\ consent \in [Side -> {"none", "given", "withdrawn"}]
  /\ arm \in ArmState
  /\ provider \in SUBSET Lane
  /\ pausedReady \in BOOLEAN
  /\ failed \in BOOLEAN
  /\ receipts \in SUBSET Side
  /\ finalization \in {"none", "sealed", "failed"}

LEMMA TypeParts == TypeOK <=> RestOK /\ AtOK(at) /\ tail \in Seq(Op)
BY DEF TypeOK, RestOK, AtOK, Places

LEMMA AtIsOK == TypeOK => AtOK(at)
BY TypeParts

LEMMA GotoType ==
  ASSUME AtOK(at)
  PROVE  /\ \A q \in CmdPlace : AtOK(Goto("cmd", q))
         /\ \A q \in IngressPlace : AtOK(Goto("ingress", q))
         /\ \A q \in PrepPlace : AtOK(Goto("prep", q))
         /\ \A q \in EndPlace : AtOK(Goto("end", q))
BY DEF AtOK, Goto, Activity, Places

LEMMA PrepDoneType ==
  ASSUME AtOK(at)
  PROVE  AtOK(PrepDone)
BY DEF AtOK, PrepDone, Activity, Places, CmdPlace, PrepPlace

LEMMA FinishType ==
  ASSUME AtOK(at), NEW p \in {"cmd", "ingress", "prep"}
  PROVE  AtOK(Finish(p))
BY GotoType, PrepDoneType DEF Finish, CmdPlace, IngressPlace

LEMMA BeginPreparationType ==
  ASSUME NEW a, AtOK(a), NEW allowPaused, NEW ready
  PROVE  AtOK(BeginPreparation(a, allowPaused, ready))
BY DEF AtOK, BeginPreparation, Activity, Places, PrepPlace

\* What the activities append to the tail is an operation.
LEMMA OpType ==
  ASSUME TypeOK
  PROVE  /\ \A p \in Activity, to \in Status : StatusOp(p, to) \in Op
         /\ \A p \in Activity, to \in Status : ControlOp(p, to) \in Op
         /\ \A p \in Activity : EventOp(p) \in Op
         /\ \A to \in ArmState : ArmOp(to) \in Op
         /\ \A l \in Lane : [kind |-> "provider", owner |-> "prep", lane |-> l] \in Op
         /\ \A s \in Side :
              /\ [kind |-> "withdrawal", owner |-> "none", side |-> s] \in Op
              /\ [kind |-> "consent", owner |-> "cmd", side |-> s] \in Op
              /\ \A c \in BOOLEAN :
                   [kind |-> "connection", owner |-> "ingress", side |-> s, to |-> c] \in Op
              /\ \A r \in Readiness :
                   [kind |-> "readiness", owner |-> "ingress", side |-> s, to |-> r] \in Op
BY DEF TypeOK, Op, StatusOp, ControlOp, EventOp, ArmOp, Activity

LEMMA AppendType ==
  ASSUME NEW t \in Seq(Op), NEW op \in Op
  PROVE  Append(t, op) \in Seq(Op)
OBVIOUS

LEMMA HeadTailType ==
  ASSUME NEW t \in Seq(Op), t # <<>>
  PROVE  Head(t) \in Op /\ Tail(t) \in Seq(Op)
OBVIOUS

LEMMA BeginEndType ==
  ASSUME TypeOK, NEW a, AtOK(a), NEW t \in Seq(Op), NEW f \in BOOLEAN,
         BeginEnd(a, t, f)
  PROVE  /\ AtOK(at')
         /\ tail' \in Seq(Op)
         /\ status' \in Status
         /\ control' \in Status \cup {"none"}
         /\ ingressStopped' \in BOOLEAN
<1>1. AtOK([a EXCEPT !["end"] = "cleanup"])
  BY DEF AtOK, Activity, Places, EndPlace
<1>2. ControlOp("end", "closing") \in Op
  BY OpType DEF Status, Activity
<1>3. Append(t, ControlOp("end", "closing")) \in Seq(Op)
  BY <1>2, AppendType
<1>. QED
  BY <1>1, <1>3 DEF BeginEnd, TypeOK, lifecycle, Status

LEMMA UpdateReadinessType ==
  ASSUME TypeOK, NEW p \in {"cmd", "ingress", "prep"}, NEW place,
         AtOK(Goto(p, place)), UpdateReadiness(p, place)
  PROVE  AtOK(at') /\ tail' \in Seq(Op)
<1>1. AtOK(Finish(p)) /\ AtOK(BeginPreparation(Finish(p), FALSE, provider))
  BY AtIsOK, FinishType, BeginPreparationType
<1>2. Append(tail, StatusOp(p, "waiting")) \in Seq(Op)
      /\ Append(tail, StatusOp(p, "ready")) \in Seq(Op)
  BY OpType, AppendType DEF Status, TypeOK, Activity
<1>. QED
  BY <1>1, <1>2 DEF UpdateReadiness, Enqueue, TypeOK

-----------------------------------------------------------------------------
(***************************************************************************)
(* Every step keeps the types.                                             *)
(***************************************************************************)
LEMMA CommitKeepsTypes == TypeOK /\ Commit => TypeOK'
<1>. SUFFICES ASSUME TypeOK, Commit PROVE RestOK' /\ AtOK(at)' /\ (tail \in Seq(Op))'
  BY TypeParts, PTL
<1>1. tail' \in Seq(Op) /\ Head(tail) \in Op
  BY HeadTailType DEF TypeOK, Commit
<1>2. RestOK /\ AtOK(at) /\ at' = at /\ UNCHANGED <<pausedReady, failed, finalization>>
  BY TypeParts DEF Commit
<1>3. CASE failed
  BY <1>1, <1>2, <1>3 DEF Commit, RestOK, AtOK, lifecycle, participants
<1>4. CASE ~failed
  <2>. DEFINE op == Head(tail)
  <2>2. CASE CommitStatus(op)
    <3>1. op.to \in Status
      BY <1>1, <2>2 DEF CommitStatus, Op
    <3>. QED
      BY <1>1, <1>2, <2>2, <3>1
      DEF CommitStatus, StillExpected, Apply, RestOK, AtOK, lifecycle, participants
  <2>3. CASE CommitConnection(op)
    <3>1. op.to \in BOOLEAN
      BY <1>1, <2>3 DEF CommitConnection, Op
    <3>. QED
      BY <1>1, <1>2, <2>3, <3>1 DEF CommitConnection, RestOK, AtOK, lifecycle, Readiness
  <2>4. CASE CommitReadiness(op)
    <3>1. op.to \in Readiness
      BY <1>1, <2>4 DEF CommitReadiness, Op
    <3>. QED
      BY <1>1, <1>2, <2>4, <3>1 DEF CommitReadiness, RestOK, AtOK, lifecycle
  <2>5. CASE CommitConsent(op)
    BY <1>1, <1>2, <2>5 DEF CommitConsent, RestOK, AtOK, lifecycle
  <2>6. CASE CommitArm(op)
    <3>1. op.to \in ArmState
      BY <1>1, <2>6 DEF CommitArm, Op
    <3>. QED
      BY <1>1, <1>2, <2>6, <3>1 DEF CommitArm, RestOK, AtOK, lifecycle, participants
  <2>7. CASE CommitProvider(op)
    <3>1. op.lane \in Lane
      BY <1>1, <2>7 DEF CommitProvider, Op
    <3>. QED
      BY <1>1, <1>2, <2>7, <3>1 DEF CommitProvider, RestOK, AtOK, lifecycle, participants
  <2>8. CASE CommitWithdrawal(op)
    <3>1. op.side \in Side
      BY <1>1, <2>8 DEF CommitWithdrawal, Op
    <3>. QED
      BY <1>1, <1>2, <2>8, <3>1 DEF CommitWithdrawal, RestOK, AtOK, lifecycle, participants
  <2>9. CASE CommitEvent(op)
    BY <1>1, <1>2, <2>9 DEF CommitEvent, RestOK, AtOK, lifecycle, participants
  <2>. QED
    BY <1>4, <2>2, <2>3, <2>4, <2>5, <2>6, <2>7, <2>8, <2>9 DEF Commit
<1>. QED
  BY <1>3, <1>4

LEMMA EndKeepsTypes == TypeOK /\ (EvidenceFails \/ EndNext) => TypeOK'
<1>. SUFFICES ASSUME TypeOK, EvidenceFails \/ EndNext
              PROVE  RestOK' /\ AtOK(at)' /\ (tail \in Seq(Op))'
  BY TypeParts, PTL
<1>1. /\ \A q \in EndPlace : AtOK(Goto("end", q))
      /\ RestOK /\ AtOK(at) /\ tail \in Seq(Op)
  BY TypeParts, GotoType
<1>. USE DEF RestOK, lifecycle, participants, evidence
<1>2. CASE EvidenceFails
  BY <1>1, <1>2, BeginEndType DEF EvidenceFails, FailEvidence
<1>3. CASE End
  BY <1>1, <1>3, BeginEndType DEF End
<1>4. ASSUME NEW s \in Side, Withdraw(s)
      PROVE  RestOK' /\ AtOK(at)' /\ (tail \in Seq(Op))'
  <2>. DEFINE t == Append(tail, [kind |-> "withdrawal", owner |-> "none", side |-> s])
  <2>1. t \in Seq(Op) /\ BeginEnd(at, t, failed) /\ failed \in BOOLEAN
    BY <1>1, <1>4, OpType, AppendType DEF Withdraw
  <2>2. /\ AtOK(at') /\ tail' \in Seq(Op) /\ status' \in Status
        /\ control' \in Status \cup {"none"} /\ ingressStopped' \in BOOLEAN
    <3>. HIDE DEF t
    <3>. QED  BY <1>1, <2>1, BeginEndType
  <2>. QED
    BY <1>1, <1>4, <2>2 DEF Withdraw
<1>5. CASE EndCleaned
  BY <1>1, <1>5 DEF EndCleaned, EndPlace
<1>6. CASE EndClosingSettled
  BY <1>1, <1>6 DEF EndClosingSettled, EndPlace
<1>7. ASSUME NEW f \in BOOLEAN, SetClosed(f)
      PROVE  /\ AtOK(at') /\ tail' \in Seq(Op) /\ status' \in Status
             /\ control' \in Status \cup {"none"} /\ ingressStopped' \in BOOLEAN
  <2>1. Append(tail, StatusOp("end", "closed")) \in Seq(Op)
    BY <1>1, OpType, AppendType DEF Status, Activity
  <2>. QED
    BY <1>1, <1>7, <2>1 DEF SetClosed, CloseNow, Enqueue, Status, EndPlace
<1>8. CASE EndBackgroundDrained
  BY <1>1, <1>7, <1>8 DEF EndBackgroundDrained
<1>9. CASE EndBackgroundTimeout
  BY <1>1, <1>7, <1>9 DEF EndBackgroundTimeout
<1>10. CASE EndClosed
  BY <1>1, <1>10 DEF EndClosed, CloseNow, Status, EndPlace
<1>11. CASE EndDrained
  BY <1>1, <1>11 DEF EndDrained, EndPlace
<1>12. CASE EndDrainTimeout
  BY <1>1, <1>12 DEF EndDrainTimeout, EndPlace
<1>13. ASSUME NEW sealed \in BOOLEAN, Finalize(sealed)
       PROVE  RestOK' /\ AtOK(at)' /\ (tail \in Seq(Op))'
  <2>1. Append(tail, EventOp("end")) \in Seq(Op)
    BY <1>1, OpType, AppendType DEF Activity
  <2>. QED
    BY <1>1, <1>13, <2>1 DEF Finalize, Enqueue, EndPlace
<1>14. CASE EndAnnounced
  BY <1>1, <1>14 DEF EndAnnounced, EndPlace
<1>. QED
  BY <1>2, <1>3, <1>4, <1>5, <1>6, <1>8, <1>9, <1>10, <1>11, <1>12, <1>13, <1>14 DEF EndNext

LEMMA PrepKeepsTypes == TypeOK /\ PrepNext => TypeOK'
<1>. SUFFICES ASSUME TypeOK, PrepNext
              PROVE  RestOK' /\ AtOK(at)' /\ (tail \in Seq(Op))'
  BY TypeParts, PTL
<1>1. /\ RestOK /\ AtOK(at) /\ tail \in Seq(Op)
      /\ \A q \in PrepPlace : AtOK(Goto("prep", q))
      /\ AtOK(PrepDone)
  BY TypeParts, GotoType, PrepDoneType
<1>2. /\ Append(tail, EventOp("prep")) \in Seq(Op)
      /\ \A l \in Lane :
           Append(tail, [kind |-> "provider", owner |-> "prep", lane |-> l]) \in Seq(Op)
  BY <1>1, OpType, AppendType DEF Activity
<1>. USE DEF RestOK, lifecycle, participants, evidence
<1>3. CASE PrepareSettles
  BY <1>1, <1>2, <1>3 DEF PrepareSettles, Enqueue, Lane, PrepPlace
<1>4. CASE PrepareFails
  BY <1>1, <1>2, <1>4 DEF PrepareFails, Enqueue, PrepPlace
<1>5. CASE PrepareEmitted
  <2>1. UpdateReadiness("prep", "prep_status") => AtOK(at') /\ tail' \in Seq(Op)
    BY <1>1, UpdateReadinessType DEF PrepPlace
  <2>. QED
    BY <1>1, <1>2, <1>5, <2>1 DEF PrepareEmitted, Enqueue, Lane, PrepPlace
<1>6. CASE PrepareFailureReported
  BY <1>1, <1>6, BeginEndType DEF PrepareFailureReported
<1>. QED
  BY <1>3, <1>4, <1>5, <1>6 DEF PrepNext

LEMMA CmdKeepsTypes == TypeOK /\ CmdNext => TypeOK'
<1>. SUFFICES ASSUME TypeOK, CmdNext
              PROVE  RestOK' /\ AtOK(at)' /\ (tail \in Seq(Op))'
  BY TypeParts, PTL
<1>1. /\ RestOK /\ AtOK(at) /\ tail \in Seq(Op)
      /\ \A q \in CmdPlace : AtOK(Goto("cmd", q))
  BY TypeParts, GotoType
<1>2. /\ Append(tail, EventOp("cmd")) \in Seq(Op)
      /\ \A to \in ArmState : Append(tail, ArmOp(to)) \in Seq(Op)
      /\ \A to \in Status : Append(tail, StatusOp("cmd", to)) \in Seq(Op)
      /\ \A to \in Status : Append(tail, ControlOp("cmd", to)) \in Seq(Op)
      /\ \A s \in Side :
           Append(tail, [kind |-> "consent", owner |-> "cmd", side |-> s]) \in Seq(Op)
  BY <1>1, OpType, AppendType DEF Activity
<1>3. ASSUME NEW place \in {"consent_status", "arm_status"},
             UpdateReadiness("cmd", place)
      PROVE  AtOK(at') /\ tail' \in Seq(Op)
  BY <1>1, <1>3, UpdateReadinessType DEF CmdPlace
<1>4. ASSUME NEW allowPaused, NEW place \in {"start_prep", "resume_prep"},
             Refresh(allowPaused, place)
      PROVE  AtOK(at') /\ provider' \in SUBSET Lane
  <2>. DEFINE a == BeginPreparation(at, allowPaused, {})
  <2>1. AtOK(a)
    BY <1>1, BeginPreparationType
  <2>2. \A q \in CmdPlace : AtOK([a EXCEPT !["cmd"] = q])
    BY <2>1 DEF AtOK, Activity, Places
  <2>. QED
    BY <1>4, <2>2 DEF Refresh, CmdPlace
<1>. USE DEF RestOK, lifecycle, participants, evidence
<1>5. ASSUME NEW to \in {"active", "paused"}, NEW place \in CmdPlace,
             BeginControl(to, place)
      PROVE  /\ AtOK(at') /\ tail' \in Seq(Op) /\ status' \in Status
             /\ control' \in Status \cup {"none"} /\ ingressStopped' \in BOOLEAN
  BY <1>1, <1>2, <1>5 DEF BeginControl, Enqueue, Status
<1>6. CASE Start
  BY <1>1, <1>4, <1>6 DEF Start, BeginRefresh, CmdPlace
<1>7. CASE Pause
  <2>1. BeginControl("paused", "pause_status")
    BY <1>7 DEF Pause
  <2>2. "pause_status" \in CmdPlace
    BY DEF CmdPlace
  <2>. QED
    BY <1>1, <1>5, <1>7, <2>1, <2>2 DEF Pause
<1>8. CASE Resume
  BY <1>1, <1>4, <1>8 DEF Resume, BeginRefresh, CmdPlace
<1>9. CASE ArmRecorder
  BY <1>1, <1>2, <1>9 DEF ArmRecorder, Enqueue, ArmState, CmdPlace
<1>10. ASSUME NEW s \in Side, Consent(s)
       PROVE  RestOK' /\ AtOK(at)' /\ (tail \in Seq(Op))'
  BY <1>1, <1>2, <1>10 DEF Consent, Enqueue, CmdPlace
<1>11. CASE RefreshContinues
  <2>1. AtOK(at') /\ provider' \in SUBSET Lane
    <3>1. CASE Terminating
      BY <1>1, <1>11, <3>1 DEF RefreshContinues, CmdPlace
    <3>2. CASE ~Terminating
      BY <1>4, <1>11, <3>2 DEF RefreshContinues
    <3>. QED  BY <3>1, <3>2
  <2>. QED
    BY <1>1, <1>11, <2>1 DEF RefreshContinues
<1>12. CASE StartPrepared
  <2>1. Append(tail, StatusOp("cmd", "active")) \in Seq(Op)
    BY <1>2 DEF Status
  <2>2. AtOK(Goto("cmd", "idle")) /\ AtOK(Goto("cmd", "start_status"))
    BY <1>1 DEF CmdPlace
  <2>. QED
    BY <1>1, <1>12, <2>1, <2>2 DEF StartPrepared, Enqueue
<1>13. CASE ResumePrepared
  BY <1>1, <1>5, <1>13 DEF ResumePrepared, CmdPlace
<1>14. CASE ControlSettled
  BY <1>1, <1>14 DEF ControlSettled, CmdPlace
<1>15. CASE ConsentRecorded
  BY <1>1, <1>2, <1>3, <1>15 DEF ConsentRecorded, Enqueue, ArmState, CmdPlace
<1>16. CASE ArmArming
  BY <1>1, <1>16 DEF ArmArming, CmdPlace
<1>17. CASE ArmPreflight
  BY <1>1, <1>2, <1>17 DEF ArmPreflight, Enqueue, CmdPlace
<1>18. CASE ArmPreflightRecorded
  BY <1>1, <1>18 DEF ArmPreflightRecorded, CmdPlace
<1>19. CASE ArmFlushed
  BY <1>1, <1>2, <1>19 DEF ArmFlushed, Enqueue, ArmState, CmdPlace
<1>20. CASE ArmSettled
  BY <1>1, <1>3, <1>20 DEF ArmSettled, CmdPlace
<1>21. CASE ArmFails
  BY <1>1, <1>21, BeginEndType DEF ArmFails, FailEvidence, CmdPlace
<1>. QED
  BY <1>6, <1>7, <1>8, <1>9, <1>10, <1>11, <1>12, <1>13, <1>14, <1>15, <1>16,
     <1>17, <1>18, <1>19, <1>20, <1>21 DEF CmdNext

LEMMA IngressKeepsTypes == TypeOK /\ IngressNext => TypeOK'
<1>. SUFFICES ASSUME TypeOK, IngressNext
              PROVE  RestOK' /\ AtOK(at)' /\ (tail \in Seq(Op))'
  BY TypeParts, PTL
<1>1. /\ RestOK /\ AtOK(at) /\ tail \in Seq(Op)
      /\ \A q \in IngressPlace : AtOK(Goto("ingress", q))
  BY TypeParts, GotoType
<1>2. Append(tail, StatusOp("ingress", "waiting")) \in Seq(Op)
  BY <1>1, OpType, AppendType DEF Activity, Status
<1>3. UpdateReadiness("ingress", "ingress_status") => AtOK(at') /\ tail' \in Seq(Op)
  BY <1>1, UpdateReadinessType DEF IngressPlace
<1>. USE DEF RestOK, lifecycle, participants, evidence
<1>4. ASSUME NEW s \in Side, NEW c \in BOOLEAN, ParticipantState(s, c)
      PROVE  RestOK' /\ AtOK(at)' /\ (tail \in Seq(Op))'
  <2>1. Append(tail, [kind |-> "connection", owner |-> "ingress", side |-> s, to |-> c])
          \in Seq(Op)
    BY <1>1, OpType, AppendType
  <2>. QED
    BY <1>1, <1>4, <2>1 DEF ParticipantState, Enqueue, IngressPlace
<1>5. ASSUME NEW s \in Side, NEW r \in {"accepted", "stopped"}, ParticipantReadiness(s, r)
      PROVE  RestOK' /\ AtOK(at)' /\ (tail \in Seq(Op))'
  <2>1. Append(tail, [kind |-> "readiness", owner |-> "ingress", side |-> s, to |-> r])
          \in Seq(Op)
    BY <1>1, OpType, AppendType DEF Readiness
  <2>. QED
    BY <1>1, <1>5, <2>1 DEF ParticipantReadiness, Enqueue, IngressPlace
<1>6. CASE IngressRecorded
  BY <1>1, <1>3, <1>6 DEF IngressRecorded, IngressPlace
<1>7. CASE DropRecorded
  BY <1>1, <1>2, <1>3, <1>7 DEF DropRecorded, Enqueue, IngressPlace
<1>8. CASE DropSettled
  BY <1>1, <1>3, <1>8 DEF DropSettled, IngressPlace
<1>9. CASE IngressEnds
  BY <1>1, <1>9 DEF IngressEnds, IngressPlace
<1>. QED
  BY <1>4, <1>5, <1>6, <1>7, <1>8, <1>9 DEF IngressNext

\* Every reachable state of a session is of its declared types, for any set of
\* participants: no handler leaves an activity at a place of another one, or an
\* operation without an owner in the tail.
THEOREM TypeCorrect == Spec => []TypeOK
<1>1. Init => TypeOK
  <2>. SUFFICES ASSUME Init PROVE RestOK /\ AtOK(at) /\ tail \in Seq(Op)
    BY TypeParts
  <2>1. AtOK(at)
    BY DEF Init, AtOK, Activity, Places, CmdPlace, IngressPlace, PrepPlace, EndPlace
  <2>2. RestOK
    BY DEF Init, RestOK, Status, Readiness, ArmState, Lane
  <2>3. tail \in Seq(Op)
    BY DEF Init
  <2>. QED
    BY <2>1, <2>2, <2>3
<1>2. TypeOK /\ [Next]_vars => TypeOK'
  <2>. SUFFICES ASSUME TypeOK, [Next]_vars PROVE TypeOK'
    OBVIOUS
  <2>1. CASE Next
    BY <2>1, CommitKeepsTypes, EndKeepsTypes, PrepKeepsTypes, CmdKeepsTypes,
       IngressKeepsTypes DEF Next
  <2>2. CASE UNCHANGED vars
    BY <2>2 DEF vars, participants, lifecycle, evidence, TypeOK
  <2>. QED
    BY <2>1, <2>2
<1>. QED
  BY <1>1, <1>2, PTL DEF Spec

-----------------------------------------------------------------------------
(***************************************************************************)
(* Consent.  Allowed is never lost: a withdrawal ends the session in the   *)
(* same step.  So it is enough that a session for which it does not hold   *)
(* yet is not live and has no queued change of its status to a live one.   *)
(***************************************************************************)
Allowed == Ending \/ AllConsents

LiveOp(op) == op.kind \in {"status", "control"} /\ op.to \in Live

NoLiveOp(t) == \A i \in DOMAIN t : ~LiveOp(t[i])

ConsentInv == Allowed \/ (status \notin Live /\ NoLiveOp(tail))

LEMMA AppendKeepsNoLiveOp ==
  ASSUME NEW t \in Seq(Op), NoLiveOp(t), NEW op, ~LiveOp(op)
  PROVE  NoLiveOp(Append(t, op))
<1>1. /\ Len(t) \in Nat
      /\ DOMAIN t = 1 .. Len(t)
      /\ DOMAIN Append(t, op) = 1 .. Len(t) + 1
  OBVIOUS
<1>2. /\ \A i \in 1 .. Len(t) : Append(t, op)[i] = t[i]
      /\ Append(t, op)[Len(t) + 1] = op
  OBVIOUS
<1>. QED  BY <1>1, <1>2 DEF NoLiveOp

LEMMA TailKeepsNoLiveOp ==
  ASSUME NEW t \in Seq(Op), t # <<>>, NoLiveOp(t)
  PROVE  ~LiveOp(Head(t)) /\ NoLiveOp(Tail(t))
<1>1. Len(t) \in Nat /\ Len(t) >= 1 /\ DOMAIN t = 1 .. Len(t) /\ Head(t) = t[1]
  OBVIOUS
<1>2. DOMAIN Tail(t) = 1 .. Len(t) - 1 /\ \A i \in 1 .. Len(t) - 1 : Tail(t)[i] = t[i + 1]
  OBVIOUS
<1>. QED  BY <1>1, <1>2 DEF NoLiveOp

\* Only finishEnd moves the end task once it is set.
LEMMA EndKeepsPlace == TypeOK /\ Next /\ Ending => EndNext \/ at'["end"] = at["end"]
<1>. SUFFICES ASSUME TypeOK, Next, Ending, ~EndNext PROVE at'["end"] = at["end"]
  OBVIOUS
<1>1. at \in [Activity -> Places]
  BY TypeParts DEF AtOK
<1>2. \A q : /\ Goto("cmd", q)["end"] = at["end"]
             /\ Goto("ingress", q)["end"] = at["end"]
             /\ Goto("prep", q)["end"] = at["end"]
             /\ Goto("end", q)["end"] = q
  BY <1>1 DEF Goto, Activity
<1>3. PrepDone["end"] = at["end"]
  BY <1>1 DEF PrepDone, Activity
<1>4. \A p \in {"cmd", "ingress", "prep"} : Finish(p)["end"] = at["end"]
  BY <1>2, <1>3 DEF Finish
<1>5. \A a \in [Activity -> Places] : \A allow, r :
         BeginPreparation(a, allow, r)["end"] = a["end"]
  BY DEF BeginPreparation, Activity
<1>6. \A p \in {"cmd", "ingress"} : Finish(p) \in [Activity -> Places]
  BY <1>1 DEF Finish, Goto, Places, CmdPlace, IngressPlace
<1>7. \A p \in {"cmd", "ingress", "prep"} : \A q :
         UpdateReadiness(p, q) => at'["end"] = at["end"]
  <2>. SUFFICES ASSUME NEW p \in {"cmd", "ingress", "prep"}, NEW q,
                       UpdateReadiness(p, q)
                PROVE  at'["end"] = at["end"]
    OBVIOUS
  <2>1. Goto(p, q)["end"] = at["end"] /\ Finish(p)["end"] = at["end"]
    BY <1>2, <1>4
  <2>2. CASE p = "prep"
    BY <2>1, <2>2 DEF UpdateReadiness
  <2>3. CASE p # "prep"
    <3>1. BeginPreparation(Finish(p), FALSE, provider)["end"] = at["end"]
      BY <1>5, <1>6, <2>1, <2>3
    <3>2. \/ at' = Goto(p, q)
          \/ at' = Finish(p)
          \/ at' = BeginPreparation(Finish(p), FALSE, provider)
      BY <2>3 DEF UpdateReadiness
    <3>. QED  BY <2>1, <3>1, <3>2
  <2>. QED  BY <2>2, <2>3
<1>8. CASE Commit
  BY <1>8 DEF Commit, Ending
<1>9. CASE EvidenceFails
  BY <1>9 DEF EvidenceFails, FailEvidence, BeginEnd
<1>10. CASE PrepNext
  BY <1>2, <1>3, <1>7, <1>10
  DEF PrepNext, PrepareSettles, PrepareFails, PrepareEmitted,
      PrepareFailureReported, BeginEnd, Ending
<1>11. CASE CmdNext
  <2>1. \A allow, q : Refresh(allow, q) => at'["end"] = at["end"]
    BY <1>1, <1>5 DEF Refresh, BeginPreparation, Activity
  <2>2. CASE Start \/ Resume \/ RefreshContinues
    BY <1>2, <2>1, <2>2 DEF Start, Resume, RefreshContinues, BeginRefresh, Ending
  <2>3. CASE StartPrepared \/ ResumePrepared \/ Pause \/ ControlSettled
    BY <1>2, <2>3
    DEF StartPrepared, ResumePrepared, Pause, ControlSettled, BeginControl, Ending
  <2>4. CASE ConsentRecorded \/ \E s \in Side : Consent(s)
    BY <1>2, <1>7, <2>4 DEF ConsentRecorded, Consent, Ending
  <2>5. CASE ArmRecorder \/ ArmArming \/ ArmPreflight \/ ArmPreflightRecorded
    BY <1>2, <2>5
    DEF ArmRecorder, ArmArming, ArmPreflight, ArmPreflightRecorded, Ending
  <2>6. CASE ArmFlushed \/ ArmSettled
    BY <1>2, <1>7, <2>6 DEF ArmFlushed, ArmSettled, Ending
  <2>7. CASE ArmFails
    BY <1>2, <2>7 DEF ArmFails, FailEvidence, BeginEnd, Ending
  <2>. QED
    BY <1>11, <2>2, <2>3, <2>4, <2>5, <2>6, <2>7 DEF CmdNext
<1>12. CASE IngressNext
  <2>1. ASSUME NEW s \in Side, NEW c \in BOOLEAN, ParticipantState(s, c)
        PROVE  at'["end"] = at["end"]
    BY <1>2, <2>1 DEF ParticipantState, Ending
  <2>2. ASSUME NEW s \in Side, NEW r, ParticipantReadiness(s, r)
        PROVE  at'["end"] = at["end"]
    BY <1>2, <2>2 DEF ParticipantReadiness, Ending
  <2>3. CASE IngressRecorded
    BY <1>2, <1>7, <2>3 DEF IngressRecorded, Ending
  <2>4. CASE DropRecorded
    BY <1>2, <1>7, <2>4 DEF DropRecorded, Ending
  <2>5. CASE DropSettled \/ IngressEnds
    BY <1>2, <1>7, <2>5 DEF DropSettled, IngressEnds, Ending
  <2>. QED
    BY <1>12, <2>1, <2>2, <2>3, <2>4, <2>5 DEF IngressNext
<1>. QED
  BY <1>8, <1>9, <1>10, <1>11, <1>12 DEF Next

\* The end task is set once.
LEMMA EndStays == TypeOK /\ Next /\ Ending => Ending'
<1>. SUFFICES ASSUME TypeOK, Next, Ending PROVE at'["end"] # "none"
  BY DEF Ending
<1>1. at \in [Activity -> Places]
  BY TypeParts DEF AtOK
<1>2. \A q : Goto("end", q)["end"] = q
  BY <1>1 DEF Goto, Activity
<1>3. CASE ~EndNext
  BY <1>3, EndKeepsPlace DEF Ending
<1>4. CASE EndNext
  <2>1. \A a, t, f : BeginEnd(a, t, f) => at' = a
    BY DEF BeginEnd
  <2>3. CASE End
    BY <2>3 DEF End
  <2>4. ASSUME NEW s \in Side, Withdraw(s) PROVE at'["end"] # "none"
    BY <2>1, <2>4 DEF Withdraw, Ending
  <2>5. CASE EndCleaned
    BY <1>2, <2>5 DEF EndCleaned
  <2>6. CASE EndClosingSettled
    BY <1>2, <2>6 DEF EndClosingSettled
  <2>7. CASE EndBackgroundDrained \/ EndBackgroundTimeout
    BY <1>2, <2>7 DEF EndBackgroundDrained, EndBackgroundTimeout, SetClosed
  <2>8. CASE EndClosed
    BY <1>2, <2>8 DEF EndClosed
  <2>9. CASE EndDrained \/ EndDrainTimeout
    BY <1>2, <2>9 DEF EndDrained, EndDrainTimeout
  <2>10. ASSUME NEW sealed \in BOOLEAN, Finalize(sealed) PROVE at'["end"] # "none"
    BY <1>2, <2>10 DEF Finalize
  <2>11. CASE EndAnnounced
    BY <1>2, <2>11 DEF EndAnnounced
  <2>. QED
    BY <1>4, <2>3, <2>4, <2>5, <2>6, <2>7, <2>8, <2>9, <2>10, <2>11 DEF EndNext
<1>. QED  BY <1>3, <1>4

LEMMA ConsentStep == TypeOK /\ ConsentInv /\ Next => ConsentInv'
<1>. SUFFICES ASSUME TypeOK, ConsentInv, Next PROVE ConsentInv'
  OBVIOUS
<1>. USE DEF lifecycle, participants, evidence
<1>1. tail \in Seq(Op) /\ consent \in [Side -> {"none", "given", "withdrawn"}]
  BY DEF TypeOK
<1>2. CASE Ending
  BY <1>2, EndStays DEF ConsentInv, Allowed
<1>3. CASE AllConsents /\ ~Ending
  <2>1. CASE Commit
    <3>1. Head(tail) \in Op
      BY <1>1, <2>1, HeadTailType DEF Commit
    <3>2. AllConsents'
      BY <1>1, <1>3, <2>1, <3>1
      DEF Commit, CommitStatus, CommitConnection, CommitReadiness, CommitConsent,
          CommitArm, CommitProvider, CommitWithdrawal, CommitEvent, AllConsents
    <3>. QED  BY <3>2 DEF ConsentInv, Allowed
  <2>2. ASSUME NEW s \in Side, Withdraw(s) PROVE ConsentInv'
    <3>1. at'["end"] = "cleanup"
      <4>1. at \in [Activity -> Places] /\ "end" \in Activity
        BY TypeParts DEF AtOK, Activity
      <4>. QED  BY <1>3, <2>2, <4>1 DEF Withdraw, BeginEnd
    <3>. QED  BY <3>1 DEF ConsentInv, Allowed, Ending
  <2>3. CASE ~Commit /\ ~\E s \in Side : Withdraw(s)
    <3>1. UNCHANGED consent
      BY <2>3
      DEF Next, EvidenceFails, FailEvidence, EndNext, End, EndCleaned,
          EndClosingSettled, EndBackgroundDrained, EndBackgroundTimeout, SetClosed,
          EndClosed, EndDrained, EndDrainTimeout, Finalize, EndAnnounced,
          PrepNext, PrepareSettles, PrepareFails, PrepareEmitted,
          PrepareFailureReported,
          CmdNext, Start, Pause, Resume, ArmRecorder, Consent, RefreshContinues,
          StartPrepared, ResumePrepared, ControlSettled, ConsentRecorded, ArmArming,
          ArmPreflight, ArmPreflightRecorded, ArmFlushed, ArmSettled, ArmFails,
          IngressNext, ParticipantState, ParticipantReadiness, IngressRecorded,
          DropRecorded, DropSettled, IngressEnds
    <3>. QED  BY <1>3, <3>1 DEF ConsentInv, Allowed, AllConsents
  <2>. QED  BY <2>1, <2>2, <2>3
<1>4. CASE ~Allowed
  <2>. SUFFICES (status' \notin Live /\ NoLiveOp(tail')) \/ Ending'
    BY DEF ConsentInv, Allowed
  <2>1. /\ ~Ending /\ ~AllConsents
        /\ status \notin Live /\ NoLiveOp(tail)
    BY <1>4 DEF ConsentInv, Allowed
  <2>2. \A op : ~LiveOp(op) => NoLiveOp(Append(tail, op))
    BY <1>1, <2>1, AppendKeepsNoLiveOp
  <2>3. /\ \A p : ~LiveOp(StatusOp(p, "waiting")) /\ ~LiveOp(StatusOp(p, "closed"))
        /\ \A p : ~LiveOp(EventOp(p))
        /\ \A to : ~LiveOp(ArmOp(to))
        /\ ~LiveOp(ControlOp("end", "closing"))
        /\ \A l : ~LiveOp([kind |-> "provider", owner |-> "prep", lane |-> l])
        /\ \A s : /\ ~LiveOp([kind |-> "withdrawal", owner |-> "none", side |-> s])
                  /\ ~LiveOp([kind |-> "consent", owner |-> "cmd", side |-> s])
                  /\ \A c : ~LiveOp([kind |-> "connection", owner |-> "ingress",
                                     side |-> s, to |-> c])
                  /\ \A r : ~LiveOp([kind |-> "readiness", owner |-> "ingress",
                                     side |-> s, to |-> r])
    BY DEF LiveOp, Live, StatusOp, ControlOp, EventOp, ArmOp
  <2>4. CASE Commit
    <3>1. ~LiveOp(Head(tail)) /\ NoLiveOp(Tail(tail))
      BY <1>1, <2>1, <2>4, TailKeepsNoLiveOp DEF Commit
    <3>2. status' \notin Live
      BY <2>1, <2>4, <3>1
      DEF Commit, CommitStatus, StillExpected, Apply, CommitConnection, CommitReadiness,
          CommitConsent, CommitArm, CommitProvider, CommitWithdrawal, CommitEvent, LiveOp
    <3>. QED  BY <2>4, <3>1, <3>2 DEF Commit
  <2>5. \A a, t, f : BeginEnd(a, t, f) /\ a \in [Activity -> Places] => Ending'
    BY <2>1 DEF BeginEnd, Ending, Activity
  <2>6. /\ at \in [Activity -> Places]
        /\ Goto("cmd", "idle") \in [Activity -> Places]
        /\ PrepDone \in [Activity -> Places]
    BY AtIsOK, GotoType, PrepDoneType DEF AtOK, CmdPlace
  <2>7. CASE EvidenceFails \/ EndNext
    BY <2>1, <2>5, <2>6, <2>7
    DEF EvidenceFails, FailEvidence, EndNext, End, Withdraw, EndCleaned,
        EndClosingSettled, EndBackgroundDrained, EndBackgroundTimeout, EndClosed,
        EndDrained, EndDrainTimeout, Finalize, EndAnnounced, Resumed, Ending
  <2>8. \A p, q : UpdateReadiness(p, q) => NoLiveOp(tail')
    BY <2>1, <2>2, <2>3
    DEF UpdateReadiness, Enqueue, ReadyPrerequisites, NonProviderPrerequisites
  <2>9. CASE PrepNext
    BY <2>1, <2>2, <2>3, <2>5, <2>6, <2>8, <2>9
    DEF PrepNext, PrepareSettles, PrepareFails, PrepareEmitted,
        PrepareFailureReported, Enqueue
  <2>10. CASE CmdNext
    <3>1. ~Start /\ ~Pause /\ ~Resume
      BY <2>1 DEF Start, Pause, Resume, Live
    <3>2. StartPrepared => UNCHANGED <<tail, status>>
      BY <2>1 DEF StartPrepared, Live
    <3>3. ResumePrepared => UNCHANGED <<tail, status>>
      BY <2>1 DEF ResumePrepared, Live
    <3>. QED
      BY <2>1, <2>2, <2>3, <2>5, <2>6, <2>8, <2>10, <3>1, <3>2, <3>3
      DEF CmdNext, ArmRecorder, Consent, RefreshContinues, ControlSettled,
          ConsentRecorded, ArmArming, ArmPreflight, ArmPreflightRecorded, ArmFlushed,
          ArmSettled, ArmFails, FailEvidence, Enqueue
  <2>11. CASE IngressNext
    BY <2>1, <2>2, <2>3, <2>8, <2>11
    DEF IngressNext, ParticipantState, ParticipantReadiness, IngressRecorded,
        DropRecorded, DropSettled, IngressEnds, Enqueue
  <2>. QED
    BY <2>4, <2>7, <2>9, <2>10, <2>11 DEF Next
<1>. QED
  BY <1>2, <1>3, <1>4 DEF Allowed

\* A session that is ready, active or paused and was not told to end has every
\* consent, whatever withdrawals, timeouts and queued status changes interleave.
THEOREM LiveSessionsAreConsented == Spec => []LiveMeansConsented
<1>1. Init => ConsentInv
  BY DEF Init, ConsentInv, Live, NoLiveOp
<1>2. TypeOK /\ ConsentInv /\ [Next]_vars => ConsentInv'
  <2>1. TypeOK /\ ConsentInv /\ UNCHANGED vars => ConsentInv'
    BY DEF vars, lifecycle, participants, ConsentInv, Allowed, Ending, AllConsents, NoLiveOp
  <2>. QED  BY <2>1, ConsentStep
<1>3. ConsentInv => LiveMeansConsented
  BY DEF ConsentInv, LiveMeansConsented, Allowed
<1>. QED
  BY <1>1, <1>2, <1>3, TypeCorrect, PTL DEF Spec

-----------------------------------------------------------------------------
(***************************************************************************)
(* Withdrawals.  Until the evidence fails, the event of a withdrawal is    *)
(* persisted or in the tail.                                               *)
(***************************************************************************)
Queued(t, s) == \E i \in DOMAIN t : t[i].kind = "withdrawal" /\ t[i].side = s

WithdrawalInv ==
  ~failed => \A s \in Side : consent[s] = "withdrawn" => s \in receipts \/ Queued(tail, s)

LEMMA AppendKeepsQueued ==
  ASSUME NEW t \in Seq(Op), NEW op, NEW s, Queued(t, s) \/ (op.kind = "withdrawal" /\ op.side = s)
  PROVE  Queued(Append(t, op), s)
<1>1. /\ Len(t) \in Nat /\ DOMAIN t = 1 .. Len(t)
      /\ DOMAIN Append(t, op) = 1 .. Len(t) + 1
      /\ \A i \in 1 .. Len(t) : Append(t, op)[i] = t[i]
      /\ Append(t, op)[Len(t) + 1] = op
  OBVIOUS
<1>. QED  BY <1>1 DEF Queued

LEMMA TailKeepsQueued ==
  ASSUME NEW t \in Seq(Op), t # <<>>, NEW s, Queued(t, s)
  PROVE  Queued(Tail(t), s) \/ (Head(t).kind = "withdrawal" /\ Head(t).side = s)
<1>1. /\ Len(t) \in Nat /\ DOMAIN t = 1 .. Len(t) /\ Head(t) = t[1]
      /\ DOMAIN Tail(t) = 1 .. Len(t) - 1
      /\ \A i \in 1 .. Len(t) - 1 : Tail(t)[i] = t[i + 1]
  OBVIOUS
<1>2. PICK i \in 1 .. Len(t) : t[i].kind = "withdrawal" /\ t[i].side = s
  BY <1>1 DEF Queued
<1>3. CASE i = 1
  BY <1>1, <1>2, <1>3
<1>4. CASE i # 1
  <2>1. i - 1 \in DOMAIN Tail(t) /\ Tail(t)[i - 1] = t[i]
    BY <1>1, <1>4
  <2>. QED  BY <1>2, <2>1 DEF Queued
<1>. QED  BY <1>3, <1>4

LEMMA WithdrawalStep == TypeOK /\ WithdrawalInv /\ Next => WithdrawalInv'
<1>. SUFFICES ASSUME TypeOK, WithdrawalInv, Next, ~failed',
                     NEW s \in Side, consent'[s] = "withdrawn"
              PROVE  s \in receipts' \/ Queued(tail', s)
  BY DEF WithdrawalInv
<1>. USE DEF lifecycle, participants, evidence
<1>1. tail \in Seq(Op) /\ consent \in [Side -> {"none", "given", "withdrawn"}] /\ failed \in BOOLEAN
  BY DEF TypeOK
<1>2. CASE Commit
  <2>1. ~failed /\ tail # <<>> /\ tail' = Tail(tail) /\ Head(tail) \in Op
    BY <1>1, <1>2, HeadTailType DEF Commit
  <2>2. consent[s] = "withdrawn"
    BY <1>1, <1>2, <2>1
    DEF Commit, CommitStatus, CommitConnection, CommitReadiness, CommitConsent,
        CommitArm, CommitProvider, CommitWithdrawal, CommitEvent
  <2>3. /\ receipts \subseteq receipts'
        /\ Head(tail).kind = "withdrawal" => Head(tail).side \in receipts'
    BY <1>2, <2>1
    DEF Commit, CommitStatus, CommitConnection, CommitReadiness, CommitConsent,
        CommitArm, CommitProvider, CommitWithdrawal, CommitEvent
  <2>. QED
    BY <1>1, <2>1, <2>2, <2>3, TailKeepsQueued DEF WithdrawalInv
<1>3. ASSUME NEW w \in Side, Withdraw(w)
      PROVE  s \in receipts' \/ Queued(tail', s)
  <2> DEFINE t == Append(tail, [kind |-> "withdrawal", owner |-> "none", side |-> w])
  <2>1. ~failed /\ receipts' = receipts /\ (s = w \/ consent[s] = "withdrawn")
    BY <1>1, <1>3 DEF Withdraw
  <2>2. s \in receipts \/ Queued(t, s)
    BY <1>1, <2>1, AppendKeepsQueued DEF WithdrawalInv
  <2>3. t \in Seq(Op)
    BY <1>1, OpType, AppendType
  <2>4. tail' = t \/ tail' = Append(t, ControlOp("end", "closing"))
    BY <1>3, <2>1 DEF Withdraw, BeginEnd
  <2>. QED
    BY <2>1, <2>2, <2>3, <2>4, AppendKeepsQueued
<1>4. CASE ~Commit /\ ~\E w \in Side : Withdraw(w)
  <2> DEFINE Grows == tail' = tail \/ \E op : tail' = Append(tail, op)
             Quiet == UNCHANGED <<consent, receipts>> /\ UNCHANGED failed /\ Grows
  <2>1. \A p, q : UpdateReadiness(p, q) => Grows
    BY DEF UpdateReadiness, Enqueue
  <2>2. \A a, f : BeginEnd(a, tail, f) => Grows
    BY DEF BeginEnd
  <2>9. (tail' = tail => Grows) /\ \A op : Enqueue(op) => Grows
    BY DEF Enqueue
  <2>3. ASSUME EvidenceFails PROVE Quiet
    BY <2>2, <2>3 DEF EvidenceFails, FailEvidence
  <2>4. ASSUME EndNext PROVE Quiet
    <3>1. ASSUME EndCleaned \/ EndClosingSettled \/ EndClosed \/ EndAnnounced PROVE Quiet
      BY <3>1 DEF EndCleaned, EndClosingSettled, EndClosed, EndAnnounced
    <3>5. ASSUME End PROVE Quiet
      BY <2>2, <3>5 DEF End
    <3>2. ASSUME EndDrained \/ EndDrainTimeout PROVE Quiet
      BY <3>2 DEF EndDrained, EndDrainTimeout
    <3>3. ASSUME EndBackgroundDrained \/ EndBackgroundTimeout PROVE Quiet
      BY <3>3 DEF EndBackgroundDrained, EndBackgroundTimeout, SetClosed, Enqueue
    <3>4. ASSUME NEW sealed \in BOOLEAN, Finalize(sealed) PROVE Quiet
      BY <3>4 DEF Finalize, Enqueue
    <3>. QED  BY <1>4, <2>4, <3>1, <3>2, <3>3, <3>4, <3>5 DEF EndNext
  <2>5. ASSUME PrepNext PROVE Quiet
    <3>1. UNCHANGED <<consent, receipts>> /\ UNCHANGED failed
      BY <2>5 DEF PrepNext, PrepareSettles, PrepareFails, PrepareEmitted, PrepareFailureReported
    <3>2. Grows
      <4>. HIDE DEF Grows
      <4>. QED  BY <2>1, <2>2, <2>9, <2>5 DEF PrepNext, PrepareSettles, PrepareFails, PrepareEmitted, PrepareFailureReported
    <3>. QED  BY <3>1, <3>2
  <2>6. ASSUME CmdNext PROVE Quiet
    <3>1. UNCHANGED <<consent, receipts>> /\ UNCHANGED failed
      BY <2>6 DEF CmdNext, Start, Pause, Resume, ArmRecorder, Consent, RefreshContinues, StartPrepared,
            ResumePrepared, ControlSettled, ConsentRecorded, ArmArming, ArmPreflight,
            ArmPreflightRecorded, ArmFlushed, ArmSettled, ArmFails, FailEvidence
    <3>2. Grows
      <4>. HIDE DEF Grows
      <4>. QED  BY <2>1, <2>2, <2>9, <2>6 DEF CmdNext, Start, Pause, Resume, ArmRecorder, Consent, RefreshContinues, StartPrepared,
            ResumePrepared, ControlSettled, ConsentRecorded, ArmArming, ArmPreflight,
            ArmPreflightRecorded, ArmFlushed, ArmSettled, ArmFails, FailEvidence, BeginControl
    <3>. QED  BY <3>1, <3>2
  <2>7. ASSUME IngressNext PROVE Quiet
    <3>1. UNCHANGED <<consent, receipts>> /\ UNCHANGED failed
      BY <2>7 DEF IngressNext, ParticipantState, ParticipantReadiness, IngressRecorded, DropRecorded,
            DropSettled, IngressEnds
    <3>2. Grows
      <4>. HIDE DEF Grows
      <4>. QED  BY <2>1, <2>2, <2>9, <2>7 DEF IngressNext, ParticipantState, ParticipantReadiness, IngressRecorded, DropRecorded,
            DropSettled, IngressEnds
    <3>. QED  BY <3>1, <3>2
  <2>8. Quiet
    BY <1>4, <2>3, <2>4, <2>5, <2>6, <2>7 DEF Next
  <2>. QED  BY <1>1, <2>8, AppendKeepsQueued DEF WithdrawalInv
<1>. QED  BY <1>2, <1>3, <1>4

\* Only finishEnd leaves its drain.
LEMMA DrainEnds ==
  TypeOK /\ Next /\ at["end"] = "drain" /\ at'["end"] = "finalizing"
    => EndDrained \/ EndDrainTimeout
<1>. SUFFICES ASSUME TypeOK, Next, at["end"] = "drain", at'["end"] = "finalizing"
              PROVE  EndDrained \/ EndDrainTimeout
  OBVIOUS
<1>1. Ending
  BY DEF Ending
<1>2. EndNext
  BY <1>1, EndKeepsPlace
<1>3. ~End /\ ~EndCleaned /\ ~EndClosingSettled /\ ~EndBackgroundDrained
      /\ ~EndBackgroundTimeout /\ ~EndClosed /\ ~EndAnnounced
      /\ \A sealed \in BOOLEAN : ~Finalize(sealed)
  BY <1>1
  DEF End, EndCleaned, EndClosingSettled, EndBackgroundDrained, EndBackgroundTimeout,
      EndClosed, EndAnnounced, Finalize, Resumed
<1>4. \A s \in Side : ~Withdraw(s)
  BY <1>1 DEF Withdraw, BeginEnd
<1>. QED  BY <1>2, <1>3, <1>4 DEF EndNext

\* finishEnd leaves its drain with intact evidence only when every withdrawal
\* is in the store, whatever was queued around its event.
THEOREM DrainsCoverWithdrawals == Spec => DrainCoversWithdrawal
<1>. DEFINE A == at["end"] = "drain" /\ at'["end"] = "finalizing" /\ ~failed' =>
                   \A s \in Side : consent[s] = "withdrawn" => s \in receipts
<1>1. Init => WithdrawalInv
  BY DEF Init, WithdrawalInv
<1>2. TypeOK /\ WithdrawalInv /\ [Next]_vars => WithdrawalInv'
  <2>1. TypeOK /\ WithdrawalInv /\ UNCHANGED vars => WithdrawalInv'
    BY DEF vars, WithdrawalInv, Queued
  <2>. QED  BY <2>1, WithdrawalStep
<1>3. TypeOK /\ WithdrawalInv /\ [Next]_vars => [A]_vars
  <2>. SUFFICES ASSUME TypeOK, WithdrawalInv, Next,
                       at["end"] = "drain", at'["end"] = "finalizing", ~failed'
                PROVE  \A s \in Side : consent[s] = "withdrawn" => s \in receipts
    OBVIOUS
  <2>1. EndDrained \/ EndDrainTimeout
    BY DrainEnds
  <2>2. ~failed /\ tail = <<>>
    BY <2>1 DEF EndDrained, EndDrainTimeout, evidence
  <2>. QED  BY <2>2 DEF WithdrawalInv, Queued
<1>4. Spec => []WithdrawalInv
  BY <1>1, <1>2, TypeCorrect, PTL DEF Spec
<1>. QED
  BY <1>3, <1>4, TypeCorrect, PTL DEF Spec, DrainCoversWithdrawal

-----------------------------------------------------------------------------
(***************************************************************************)
(* The recorder.  It is armed once every participant consented, and no     *)
(* operation that disarms it can be queued from then on: until the         *)
(* evidence fails an arm operation in the tail is the one the command tail *)
(* awaits, and the places from which the recorder is set to something else *)
(* are reached only while it is not armed.                                 *)
(***************************************************************************)
Placed(t, place) ==
  \A i \in DOMAIN t : t[i].kind = "arm" =>
    \/ place = "consent_arm" /\ t[i].to = "unarmed"
    \/ place = "arm_arming" /\ t[i].to = "arming"
    \/ place = "arm_armed" /\ t[i].to = "armed"
    \/ place = "arm_failed" /\ t[i].to = "failed"

ArmPlaces == {"consent_arm", "arm_arming", "arm_armed", "arm_failed"}

Disarming == {"consent_event", "consent_arm", "arm_arming", "arm_failed"}

NotLive == status \notin Live /\ NoLiveOp(tail)

Awaited ==
  /\ Placed(tail, at["cmd"])
  /\ at["cmd"] \in Disarming => arm # "armed"

Asked == arm = "armed" \/ at["cmd"] = "arm_armed" => \A s \in Side : consent[s] # "none"

ArmInv == (arm = "armed" \/ NotLive) /\ (~failed => Awaited) /\ Asked

LEMMA AppendKeepsPlaced ==
  ASSUME NEW t \in Seq(Op), NEW place, Placed(t, place), NEW op,
         \/ op.kind # "arm"
         \/ place = "consent_arm" /\ op.to = "unarmed"
         \/ place = "arm_arming" /\ op.to = "arming"
         \/ place = "arm_armed" /\ op.to = "armed"
         \/ place = "arm_failed" /\ op.to = "failed"
  PROVE  Placed(Append(t, op), place)
<1>1. /\ Len(t) \in Nat /\ DOMAIN t = 1 .. Len(t)
      /\ DOMAIN Append(t, op) = 1 .. Len(t) + 1
      /\ \A i \in 1 .. Len(t) : Append(t, op)[i] = t[i]
      /\ Append(t, op)[Len(t) + 1] = op
  OBVIOUS
<1>. QED  BY <1>1 DEF Placed

LEMMA TailKeepsPlaced ==
  ASSUME NEW t \in Seq(Op), t # <<>>, NEW place, Placed(t, place)
  PROVE  /\ Placed(Tail(t), place)
         /\ Head(t).kind = "arm" =>
              \/ place = "consent_arm" /\ Head(t).to = "unarmed"
              \/ place = "arm_arming" /\ Head(t).to = "arming"
              \/ place = "arm_armed" /\ Head(t).to = "armed"
              \/ place = "arm_failed" /\ Head(t).to = "failed"
<1>1. /\ Len(t) \in Nat /\ Len(t) >= 1 /\ DOMAIN t = 1 .. Len(t) /\ Head(t) = t[1]
      /\ DOMAIN Tail(t) = 1 .. Len(t) - 1
      /\ \A i \in 1 .. Len(t) - 1 : Tail(t)[i] = t[i + 1]
  OBVIOUS
<1>. QED  BY <1>1 DEF Placed

\* The command tail awaits none of its operations: the tail sets no arm state.
LEMMA NoneToArm ==
  ASSUME TypeOK, Placed(tail, at["cmd"]), at["cmd"] \notin ArmPlaces \/ ~Pending("cmd")
  PROVE  \A place : Placed(tail, place)
<1>1. \A i \in DOMAIN tail : tail[i] \in Op
  BY DEF TypeOK
<1>2. \A op \in Op : op.kind = "arm" => op.owner = "cmd"
  BY DEF Op
<1>. QED  BY <1>1, <1>2 DEF Placed, ArmPlaces, Pending

LEMMA ArmCommit == TypeOK /\ ArmInv /\ Commit => ArmInv'
<1>. SUFFICES ASSUME TypeOK, ArmInv, Commit PROVE ArmInv'
  OBVIOUS
<1>. USE DEF lifecycle, participants, evidence
<1>1. /\ tail \in Seq(Op) /\ consent \in [Side -> {"none", "given", "withdrawn"}]
      /\ tail # <<>> /\ tail' = Tail(tail) /\ Head(tail) \in Op
      /\ UNCHANGED <<failed, at>>
  BY HeadTailType DEF TypeOK, Commit
<1>2. NotLive => NotLive' \/ arm' = "armed"
  <2>1. NotLive => ~LiveOp(Head(tail)) /\ NoLiveOp(Tail(tail))
    BY <1>1, TailKeepsNoLiveOp DEF NotLive
  <2>2. NotLive => status' \notin Live
    BY <1>1, <2>1
    DEF NotLive, Commit, CommitStatus, StillExpected, Apply, CommitConnection, CommitReadiness,
        CommitConsent, CommitArm, CommitProvider, CommitWithdrawal, CommitEvent, LiveOp
  <2>. QED  BY <1>1, <2>1, <2>2 DEF NotLive
<1>3. CASE failed
  <2>1. UNCHANGED <<lifecycle, participants, arm>>
    BY <1>3 DEF Commit
  <2>. QED  BY <1>1, <1>2, <1>3, <2>1 DEF ArmInv, Asked
<1>4. CASE ~failed
  <2>1. /\ Placed(tail', at'["cmd"])
        /\ Head(tail).kind = "arm" =>
             \/ at["cmd"] = "consent_arm" /\ Head(tail).to = "unarmed"
             \/ at["cmd"] = "arm_arming" /\ Head(tail).to = "arming"
             \/ at["cmd"] = "arm_armed" /\ Head(tail).to = "armed"
             \/ at["cmd"] = "arm_failed" /\ Head(tail).to = "failed"
    BY <1>1, <1>4, TailKeepsPlaced DEF ArmInv, Awaited
  <2>2. CASE Head(tail).kind = "arm"
    <3>1. arm' = Head(tail).to /\ consent' = consent
      BY <1>4, <2>2
      DEF Commit, CommitStatus, CommitConnection, CommitReadiness, CommitConsent,
          CommitArm, CommitProvider, CommitWithdrawal, CommitEvent
    <3>. QED
      BY <1>1, <1>2, <1>4, <2>1, <2>2, <3>1 DEF ArmInv, Awaited, Asked, Disarming
  <2>3. CASE Head(tail).kind # "arm"
    <3>1. arm' = arm
      BY <1>4, <2>3
      DEF Commit, CommitStatus, CommitConnection, CommitReadiness, CommitConsent,
          CommitArm, CommitProvider, CommitWithdrawal, CommitEvent
    <3>2. \A s \in Side : consent[s] # "none" => consent'[s] # "none"
      BY <1>1, <1>4
      DEF Commit, CommitStatus, CommitConnection, CommitReadiness, CommitConsent,
          CommitArm, CommitProvider, CommitWithdrawal, CommitEvent
    <3>. QED
      BY <1>1, <1>2, <1>4, <2>1, <3>1, <3>2 DEF ArmInv, Awaited, Asked
  <2>. QED  BY <2>2, <2>3
<1>. QED  BY <1>3, <1>4

\* Only Commit sets the arm state, and a consent is never forgotten.
LEMMA ArmUnchanged ==
  ASSUME TypeOK, Next, ~Commit
  PROVE  /\ UNCHANGED arm
         /\ \A s \in Side : consent[s] # "none" => consent'[s] # "none"
<1>. USE DEF lifecycle, participants, evidence
<1>1. consent \in [Side -> {"none", "given", "withdrawn"}]
  BY DEF TypeOK
<1>2. ASSUME NEW w \in Side, Withdraw(w)
      PROVE  UNCHANGED arm /\ \A s \in Side : consent[s] # "none" => consent'[s] # "none"
  BY <1>1, <1>2 DEF Withdraw
<1>3. CASE ~\E w \in Side : Withdraw(w)
  <2>1. UNCHANGED <<arm, consent>>
    BY <1>3
    DEF Next, EvidenceFails, FailEvidence, EndNext, End, EndCleaned,
        EndClosingSettled, EndBackgroundDrained, EndBackgroundTimeout, SetClosed,
        EndClosed, EndDrained, EndDrainTimeout, Finalize, EndAnnounced,
        PrepNext, PrepareSettles, PrepareFails, PrepareEmitted,
        PrepareFailureReported,
        CmdNext, Start, Pause, Resume, ArmRecorder, Consent, RefreshContinues,
        StartPrepared, ResumePrepared, ControlSettled, ConsentRecorded, ArmArming,
        ArmPreflight, ArmPreflightRecorded, ArmFlushed, ArmSettled, ArmFails,
        IngressNext, ParticipantState, ParticipantReadiness, IngressRecorded,
        DropRecorded, DropSettled, IngressEnds
  <2>. QED  BY <2>1
<1>. QED  BY <1>2, <1>3

\* A session that is not live and whose recorder is not armed stays not live.
LEMMA StaysNotLive ==
  ASSUME TypeOK, Next, ~Commit, arm # "armed", NotLive
  PROVE  NotLive'
<1>. USE DEF lifecycle, participants, evidence
<1>1. tail \in Seq(Op) /\ status \notin Live /\ NoLiveOp(tail)
  BY DEF TypeOK, NotLive
<1>2. \A op : ~LiveOp(op) => NoLiveOp(Append(tail, op))
  BY <1>1, AppendKeepsNoLiveOp
<1>3. /\ \A p : ~LiveOp(StatusOp(p, "waiting")) /\ ~LiveOp(StatusOp(p, "closed"))
      /\ \A p : ~LiveOp(EventOp(p))
      /\ \A to : ~LiveOp(ArmOp(to))
      /\ ~LiveOp(ControlOp("end", "closing"))
      /\ \A l : ~LiveOp([kind |-> "provider", owner |-> "prep", lane |-> l])
      /\ \A s : /\ ~LiveOp([kind |-> "withdrawal", owner |-> "none", side |-> s])
                /\ ~LiveOp([kind |-> "consent", owner |-> "cmd", side |-> s])
                /\ \A c : ~LiveOp([kind |-> "connection", owner |-> "ingress",
                                   side |-> s, to |-> c])
                /\ \A r : ~LiveOp([kind |-> "readiness", owner |-> "ingress",
                                   side |-> s, to |-> r])
  BY DEF LiveOp, Live, StatusOp, ControlOp, EventOp, ArmOp
<1>4. {"closing", "closed"} \cap Live = {}
  BY DEF Live
<1>5. \A a, f : BeginEnd(a, tail, f) => NotLive'
  BY <1>1, <1>2, <1>3, <1>4 DEF BeginEnd, NotLive
<1>6. \A p, q : UpdateReadiness(p, q) => NoLiveOp(tail')
  BY <1>1, <1>2, <1>3
  DEF UpdateReadiness, Enqueue, ReadyPrerequisites, NonProviderPrerequisites
<1>7. CASE EvidenceFails
  BY <1>5, <1>7 DEF EvidenceFails, FailEvidence
<1>8. CASE EndNext
  <2>1. ASSUME NEW s \in Side, Withdraw(s) PROVE NotLive'
    <3> DEFINE t == Append(tail, [kind |-> "withdrawal", owner |-> "none", side |-> s])
    <3>1. t \in Seq(Op) /\ NoLiveOp(t)
      BY <1>1, <1>2, <1>3, OpType, AppendType
    <3>2. NoLiveOp(Append(t, ControlOp("end", "closing")))
      BY <1>3, <3>1, AppendKeepsNoLiveOp
    <3>. QED
      BY <1>1, <1>4, <2>1, <3>1, <3>2 DEF Withdraw, BeginEnd, NotLive
  <2>2. CASE End
    BY <1>5, <2>2 DEF End
  <2>3. CASE EndCleaned \/ EndClosingSettled \/ EndDrained \/ EndDrainTimeout \/ EndAnnounced
    BY <1>1, <2>3 DEF EndCleaned, EndClosingSettled, EndDrained, EndDrainTimeout, EndAnnounced, NotLive
  <2>4. CASE EndBackgroundDrained \/ EndBackgroundTimeout \/ EndClosed
    BY <1>1, <1>2, <1>3, <1>4, <2>4
    DEF EndBackgroundDrained, EndBackgroundTimeout, EndClosed, SetClosed, CloseNow, Enqueue, NotLive
  <2>5. ASSUME NEW sealed \in BOOLEAN, Finalize(sealed) PROVE NotLive'
    BY <1>1, <1>2, <1>3, <2>5 DEF Finalize, Enqueue, NotLive
  <2>. QED  BY <1>8, <2>1, <2>2, <2>3, <2>4, <2>5 DEF EndNext
<1>9. CASE PrepNext
  BY <1>1, <1>2, <1>3, <1>5, <1>6, <1>9
  DEF PrepNext, PrepareSettles, PrepareFails, PrepareEmitted,
      PrepareFailureReported, Enqueue, NotLive
<1>10. CASE CmdNext
  <2>1. ~Start /\ ~Pause /\ ~Resume
    BY <1>1 DEF Start, Pause, Resume, Live
  <2>2. StartPrepared => UNCHANGED <<tail, status>>
    BY <1>1 DEF StartPrepared, Live
  <2>3. ResumePrepared => UNCHANGED <<tail, status>>
    BY <1>1 DEF ResumePrepared, Live
  <2>4. CASE ArmFails
    BY <1>5, <2>4 DEF ArmFails, FailEvidence
  <2>. QED
    BY <1>1, <1>2, <1>3, <1>6, <1>10, <2>1, <2>2, <2>3, <2>4
    DEF CmdNext, ArmRecorder, Consent, RefreshContinues, ControlSettled,
        ConsentRecorded, ArmArming, ArmPreflight, ArmPreflightRecorded, ArmFlushed,
        ArmSettled, Enqueue, NotLive
<1>11. CASE IngressNext
  BY <1>1, <1>2, <1>3, <1>6, <1>11
  DEF IngressNext, ParticipantState, ParticipantReadiness, IngressRecorded,
      DropRecorded, DropSettled, IngressEnds, Enqueue, NotLive
<1>. QED  BY <1>7, <1>8, <1>9, <1>10, <1>11 DEF Next

\* updateReadiness sets no arm state and leaves the command tail where it
\* awaits none, unless the command tail itself called it.
LEMMA UpdateReadinessAside ==
  ASSUME TypeOK, NEW p \in {"cmd", "ingress", "prep"}, NEW place, UpdateReadiness(p, place)
  PROVE  /\ tail' = tail \/ \E op : op.kind # "arm" /\ tail' = Append(tail, op)
         /\ p = "cmd" => at'["cmd"] \in {place, "idle"}
         /\ p = "ingress" => at'["cmd"] = at["cmd"]
         /\ p = "prep" => at'["cmd"] = at["cmd"] \/ at'["cmd"] = PrepDone["cmd"]
<1>1. at \in [Activity -> Places]
  BY TypeParts DEF AtOK
<1>2. \A to : StatusOp(p, to).kind # "arm"
  BY DEF StatusOp
<1>3. \A a \in [Activity -> Places] : \A allow, r :
         BeginPreparation(a, allow, r)["cmd"] = a["cmd"]
  BY DEF BeginPreparation, Activity
<1>4. tail' = tail \/ \E op : op.kind # "arm" /\ tail' = Append(tail, op)
  BY <1>2 DEF UpdateReadiness, Enqueue
<1>5. CASE p = "cmd"
  <2>1. Goto(p, place)["cmd"] = place /\ Finish(p)["cmd"] = "idle"
        /\ Finish(p) \in [Activity -> Places]
    BY <1>1, <1>5 DEF Goto, Finish, Activity, Places, CmdPlace
  <2>2. at' \in {Goto(p, place), Finish(p), BeginPreparation(Finish(p), FALSE, provider)}
    BY <1>5 DEF UpdateReadiness
  <2>3. BeginPreparation(Finish(p), FALSE, provider)["cmd"] = Finish(p)["cmd"]
    BY <1>3, <2>1
  <2>4. at'["cmd"] \in {Goto(p, place)["cmd"], Finish(p)["cmd"]}
    BY <2>2, <2>3
  <2>. QED  BY <1>4, <1>5, <2>1, <2>4
<1>6. CASE p = "ingress"
  <2>1. Goto(p, place)["cmd"] = at["cmd"] /\ Finish(p)["cmd"] = at["cmd"]
        /\ Finish(p) \in [Activity -> Places]
    BY <1>1, <1>6 DEF Goto, Finish, Activity, Places, IngressPlace
  <2>2. at' \in {Goto(p, place), Finish(p), BeginPreparation(Finish(p), FALSE, provider)}
    BY <1>6 DEF UpdateReadiness
  <2>3. BeginPreparation(Finish(p), FALSE, provider)["cmd"] = Finish(p)["cmd"]
    BY <1>3, <2>1
  <2>4. at'["cmd"] \in {Goto(p, place)["cmd"], Finish(p)["cmd"]}
    BY <2>2, <2>3
  <2>. QED  BY <1>4, <1>6, <2>1, <2>4
<1>7. CASE p = "prep"
  <2>1. Goto(p, place)["cmd"] = at["cmd"] /\ Finish(p) = PrepDone
    BY <1>1, <1>7 DEF Goto, Finish, Activity
  <2>2. at' \in {Goto(p, place), Finish(p)}
    BY <1>7 DEF UpdateReadiness
  <2>. QED  BY <1>4, <1>7, <2>1, <2>2
<1>. QED  BY <1>5, <1>6, <1>7

\* What the other activities do to the place of the command tail: nothing, or
\* they resume it where it awaited the preparation.
Aside ==
  /\ tail' = tail \/ \E op : op.kind # "arm" /\ tail' = Append(tail, op)
  /\ \/ at'["cmd"] = at["cmd"]
     \/ at["cmd"] \notin ArmPlaces /\ at'["cmd"] \in {"start_begin", "start_check", "resume_begin", "resume_check"}

LEMMA AsideKeepsArmInv ==
  ASSUME TypeOK, Awaited, Aside, UNCHANGED arm
  PROVE  Awaited'
<1>1. tail \in Seq(Op) /\ Placed(tail, at["cmd"])
  BY DEF TypeOK, Awaited
<1>2. Placed(tail, at'["cmd"])
  BY <1>1, NoneToArm DEF Aside
<1>3. Placed(tail', at'["cmd"])
  BY <1>1, <1>2, AppendKeepsPlaced DEF Aside
<1>. QED  BY <1>3 DEF Awaited, Aside, Disarming

LEMMA PrepDoneAside ==
  ASSUME TypeOK
  PROVE  \/ PrepDone["cmd"] = at["cmd"]
         \/ /\ at["cmd"] \notin ArmPlaces
            /\ PrepDone["cmd"] \in {"start_begin", "start_check", "resume_begin", "resume_check"}
<1>1. at \in [Activity -> Places]
  BY TypeParts DEF AtOK
<1>. QED  BY <1>1 DEF PrepDone, Activity, ArmPlaces

LEMMA PrepIsAside == TypeOK /\ PrepNext => Aside
<1>. SUFFICES ASSUME TypeOK, PrepNext PROVE Aside
  OBVIOUS
<1>. USE DEF lifecycle
<1>1. at \in [Activity -> Places] /\ \A q : Goto("prep", q)["cmd"] = at["cmd"]
  BY TypeParts DEF AtOK, Goto, Activity
<1>2. /\ \A p : EventOp(p).kind # "arm"
      /\ ControlOp("end", "closing").kind # "arm"
      /\ \A l : [kind |-> "provider", owner |-> "prep", lane |-> l].kind # "arm"
  BY DEF EventOp, ControlOp
<1>3. \A op : op.kind # "arm" /\ Enqueue(op) => tail' = Append(tail, op)
  BY DEF Enqueue
<1>4. \A q : UpdateReadiness("prep", q) => Aside
  BY UpdateReadinessAside, PrepDoneAside DEF Aside
<1>5. BeginEnd(PrepDone, tail, FALSE) => Aside
  <2>1. PrepDone \in [Activity -> Places]
    BY AtIsOK, PrepDoneType DEF AtOK
  <2>2. [PrepDone EXCEPT !["end"] = "cleanup"]["cmd"] = PrepDone["cmd"]
    BY <2>1 DEF Activity
  <2>. QED  BY <1>2, <2>2, PrepDoneAside DEF BeginEnd, Aside
<1>6. CASE PrepareSettles
  BY <1>1, <1>2, <1>3, <1>6, PrepDoneAside DEF PrepareSettles, Aside
<1>7. CASE PrepareFails
  BY <1>1, <1>2, <1>3, <1>7, PrepDoneAside DEF PrepareFails, Aside
<1>8. CASE PrepareEmitted
  <2>1. CASE UpdateReadiness("prep", "prep_status")
    BY <1>4, <2>1
  <2>2. CASE at' = PrepDone /\ UNCHANGED tail
    BY <2>2, PrepDoneAside DEF Aside
  <2>3. CASE Enqueue([kind |-> "provider", owner |-> "prep", lane |-> "B_TO_A"])
             /\ at' = Goto("prep", "emit_B_TO_A")
    BY <1>1, <1>2, <1>3, <2>3 DEF Aside
  <2>. QED  BY <1>8, <2>1, <2>2, <2>3 DEF PrepareEmitted
<1>9. CASE PrepareFailureReported
  BY <1>5, <1>9, PrepDoneAside DEF PrepareFailureReported, Aside
<1>. QED  BY <1>6, <1>7, <1>8, <1>9 DEF PrepNext

LEMMA IngressIsAside == TypeOK /\ IngressNext => Aside
<1>. SUFFICES ASSUME TypeOK, IngressNext PROVE Aside
  OBVIOUS
<1>1. at \in [Activity -> Places] /\ \A q : Goto("ingress", q)["cmd"] = at["cmd"]
  BY TypeParts DEF AtOK, Goto, Activity
<1>2. \A op : op.kind # "arm" /\ Enqueue(op) => tail' = Append(tail, op)
  BY DEF Enqueue
<1>3. /\ \A p, to : StatusOp(p, to).kind # "arm"
      /\ \A s, c : [kind |-> "connection", owner |-> "ingress", side |-> s, to |-> c].kind # "arm"
      /\ \A s, r : [kind |-> "readiness", owner |-> "ingress", side |-> s, to |-> r].kind # "arm"
  BY DEF StatusOp
<1>4. \A q : UpdateReadiness("ingress", q) => Aside
  BY UpdateReadinessAside DEF Aside
<1>5. ASSUME NEW q, at' = Goto("ingress", q), UNCHANGED tail PROVE Aside
  BY <1>1, <1>5 DEF Aside
<1>6. ASSUME NEW q, at' = Goto("ingress", q), NEW op, op.kind # "arm", Enqueue(op) PROVE Aside
  BY <1>1, <1>2, <1>6 DEF Aside
<1>. HIDE DEF Aside
<1>7. ASSUME NEW s \in Side, NEW c \in BOOLEAN, ParticipantState(s, c) PROVE Aside
  BY <1>3, <1>6, <1>7 DEF ParticipantState
<1>8. ASSUME NEW s \in Side, NEW r, ParticipantReadiness(s, r) PROVE Aside
  BY <1>3, <1>6, <1>8 DEF ParticipantReadiness
<1>9. CASE IngressRecorded \/ DropRecorded \/ DropSettled \/ IngressEnds
  BY <1>3, <1>4, <1>5, <1>6, <1>9 DEF IngressRecorded, DropRecorded, DropSettled, IngressEnds
<1>. QED  BY <1>7, <1>8, <1>9 DEF IngressNext

LEMMA EndKeepsAwaited == TypeOK /\ EndNext /\ Awaited /\ UNCHANGED arm => Awaited'
<1>. SUFFICES ASSUME TypeOK, EndNext, Awaited, UNCHANGED arm PROVE Awaited'
  OBVIOUS
<1>1. at \in [Activity -> Places] /\ \A q : Goto("end", q)["cmd"] = at["cmd"]
      /\ [at EXCEPT !["end"] = "cleanup"]["cmd"] = at["cmd"]
  BY TypeParts DEF AtOK, Goto, Activity
<1>2. tail \in Seq(Op) /\ Placed(tail, at["cmd"])
  BY DEF TypeOK, Awaited
<1>3. \A op : op.kind # "arm" => Placed(Append(tail, op), at["cmd"])
  BY <1>2, AppendKeepsPlaced
<1>4. /\ \A p : EventOp(p).kind # "arm"
      /\ \A p, to : ControlOp(p, to).kind # "arm" /\ StatusOp(p, to).kind # "arm"
      /\ \A s : [kind |-> "withdrawal", owner |-> "none", side |-> s].kind # "arm"
  BY DEF EventOp, ControlOp, StatusOp
<1>5. /\ Placed(Append(tail, ControlOp("end", "closing")), at["cmd"])
      /\ Placed(Append(tail, StatusOp("end", "closed")), at["cmd"])
      /\ Placed(Append(tail, EventOp("end")), at["cmd"])
      /\ \A s \in Side :
           Placed(Append(tail, [kind |-> "withdrawal", owner |-> "none", side |-> s]), at["cmd"])
  BY <1>3, <1>4
<1>6. at'["cmd"] = at["cmd"] /\ Placed(tail', at["cmd"])
  <2>1. ASSUME NEW s \in Side, Withdraw(s) PROVE at'["cmd"] = at["cmd"] /\ Placed(tail', at["cmd"])
    <3> DEFINE t == Append(tail, [kind |-> "withdrawal", owner |-> "none", side |-> s])
    <3>1. t \in Seq(Op) /\ Placed(t, at["cmd"])
      BY <1>2, <1>5, OpType, AppendType
    <3>2. Placed(Append(t, ControlOp("end", "closing")), at["cmd"])
      <4>1. ControlOp("end", "closing").kind # "arm"
        BY <1>4
      <4>. HIDE DEF t
      <4>. QED  BY <3>1, <4>1, AppendKeepsPlaced
    <3>. QED  BY <1>1, <2>1, <3>1, <3>2 DEF Withdraw, BeginEnd
  <2>2. CASE End
    BY <1>1, <1>2, <1>5, <2>2 DEF End, BeginEnd
  <2>3. CASE EndCleaned \/ EndClosingSettled \/ EndDrained \/ EndDrainTimeout \/ EndAnnounced
    BY <1>1, <1>2, <2>3 DEF EndCleaned, EndClosingSettled, EndDrained, EndDrainTimeout, EndAnnounced, evidence
  <2>4. CASE EndBackgroundDrained \/ EndBackgroundTimeout \/ EndClosed
    BY <1>1, <1>2, <1>5, <2>4
    DEF EndBackgroundDrained, EndBackgroundTimeout, EndClosed, SetClosed, CloseNow, Enqueue
  <2>5. ASSUME NEW sealed \in BOOLEAN, Finalize(sealed)
        PROVE  at'["cmd"] = at["cmd"] /\ Placed(tail', at["cmd"])
    BY <1>1, <1>2, <1>5, <2>5 DEF Finalize, Enqueue
  <2>. QED  BY <2>1, <2>2, <2>3, <2>4, <2>5 DEF EndNext
<1>. QED  BY <1>6 DEF Awaited

LEMMA CmdKeepsAwaited ==
  ASSUME TypeOK, ArmInv, CmdNext, ~failed', UNCHANGED arm
  PROVE  Awaited'
<1>. USE DEF lifecycle, participants, evidence
<1>1. ~failed /\ ~ArmFails
  <2>1. ~ArmFails
    BY DEF ArmFails, FailEvidence
  <2>2. UNCHANGED evidence
    BY <2>1
    DEF CmdNext, Start, Pause, Resume, ArmRecorder, Consent, RefreshContinues,
        StartPrepared, ResumePrepared, ControlSettled, ConsentRecorded, ArmArming,
        ArmPreflight, ArmPreflightRecorded, ArmFlushed, ArmSettled
  <2>. QED  BY <2>1, <2>2
<1>2. /\ tail \in Seq(Op) /\ Placed(tail, at["cmd"]) /\ at \in [Activity -> Places]
      /\ at["cmd"] \in Disarming => arm # "armed"
      /\ arm = "armed" => \A s \in Side : consent[s] # "none"
  BY <1>1, TypeParts DEF ArmInv, Awaited, AtOK, Asked
<1>3. at["cmd"] \notin ArmPlaces \/ ~Pending("cmd")
  BY <1>1
  DEF CmdNext, Start, Pause, Resume, ArmRecorder, Consent, RefreshContinues,
      StartPrepared, ResumePrepared, ControlSettled, ConsentRecorded, ArmArming,
      ArmPreflight, ArmPreflightRecorded, ArmFlushed, ArmSettled, CommandTurn,
      Resumed, ArmPlaces
<1>4. \A place : Placed(tail, place)
  BY <1>2, <1>3, NoneToArm
<1>5. \A op : op.kind # "arm" => \A place : Placed(Append(tail, op), place)
  BY <1>2, <1>4, AppendKeepsPlaced
<1>6. /\ Placed(Append(tail, ArmOp("unarmed")), "consent_arm")
      /\ Placed(Append(tail, ArmOp("arming")), "arm_arming")
      /\ Placed(Append(tail, ArmOp("armed")), "arm_armed")
      /\ Placed(Append(tail, ArmOp("failed")), "arm_failed")
  <2>1. \A to : ArmOp(to).kind = "arm" /\ ArmOp(to).to = to
    BY DEF ArmOp
  <2>. HIDE DEF ArmOp
  <2>. QED  BY <1>2, <1>4, <2>1, AppendKeepsPlaced
<1>7. \A q : Goto("cmd", q)["cmd"] = q
  BY <1>2 DEF Goto, Activity
<1>8. ASSUME NEW q, at'["cmd"] = q, q \in Disarming => arm # "armed",
             Placed(tail', q)
      PROVE  Awaited'
  BY <1>8 DEF Awaited
<1>9. ASSUME NEW q, at' = Goto("cmd", q), q \in Disarming => arm # "armed",
             UNCHANGED tail \/ \E op : op.kind # "arm" /\ Enqueue(op)
      PROVE  Awaited'
  BY <1>4, <1>5, <1>7, <1>8, <1>9 DEF Enqueue
<1>10. ASSUME NEW q \in {"consent_status", "arm_status"}, UpdateReadiness("cmd", q) PROVE Awaited'
  <2>1. /\ tail' = tail \/ \E op : op.kind # "arm" /\ tail' = Append(tail, op)
        /\ at'["cmd"] \in {q, "idle"}
    BY <1>10, UpdateReadinessAside
  <2>. QED  BY <1>4, <1>5, <1>8, <2>1 DEF Disarming
<1>11. ASSUME NEW allow, NEW q \in {"start_prep", "resume_prep"}, Refresh(allow, q), UNCHANGED tail
       PROVE  Awaited'
  <2>1. at'["cmd"] \in {"idle", q}
    BY <1>2, <1>11 DEF Refresh, BeginPreparation, Activity
  <2>. QED  BY <1>4, <1>8, <1>11, <2>1 DEF Disarming
<1>12. /\ \A to : StatusOp("cmd", to).kind # "arm" /\ ControlOp("cmd", to).kind # "arm"
       /\ EventOp("cmd").kind # "arm"
       /\ \A s : [kind |-> "consent", owner |-> "cmd", side |-> s].kind # "arm"
  BY DEF StatusOp, ControlOp, EventOp
<1>13. CASE Start \/ Resume \/ RefreshContinues
  BY <1>9, <1>11, <1>13 DEF Start, Resume, RefreshContinues, BeginRefresh, Disarming
<1>14. CASE StartPrepared \/ ResumePrepared \/ Pause \/ ControlSettled
  BY <1>9, <1>12, <1>14
  DEF StartPrepared, ResumePrepared, Pause, ControlSettled, BeginControl, Disarming
<1>15. ASSUME NEW s \in Side, Consent(s) PROVE Awaited'
  BY <1>2, <1>9, <1>12, <1>15 DEF Consent
<1>16. CASE ConsentRecorded
  <2>1. ASSUME Enqueue(ArmOp("unarmed")), at' = Goto("cmd", "consent_arm"),
               at["cmd"] = "consent_event"
        PROVE  Awaited'
    BY <1>2, <1>6, <1>7, <1>8, <2>1 DEF Enqueue, Disarming
  <2>. QED  BY <1>1, <1>9, <1>10, <1>16, <2>1 DEF ConsentRecorded, Resumed, Disarming
<1>17. CASE ArmRecorder
  <2>1. /\ tail' = Append(tail, ArmOp("arming")) /\ at'["cmd"] = "arm_arming" /\ arm = "unarmed"
    BY <1>7, <1>17 DEF ArmRecorder, Enqueue
  <2>. QED  BY <1>6, <1>8, <2>1
<1>18. CASE ArmArming \/ ArmPreflight \/ ArmPreflightRecorded
  BY <1>9, <1>12, <1>18 DEF ArmArming, ArmPreflight, ArmPreflightRecorded, Disarming
<1>19. CASE ArmFlushed
  <2>1. CASE CanArm /\ arm = "arming"
    <3>1. tail' = Append(tail, ArmOp("armed")) /\ at'["cmd"] = "arm_armed"
      BY <1>7, <1>19, <2>1 DEF ArmFlushed, Enqueue
    <3>. QED  BY <1>6, <1>8, <3>1 DEF Disarming
  <2>2. CASE ~(CanArm /\ arm = "arming") /\ status = "waiting" /\ arm = "arming"
    <3>1. tail' = Append(tail, ArmOp("failed")) /\ at'["cmd"] = "arm_failed"
      BY <1>7, <1>19, <2>2 DEF ArmFlushed, Enqueue
    <3>. QED  BY <1>6, <1>8, <2>2, <3>1
  <2>3. CASE ~(CanArm /\ arm = "arming") /\ ~(status = "waiting" /\ arm = "arming")
    BY <1>9, <1>19, <2>3 DEF ArmFlushed, Disarming
  <2>. QED  BY <2>1, <2>2, <2>3
<1>20. CASE ArmSettled
  BY <1>1, <1>9, <1>10, <1>20 DEF ArmSettled, Disarming
<1>. QED
  BY <1>1, <1>13, <1>14, <1>15, <1>16, <1>17, <1>18, <1>19, <1>20 DEF CmdNext

\* The command tail goes on to arm the recorder only when all have consented.
LEMMA ToArmed ==
  ASSUME TypeOK, CmdNext, at'["cmd"] = "arm_armed"
  PROVE  AllConsents
<1>1. at \in [Activity -> Places] /\ \A q : Goto("cmd", q)["cmd"] = q
  BY TypeParts DEF AtOK, Goto, Activity
<1>2. \A q \in {"consent_status", "arm_status"} : ~UpdateReadiness("cmd", q)
  BY UpdateReadinessAside
<1>3. \A allow : \A q \in {"start_prep", "resume_prep"} : ~Refresh(allow, q)
  BY <1>1 DEF Refresh, BeginPreparation, Activity
<1>4. ~ArmFails
  BY <1>1 DEF ArmFails, FailEvidence, BeginEnd, Activity, Goto
<1>5. ~Start /\ ~Resume /\ ~RefreshContinues
  BY ZenonT(40), <1>1, <1>3 DEF Start, Resume, RefreshContinues, BeginRefresh
<1>6. ~StartPrepared /\ ~ResumePrepared /\ ~Pause /\ ~ControlSettled
  BY <1>1 DEF StartPrepared, ResumePrepared, Pause, BeginControl, ControlSettled
<1>7. ~ArmRecorder /\ ~ArmArming /\ ~ArmPreflight /\ ~ArmPreflightRecorded
      /\ \A s \in Side : ~Consent(s)
  BY <1>1 DEF ArmRecorder, Consent, ArmArming, ArmPreflight, ArmPreflightRecorded
<1>8. ~ConsentRecorded /\ ~ArmSettled
  BY <1>1, <1>2 DEF ConsentRecorded, ArmSettled
<1>9. ArmFlushed
  BY <1>4, <1>5, <1>6, <1>7, <1>8 DEF CmdNext
<1>. QED  BY <1>1, <1>9 DEF ArmFlushed, CanArm

LEMMA EndKeepsCommand == TypeOK /\ (EndNext \/ EvidenceFails) => at'["cmd"] = at["cmd"]
<1>. SUFFICES ASSUME TypeOK, EndNext \/ EvidenceFails PROVE at'["cmd"] = at["cmd"]
  OBVIOUS
<1>1. at \in [Activity -> Places] /\ \A q : Goto("end", q)["cmd"] = at["cmd"]
  BY TypeParts DEF AtOK, Goto, Activity
<1>2. \A t, f : BeginEnd(at, t, f) => at'["cmd"] = at["cmd"]
  BY <1>1 DEF BeginEnd, Activity
<1>3. CASE EvidenceFails \/ End \/ \E s \in Side : Withdraw(s)
  BY <1>2, <1>3 DEF EvidenceFails, FailEvidence, End, Withdraw
<1>4. CASE EndCleaned \/ EndClosingSettled \/ EndDrained \/ EndDrainTimeout \/ EndAnnounced
  BY <1>1, <1>4 DEF EndCleaned, EndClosingSettled, EndDrained, EndDrainTimeout, EndAnnounced
<1>5. CASE EndBackgroundDrained \/ EndBackgroundTimeout \/ EndClosed
  BY <1>1, <1>5 DEF EndBackgroundDrained, EndBackgroundTimeout, SetClosed, EndClosed
<1>6. ASSUME NEW sealed \in BOOLEAN, Finalize(sealed) PROVE at'["cmd"] = at["cmd"]
  BY <1>1, <1>6 DEF Finalize
<1>. QED  BY <1>3, <1>4, <1>5, <1>6 DEF EndNext

LEMMA ArmStep == TypeOK /\ ArmInv /\ Next => ArmInv'
<1>. SUFFICES ASSUME TypeOK, ArmInv, Next, ~Commit PROVE ArmInv'
  BY ArmCommit
<1>1. UNCHANGED arm /\ \A s \in Side : consent[s] # "none" => consent'[s] # "none"
  BY ArmUnchanged
<1>2. (arm = "armed" \/ NotLive)'
  BY <1>1, StaysNotLive DEF ArmInv
<1>3. failed => failed'
  BY DEF Next, EvidenceFails, FailEvidence, EndNext, End, Withdraw, EndCleaned,
         EndClosingSettled, EndBackgroundDrained, EndBackgroundTimeout, EndClosed,
         EndDrained, EndDrainTimeout, Finalize, EndAnnounced,
         PrepNext, PrepareSettles, PrepareFails, PrepareEmitted, PrepareFailureReported,
         CmdNext, Start, Pause, Resume, ArmRecorder, Consent, RefreshContinues,
         StartPrepared, ResumePrepared, ControlSettled, ConsentRecorded, ArmArming,
         ArmPreflight, ArmPreflightRecorded, ArmFlushed, ArmSettled, ArmFails,
         IngressNext, ParticipantState, ParticipantReadiness, IngressRecorded,
         DropRecorded, DropSettled, IngressEnds, evidence
<1>4. at'["cmd"] = "arm_armed" => at["cmd"] = "arm_armed" \/ AllConsents
  <2>1. Aside => (at'["cmd"] = "arm_armed" => at["cmd"] = "arm_armed")
    BY DEF Aside
  <2>. QED  BY <2>1, ToArmed, EndKeepsCommand, PrepIsAside, IngressIsAside DEF Next
<1>5. Asked'
  BY <1>1, <1>4 DEF ArmInv, Asked, AllConsents
<1>6. ~failed' => Awaited'
  <2>. SUFFICES ASSUME ~failed' PROVE Awaited'
    OBVIOUS
  <2>1. Awaited /\ ~EvidenceFails
    BY <1>3 DEF ArmInv, EvidenceFails, FailEvidence
  <2>2. CASE CmdNext
    BY <1>1, <2>2, CmdKeepsAwaited
  <2>3. CASE PrepNext \/ IngressNext
    BY <1>1, <2>1, <2>3, PrepIsAside, IngressIsAside, AsideKeepsArmInv
  <2>4. CASE EndNext
    BY <1>1, <2>1, <2>4, EndKeepsAwaited
  <2>. QED  BY <2>1, <2>2, <2>3, <2>4 DEF Next
<1>. QED  BY <1>2, <1>5, <1>6 DEF ArmInv

\* A session is ready, active or paused only with its recorder armed, whatever
\* withdrawals, disconnects, failures and ends cross the awaits of arming.
THEOREM LiveSessionsAreArmed == Spec => []LiveMeansArmed
<1>1. Init => ArmInv
  BY DEF Init, ArmInv, NotLive, Awaited, Asked, Live, NoLiveOp, Placed, Disarming, Activity
<1>2. TypeOK /\ ArmInv /\ [Next]_vars => ArmInv'
  <2>1. TypeOK /\ ArmInv /\ UNCHANGED vars => ArmInv'
    BY DEF vars, participants, lifecycle, evidence, ArmInv, NotLive, Awaited, Asked, NoLiveOp, Placed
  <2>. QED  BY <2>1, ArmStep
<1>3. ArmInv => LiveMeansArmed
  BY DEF ArmInv, NotLive, LiveMeansArmed
<1>. QED
  BY <1>1, <1>2, <1>3, TypeCorrect, PTL DEF Spec

-----------------------------------------------------------------------------
(***************************************************************************)
(* The path of the status.  A queued status change was asked for from the  *)
(* status it replaces, so it is enough to know which changes can be queued *)
(* and which of them can find the status they expect.  That is hard only   *)
(* for a session that was told to end: a disconnect that the ingress loop  *)
(* was handling can take it from active or closing back to waiting, and    *)
(* what keeps it from becoming ready again is that the participant is gone *)
(* and that no change to ready is left in the tail by then.                *)
(***************************************************************************)
ReadyOp(op) == op.kind = "status" /\ op.to = "ready"
NoReadyOp(t) == \A i \in DOMAIN t : ~ReadyOp(t[i])
SomeoneLeft == \E s \in Side : ~connected[s]

OpShape(op) ==
  /\ op.kind = "status" =>
       \/ op.to = "ready" /\ op.prev = "waiting"
       \/ op.to = "active" /\ op.prev = "ready"
       \/ op.to = "waiting" /\ op.prev = "ready"
       \/ op.to = "waiting" /\ op.owner = "ingress" /\ op.prev \in {"active", "paused", "closing"}
       \/ op.to = "closed" /\ op.owner = "end"
  /\ op.kind = "control" =>
       \/ op.to = "closing" /\ op.owner = "end" /\ op.prev # "closed"
       \/ op.to = "paused" /\ op.prev = "active"
       \/ op.to = "active" /\ op.prev = "paused"

IngressShape(op, place) ==
  op.owner = "ingress" =>
    \/ place = "drop_event" /\ op.kind = "connection" /\ op.to = FALSE
    \/ place = "drop_status" /\ op.kind = "status" /\ op.to = "waiting" /\ op.prev # "ready"
    \/ place = "state_event" /\ op.kind = "connection"
    \/ place = "readiness_event" /\ op.kind = "readiness"
    \/ place = "ingress_status" /\ op.kind = "status" /\ op.prev \in {"waiting", "ready"}

ConsentShape(op) ==
  op.kind = "consent" => at["cmd"] = "consent_event" /\ consent[op.side] = "none"

Shapes ==
  \A i \in DOMAIN tail :
    /\ OpShape(tail[i]) /\ IngressShape(tail[i], at["ingress"]) /\ ConsentShape(tail[i])
    /\ tail[i].owner = "end" => Ending

Single ==
  \A i, j \in DOMAIN tail : i # j =>
    /\ ~(tail[i].owner = "ingress" /\ tail[j].owner = "ingress")
    /\ ~(tail[i].kind = "consent" /\ tail[j].kind = "consent")

Dropping ==
  /\ at["ingress"] = "drop_event" =>
       /\ status \notin {"waiting", "ready"}
       /\ \A j \in DOMAIN tail : ReadyOp(tail[j]) =>
            \E i \in DOMAIN tail : i > j /\ tail[i].owner = "ingress"
       /\ Pending("ingress") \/ SomeoneLeft
  /\ at["ingress"] = "drop_status" =>
       /\ SomeoneLeft
       /\ Pending("ingress") => status \notin {"waiting", "ready"} /\ NoReadyOp(tail)

EndedShape ==
  /\ Ending /\ control = "none" => status \notin {"ready", "paused"}
  /\ Ending /\ control = "none" /\ status = "waiting" =>
       /\ NoReadyOp(tail) /\ SomeoneLeft
       /\ \A i \in DOMAIN tail : ~(tail[i].kind = "connection" /\ tail[i].to = TRUE)
  /\ status = "closed" \/ (\E i \in DOMAIN tail : tail[i].kind = "status" /\ tail[i].to = "closed")
       => at["ingress"] = "stopped"
  /\ control = "paused" => ~Ending

PathInv ==
  /\ Terminating => Ending
  /\ ~failed => Shapes /\ Single /\ Dropping /\ EndedShape

-----------------------------------------------------------------------------
(***************************************************************************)
(* Steps that queue.  Move says what a step other than Commit does to the  *)
(* tail and to the places, while the evidence is intact.                   *)
(***************************************************************************)
Puts(op) ==
  /\ OpShape(op)
  /\ op.owner = "end" => Ending'
  /\ ReadyOp(op) => status = "waiting" /\ ~SomeoneLeft
  /\ op.kind = "status" /\ op.to = "closed" => at["ingress"] = "stopped"
  /\ op.owner = "ingress" =>
       /\ ~Pending("ingress") /\ IngressShape(op, at'["ingress"])
       /\ at'["ingress"] = "drop_event" => status \in {"active", "paused"}
       /\ at'["ingress"] = "drop_status" => at["ingress"] = "drop_event"
       /\ op.kind = "connection" /\ op.to = TRUE => ~Ending
  /\ op.kind = "consent" =>
       at["cmd"] = "idle" /\ at'["cmd"] = "consent_event" /\ consent[op.side] = "none"

WithdrawalOp(s) == [kind |-> "withdrawal", owner |-> "none", side |-> s]

Added == DOMAIN tail' \ DOMAIN tail

Grown ==
  /\ DOMAIN tail \subseteq DOMAIN tail' /\ \A i \in DOMAIN tail : tail'[i] = tail[i]
  /\ \A j \in DOMAIN tail, i \in Added : i > j
  /\ \A i \in Added : Puts(tail'[i])
  /\ \A i, j \in Added : i = j \/ tail'[i].owner \in {"none", "end"}
  /\ at'["ingress"] \in {"drop_event", "drop_status"} /\ at'["ingress"] # at["ingress"] =>
       \E i \in Added : tail'[i].owner = "ingress"

Settled ==
  /\ at'["ingress"] # at["ingress"] => ~Pending("ingress")
  /\ at["ingress"] = "stopped" => at'["ingress"] = "stopped"
  /\ at["cmd"] = "consent_event" /\ at'["cmd"] # "consent_event" => ~Pending("cmd")

Turned ==
  \/ UNCHANGED <<control, consent>> /\ Ending' = Ending
  \/ /\ ~Ending /\ Ending' /\ control' = "closing"
     /\ \A s \in Side : consent'[s] = consent[s] \/ consent[s] = "given"
  \/ /\ Ending /\ Ending' /\ UNCHANGED control
     /\ \A s \in Side : consent'[s] = consent[s] \/ consent[s] = "given"
  \/ UNCHANGED consent /\ Ending' = Ending /\ control' = "active" /\ status = "paused"
  \/ UNCHANGED consent /\ ~Ending /\ ~Ending' /\ control' = "paused"

Move == UNCHANGED <<status, connected, failed>> /\ Grown /\ Settled /\ Turned

\* What a step asks of the tail, in the three forms that occur.
LEMMA GrowsNot ==
  ASSUME tail \in Seq(Op), tail' = tail,
         at'["ingress"] \in {"drop_event", "drop_status"} => at'["ingress"] = at["ingress"]
  PROVE  Grown
BY DEF Grown, Added

LEMMA GrowsByOne ==
  ASSUME tail \in Seq(Op), NEW op, tail' = Append(tail, op), Puts(op),
         at'["ingress"] \in {"drop_event", "drop_status"} =>
           at'["ingress"] = at["ingress"] \/ op.owner = "ingress"
  PROVE  Grown
<1>1. /\ Len(tail) \in Nat /\ DOMAIN tail = 1 .. Len(tail)
      /\ DOMAIN tail' = 1 .. Len(tail) + 1
      /\ \A i \in 1 .. Len(tail) : tail'[i] = tail[i]
      /\ tail'[Len(tail) + 1] = op
  OBVIOUS
<1>2. Added = {Len(tail) + 1}
  BY <1>1 DEF Added
<1>. HIDE DEF Added, Puts
<1>. QED  BY <1>1, <1>2 DEF Grown

LEMMA GrowsByTwo ==
  ASSUME tail \in Seq(Op), NEW op, NEW last, tail' = Append(Append(tail, op), last),
         Puts(op), Puts(last), op.owner = "none", last.owner = "end",
         at'["ingress"] = at["ingress"]
  PROVE  Grown
<1>1. /\ Len(tail) \in Nat /\ DOMAIN tail = 1 .. Len(tail)
      /\ DOMAIN Append(tail, op) = 1 .. Len(tail) + 1
      /\ \A i \in 1 .. Len(tail) : Append(tail, op)[i] = tail[i]
      /\ Append(tail, op)[Len(tail) + 1] = op
  OBVIOUS
<1>2. /\ DOMAIN tail' = 1 .. Len(tail) + 2
      /\ \A i \in 1 .. Len(tail) + 1 : tail'[i] = Append(tail, op)[i]
      /\ tail'[Len(tail) + 2] = last
  <2>. DEFINE t == Append(tail, op)
  <2>1. t \in Seq(Op \cup {op}) /\ Len(t) = Len(tail) + 1
    OBVIOUS
  <2>2. tail' = Append(t, last)
    OBVIOUS
  <2>. HIDE DEF t
  <2>3. /\ DOMAIN Append(t, last) = 1 .. Len(t) + 1
        /\ \A i \in 1 .. Len(t) : Append(t, last)[i] = t[i]
        /\ Append(t, last)[Len(t) + 1] = last
    BY <2>1
  <2>4. \A i \in 1 .. Len(tail) + 1 : tail'[i] = t[i]
    BY <2>1, <2>2, <2>3, <1>1
  <2>. QED  BY <2>1, <2>2, <2>3, <2>4, <1>1 DEF t
<1>3. Added = {Len(tail) + 1, Len(tail) + 2}
  BY <1>1, <1>2 DEF Added
<1>4. tail'[Len(tail) + 1] = op
  BY <1>1, <1>2
<1>. HIDE DEF Added, Puts
<1>. QED  BY <1>1, <1>2, <1>3, <1>4 DEF Grown

-----------------------------------------------------------------------------
(***************************************************************************)
(* Every step other than Commit is a Move, while the evidence is intact.   *)
(***************************************************************************)
LEMMA PlaceFacts ==
  ASSUME TypeOK
  PROVE  /\ at \in [Activity -> Places]
         /\ \A p, r \in Activity : \A q : Goto(p, q)[r] = IF r = p THEN q ELSE at[r]
         /\ PrepDone["ingress"] = at["ingress"] /\ PrepDone["end"] = at["end"]
         /\ at["cmd"] = "consent_event" => PrepDone["cmd"] = "consent_event"
         /\ \A a \in [Activity -> Places] : \A allow, r : \A q \in Activity :
              q # "prep" => BeginPreparation(a, allow, r)[q] = a[q]
<1>1. at \in [Activity -> Places]
  BY TypeParts DEF AtOK
<1>2. \A p, r \in Activity : \A q : Goto(p, q)[r] = IF r = p THEN q ELSE at[r]
  BY <1>1 DEF Goto
<1>3. /\ PrepDone["ingress"] = at["ingress"] /\ PrepDone["end"] = at["end"]
      /\ at["cmd"] = "consent_event" => PrepDone["cmd"] = "consent_event"
  BY <1>1 DEF PrepDone, Activity
<1>4. \A a \in [Activity -> Places] : \A allow, r : \A q \in Activity :
        q # "prep" => BeginPreparation(a, allow, r)[q] = a[q]
  BY DEF BeginPreparation, Activity
<1>. QED  BY <1>1, <1>2, <1>3, <1>4

\* updateReadiness queues nothing, or the change of a status that it saw.
LEMMA ReadinessUpdates ==
  ASSUME TypeOK, NEW p \in {"cmd", "ingress", "prep"}, NEW place, UpdateReadiness(p, place)
  PROVE  \/ /\ tail' = tail
            /\ p # "ingress" => at'["ingress"] = at["ingress"]
            /\ p = "ingress" => at'["ingress"] = "idle"
            /\ p # "cmd" /\ at["cmd"] = "consent_event" => at'["cmd"] = "consent_event"
            /\ at'["end"] = at["end"]
         \/ /\ at' = Goto(p, place)
            /\ \/ tail' = Append(tail, StatusOp(p, "waiting")) /\ status = "ready"
               \/ /\ tail' = Append(tail, StatusOp(p, "ready"))
                  /\ status = "waiting" /\ ~SomeoneLeft
<1>. DEFINE a == BeginPreparation(Finish(p), FALSE, provider)
<1>1. Finish(p) \in [Activity -> Places]
  BY AtIsOK, FinishType DEF AtOK
<1>2. /\ Finish("ingress")["ingress"] = "idle"
      /\ \A q \in {"cmd", "prep"} : Finish(q)["ingress"] = at["ingress"]
      /\ \A q \in {"cmd", "ingress", "prep"} : Finish(q)["end"] = at["end"]
      /\ \A q \in {"ingress", "prep"} :
           at["cmd"] = "consent_event" => Finish(q)["cmd"] = "consent_event"
  <2>1. /\ Finish("cmd") = Goto("cmd", "idle") /\ Finish("ingress") = Goto("ingress", "idle")
        /\ Finish("prep") = PrepDone
    BY DEF Finish
  <2>2. \A r \in {"cmd", "ingress", "end"} :
          /\ Goto("cmd", "idle")[r] = IF r = "cmd" THEN "idle" ELSE at[r]
          /\ Goto("ingress", "idle")[r] = IF r = "ingress" THEN "idle" ELSE at[r]
    BY PlaceFacts DEF Activity
  <2>3. /\ PrepDone["ingress"] = at["ingress"] /\ PrepDone["end"] = at["end"]
        /\ at["cmd"] = "consent_event" => PrepDone["cmd"] = "consent_event"
    BY PlaceFacts
  <2>4. \A q \in {"cmd", "prep"} : Finish(q)["ingress"] = at["ingress"]
    BY <2>1, <2>2, <2>3
  <2>5. \A q \in {"cmd", "ingress", "prep"} : Finish(q)["end"] = at["end"]
    BY <2>1, <2>2, <2>3
  <2>6. \A q \in {"ingress", "prep"} :
           at["cmd"] = "consent_event" => Finish(q)["cmd"] = "consent_event"
    BY <2>1, <2>2, <2>3
  <2>7. Finish("ingress")["ingress"] = "idle"
    BY <2>1, <2>2
  <2>. QED  BY <2>4, <2>5, <2>6, <2>7
<1>3. \A q \in {"cmd", "ingress", "end"} : a[q] = Finish(p)[q]
  BY <1>1 DEF BeginPreparation, Activity
<1>4. NonProviderPrerequisites(FALSE) => ~SomeoneLeft
  BY DEF NonProviderPrerequisites, SomeoneLeft
<1>5. \/ tail' = tail /\ (at' = Finish(p) \/ at' = a)
      \/ /\ at' = Goto(p, place)
         /\ \/ tail' = Append(tail, StatusOp(p, "waiting")) /\ status = "ready"
            \/ /\ tail' = Append(tail, StatusOp(p, "ready"))
               /\ status = "waiting" /\ ~SomeoneLeft
  BY <1>4 DEF UpdateReadiness, Enqueue, ReadyPrerequisites
<1>6. CASE tail' = tail /\ (at' = Finish(p) \/ at' = a)
  <2>1. \A q \in {"cmd", "ingress", "end"} : at'[q] = Finish(p)[q]
    BY <1>3, <1>6
  <2>. QED  BY <1>2, <1>6, <2>1
<1>. QED  BY <1>5, <1>6

LEMMA IntactBefore == TypeOK /\ Next /\ ~failed' => ~failed
<1>. SUFFICES ASSUME TypeOK, Next, failed PROVE failed'
  BY DEF TypeOK
<1>. USE DEF evidence
<1>1. CASE Commit
  BY <1>1 DEF Commit
<1>2. CASE EvidenceFails \/ EndNext
  BY <1>2
  DEF EvidenceFails, FailEvidence, EndNext, End, Withdraw, EndCleaned, EndClosingSettled,
      EndBackgroundDrained, EndBackgroundTimeout, EndClosed, EndDrained, EndDrainTimeout,
      Finalize, EndAnnounced
<1>3. CASE PrepNext
  BY <1>3 DEF PrepNext, PrepareSettles, PrepareFails, PrepareEmitted, PrepareFailureReported
<1>4. CASE CmdNext
  BY <1>4
  DEF CmdNext, Start, Pause, Resume, ArmRecorder, Consent, RefreshContinues, StartPrepared,
      ResumePrepared, ControlSettled, ConsentRecorded, ArmArming, ArmPreflight,
      ArmPreflightRecorded, ArmFlushed, ArmSettled, ArmFails, FailEvidence
<1>5. CASE IngressNext
  BY <1>5 DEF IngressNext, ParticipantState, ParticipantReadiness, IngressRecorded,
              DropRecorded, DropSettled, IngressEnds
<1>. QED  BY <1>1, <1>2, <1>3, <1>4, <1>5 DEF Next

\* An operation of neither the ingress nor a status change may be queued at any time.
LEMMA PlainPuts ==
  ASSUME NEW op, op.kind \notin {"status", "control", "consent"}, op.owner \notin {"ingress", "end"}
  PROVE  Puts(op)
BY DEF Puts, OpShape, ReadyOp

\* #end, called with a tail that ends in plain operations.
LEMMA EndMoves ==
  ASSUME TypeOK, PathInv, ~failed, NEW a \in [Activity -> Places],
         a["ingress"] = at["ingress"], a["end"] = at["end"],
         at["cmd"] = "consent_event" => a["cmd"] = "consent_event",
         UNCHANGED <<connected, failed>>,
         \/ BeginEnd(a, tail, FALSE) /\ UNCHANGED consent
         \/ \E s \in Side :
              /\ BeginEnd(a, Append(tail, WithdrawalOp(s)), FALSE)
              /\ consent[s] = "given" /\ consent' = [consent EXCEPT ![s] = "withdrawn"]
  PROVE  Move
<1>. DEFINE closing == ControlOp("end", "closing")
<1>1. tail \in Seq(Op) /\ status \in Status /\ consent \in [Side -> {"none", "given", "withdrawn"}]
  BY DEF TypeOK
<1>2. /\ UNCHANGED <<status, connected, failed>>
      /\ at'["ingress"] = at["ingress"]
      /\ at["cmd"] = "consent_event" => at'["cmd"] = "consent_event"
  BY DEF BeginEnd, lifecycle, Activity
<1>3. Settled
  BY <1>2 DEF Settled
<1>4. \A s \in Side : consent'[s] = consent[s] \/ consent[s] = "given"
  BY <1>1
<1>5. Turned
  <2>1. CASE Ending
    <3>1. Ending' /\ UNCHANGED control
      BY <2>1 DEF BeginEnd, lifecycle, Ending
    <3>. QED  BY <1>4, <2>1, <3>1 DEF Turned
  <2>2. CASE ~Ending
    <3>1. Ending' /\ control' = "closing"
      BY <2>2 DEF BeginEnd, Ending, Activity
    <3>. QED  BY <1>4, <2>2, <3>1 DEF Turned
  <2>. QED  BY <2>1, <2>2
<1>6. ~Ending => Puts(closing) /\ closing.owner = "end"
  <2>. SUFFICES ASSUME ~Ending PROVE Puts(closing) /\ closing.owner = "end"
    OBVIOUS
  <2>1. status # "closed" /\ Ending'
    BY DEF PathInv, Terminating, BeginEnd, Ending, Activity
  <2>. QED  BY <2>1 DEF Puts, OpShape, ReadyOp, ControlOp
<1>7. \A s : Puts(WithdrawalOp(s)) /\ WithdrawalOp(s).owner = "none"
  BY PlainPuts DEF WithdrawalOp
<1>8. Grown
  <2>1. \/ tail' = tail
        \/ tail' = Append(tail, closing) /\ ~Ending
        \/ \E s \in Side : tail' = Append(tail, WithdrawalOp(s))
        \/ \E s \in Side : tail' = Append(Append(tail, WithdrawalOp(s)), closing) /\ ~Ending
    BY DEF BeginEnd
  <2>. HIDE DEF closing
  <2>2. CASE tail' = tail
    BY <1>1, <1>2, <2>2, GrowsNot
  <2>3. CASE tail' = Append(tail, closing) /\ ~Ending
    BY <1>1, <1>2, <1>6, <2>3, GrowsByOne
  <2>4. CASE \E s \in Side : tail' = Append(tail, WithdrawalOp(s))
    BY <1>1, <1>2, <1>7, <2>4, GrowsByOne
  <2>5. CASE \E s \in Side : tail' = Append(Append(tail, WithdrawalOp(s)), closing) /\ ~Ending
    BY <1>1, <1>2, <1>6, <1>7, <2>5, GrowsByTwo
  <2>. QED  BY <2>1, <2>2, <2>3, <2>4, <2>5
<1>. QED  BY <1>2, <1>3, <1>5, <1>8 DEF Move

LEMMA ResumedAlone == ASSUME ~failed, NEW p, NEW q, Resumed(p, q) PROVE ~Pending(p) /\ at[p] = q
BY DEF Resumed

LEMMA EndTaskMoves ==
  TypeOK /\ PathInv /\ ~failed /\ ~failed' /\ (EvidenceFails \/ EndNext) => Move
<1>. SUFFICES ASSUME TypeOK, PathInv, ~failed, ~failed', EvidenceFails \/ EndNext PROVE Move
  OBVIOUS
<1>. USE DEF lifecycle, participants, evidence
<1>1. /\ tail \in Seq(Op) /\ at \in [Activity -> Places]
      /\ \A q : /\ Goto("end", q)["ingress"] = at["ingress"]
                /\ Goto("end", q)["cmd"] = at["cmd"] /\ Goto("end", q)["end"] = q
  BY PlaceFacts DEF TypeOK, Activity
<1>2. ASSUME UNCHANGED <<status, connected, failed, control, consent>>, Ending, Ending',
             at'["ingress"] = at["ingress"], at'["cmd"] = at["cmd"],
             tail' = tail \/ \E op : tail' = Append(tail, op) /\ Puts(op)
      PROVE  Move
  <2>1. Settled /\ Turned
    BY <1>2 DEF Settled, Turned
  <2>2. Grown
    BY <1>1, <1>2, GrowsNot, GrowsByOne
  <2>. QED  BY <1>2, <2>1, <2>2 DEF Move
<1>3. CASE End
  BY <1>1, <1>3, EndMoves DEF End
<1>4. ASSUME NEW s \in Side, Withdraw(s) PROVE Move
  <2>1. /\ BeginEnd(at, Append(tail, WithdrawalOp(s)), FALSE)
        /\ consent[s] = "given" /\ consent' = [consent EXCEPT ![s] = "withdrawn"]
        /\ UNCHANGED <<connected, failed>>
    <3>1. failed = FALSE
      BY DEF TypeOK
    <3>. QED  BY <1>4, <3>1 DEF Withdraw, WithdrawalOp
  <2>. QED  BY <1>1, <2>1, EndMoves
<1>5. CASE EndCleaned \/ EndClosingSettled \/ EndClosed \/ EndDrained \/ EndAnnounced
  BY <1>1, <1>2, <1>5
  DEF EndCleaned, EndClosingSettled, EndClosed, EndDrained, EndAnnounced, Resumed, Ending
<1>6. CASE EndBackgroundDrained
  <2>1. /\ tail' = Append(tail, StatusOp("end", "closed")) /\ at' = Goto("end", "closed_event")
        /\ UNCHANGED <<status, connected, failed, control, consent>>
        /\ at["end"] = "background" /\ at["ingress"] = "stopped"
    BY <1>6 DEF EndBackgroundDrained, SetClosed, Enqueue, BackgroundSettled
  <2>2. Ending /\ Ending'
    BY <1>1, <2>1 DEF Ending
  <2>3. Puts(StatusOp("end", "closed"))
    BY <2>1, <2>2 DEF Puts, OpShape, ReadyOp, StatusOp
  <2>. QED  BY <1>1, <1>2, <2>1, <2>2, <2>3
<1>7. ASSUME NEW sealed \in BOOLEAN, Finalize(sealed) PROVE Move
  <2>1. /\ tail' = Append(tail, EventOp("end")) /\ at' = Goto("end", "session_closed")
        /\ UNCHANGED <<status, connected, failed, control, consent>>
        /\ at["end"] = "finalizing"
    BY <1>7 DEF Finalize, Enqueue
  <2>2. Ending /\ Ending'
    BY <1>1, <2>1 DEF Ending
  <2>3. Puts(EventOp("end"))
    BY <2>2 DEF Puts, OpShape, ReadyOp, EventOp
  <2>. QED  BY <1>1, <1>2, <2>1, <2>2, <2>3
<1>8. ~EvidenceFails /\ ~EndBackgroundTimeout /\ ~EndDrainTimeout
  BY DEF EvidenceFails, FailEvidence, EndBackgroundTimeout, EndDrainTimeout
<1>. QED  BY <1>3, <1>4, <1>5, <1>6, <1>7, <1>8 DEF EndNext

\* A step of the preparation or of a command that leaves the end and the
\* ingress where they are, and queues nothing or an operation of its own.
LEMMA OwnMoves ==
  ASSUME TypeOK, ~failed, UNCHANGED <<status, connected, failed, control, consent>>,
         at'["end"] = at["end"], at'["ingress"] = at["ingress"],
         at["cmd"] = "consent_event" /\ at'["cmd"] # "consent_event" => ~Pending("cmd"),
         tail' = tail \/ \E op : tail' = Append(tail, op) /\ Puts(op)
  PROVE  Move
<1>1. Settled /\ Turned
  BY DEF Settled, Turned, Ending
<1>2. Grown
  BY GrowsNot, GrowsByOne DEF TypeOK
<1>. QED  BY <1>1, <1>2 DEF Move

\* The status change that updateReadiness queues, by another activity than the ingress.
LEMMA ReadinessMoves ==
  ASSUME TypeOK, ~failed, NEW p \in {"cmd", "prep"}, NEW place, UpdateReadiness(p, place),
         p = "cmd" => ~Pending("cmd") /\ place # "consent_event",
         UNCHANGED <<status, connected, failed, control, consent>>
  PROVE  Move
<1>1. \A q : /\ Goto(p, q)["end"] = at["end"] /\ Goto(p, q)["ingress"] = at["ingress"]
             /\ p = "prep" => Goto(p, q)["cmd"] = at["cmd"]
  BY PlaceFacts DEF Activity
<1>2. /\ at'["end"] = at["end"] /\ at'["ingress"] = at["ingress"]
      /\ at["cmd"] = "consent_event" /\ at'["cmd"] # "consent_event" => ~Pending("cmd")
  BY <1>1, ReadinessUpdates
<1>3. /\ status = "ready" => Puts(StatusOp(p, "waiting"))
      /\ status = "waiting" /\ ~SomeoneLeft => Puts(StatusOp(p, "ready"))
  BY DEF Puts, OpShape, ReadyOp, StatusOp
<1>4. tail' = tail \/ \E op : tail' = Append(tail, op) /\ Puts(op)
  BY <1>3, ReadinessUpdates
<1>. QED  BY <1>2, <1>4, OwnMoves

LEMMA PrepMoves == TypeOK /\ PathInv /\ ~failed /\ ~failed' /\ PrepNext => Move
<1>. SUFFICES ASSUME TypeOK, PathInv, ~failed, ~failed', PrepNext PROVE Move
  OBVIOUS
<1>. USE DEF lifecycle, participants, evidence
<1>1. /\ \A q : /\ Goto("prep", q)["end"] = at["end"] /\ Goto("prep", q)["ingress"] = at["ingress"]
                /\ Goto("prep", q)["cmd"] = at["cmd"]
      /\ PrepDone["ingress"] = at["ingress"] /\ PrepDone["end"] = at["end"]
      /\ at["cmd"] = "consent_event" => PrepDone["cmd"] = "consent_event"
      /\ PrepDone \in [Activity -> Places]
  BY PlaceFacts, PrepDoneType, AtIsOK DEF Activity, AtOK
<1>2. /\ Puts(EventOp("prep"))
      /\ \A l : Puts([kind |-> "provider", owner |-> "prep", lane |-> l])
  BY PlainPuts DEF EventOp
<1>3. CASE PrepareSettles \/ PrepareFails
  <2>1. at'["end"] = at["end"] /\ at'["ingress"] = at["ingress"]
        /\ (at["cmd"] = "consent_event" => at'["cmd"] = "consent_event")
    BY <1>1, <1>3 DEF PrepareSettles, PrepareFails
  <2>2. tail' = tail \/ \E op : tail' = Append(tail, op) /\ Puts(op)
    BY <1>2, <1>3 DEF PrepareSettles, PrepareFails, Enqueue
  <2>3. UNCHANGED <<status, connected, failed, control, consent>>
    BY <1>3 DEF PrepareSettles, PrepareFails
  <2>. QED  BY <2>1, <2>2, <2>3, OwnMoves
<1>4. CASE PrepareEmitted
  <2>1. UNCHANGED <<status, connected, failed, control, consent>>
    BY <1>4 DEF PrepareEmitted
  <2>2. CASE UpdateReadiness("prep", "prep_status")
    BY <2>1, <2>2, ReadinessMoves
  <2>3. CASE ~UpdateReadiness("prep", "prep_status")
    <3>1. at'["end"] = at["end"] /\ at'["ingress"] = at["ingress"]
          /\ (at["cmd"] = "consent_event" => at'["cmd"] = "consent_event")
      BY <1>1, <1>4, <2>3 DEF PrepareEmitted
    <3>2. tail' = tail \/ \E op : tail' = Append(tail, op) /\ Puts(op)
      BY <1>2, <1>4, <2>3 DEF PrepareEmitted, Enqueue
    <3>. QED  BY <2>1, <3>1, <3>2, OwnMoves
  <2>. QED  BY <2>2, <2>3
<1>5. CASE PrepareFailureReported
  BY <1>1, <1>5, EndMoves DEF PrepareFailureReported
<1>. QED  BY <1>3, <1>4, <1>5 DEF PrepNext

LEMMA CmdMoves == TypeOK /\ PathInv /\ ~failed /\ ~failed' /\ CmdNext => Move
<1>. SUFFICES ASSUME TypeOK, PathInv, ~failed, ~failed', CmdNext PROVE Move
  OBVIOUS
<1>. USE DEF lifecycle, participants, evidence
<1>1. /\ \A q : /\ Goto("cmd", q)["end"] = at["end"] /\ Goto("cmd", q)["ingress"] = at["ingress"]
                /\ Goto("cmd", q)["cmd"] = q
      /\ at \in [Activity -> Places] /\ tail \in Seq(Op)
  BY PlaceFacts DEF Activity, TypeOK
<1>2. /\ Puts(EventOp("cmd")) /\ \A to : Puts(ArmOp(to))
      /\ status = "ready" => Puts(StatusOp("cmd", "active"))
      /\ status = "active" => Puts(ControlOp("cmd", "paused"))
      /\ status = "paused" => Puts(ControlOp("cmd", "active"))
  BY DEF Puts, OpShape, ReadyOp, EventOp, ArmOp, StatusOp, ControlOp
<1>3. ASSUME at'["end"] = at["end"], at'["ingress"] = at["ingress"],
             at["cmd"] # "consent_event" \/ ~Pending("cmd"),
             UNCHANGED <<status, connected, failed, control, consent>>,
             tail' = tail \/ \E op : tail' = Append(tail, op) /\ Puts(op)
      PROVE  Move
  BY <1>3, OwnMoves
<1>4. \A allow, q : Refresh(allow, q) => at'["end"] = at["end"] /\ at'["ingress"] = at["ingress"]
  <2>. SUFFICES ASSUME NEW allow, NEW q, Refresh(allow, q)
                PROVE  at'["end"] = at["end"] /\ at'["ingress"] = at["ingress"]
    OBVIOUS
  <2>. DEFINE a == BeginPreparation(at, allow, {})
  <2>1. a \in [Activity -> Places] /\ a["end"] = at["end"] /\ a["ingress"] = at["ingress"]
    BY <1>1 DEF BeginPreparation, Activity, Places, PrepPlace
  <2>2. \E c : at' = [a EXCEPT !["cmd"] = c]
    BY DEF Refresh
  <2>. HIDE DEF a
  <2>. QED  BY <2>1, <2>2 DEF Activity
<1>5. CASE Start \/ Resume \/ RefreshContinues
  <2>1. at'["end"] = at["end"] /\ at'["ingress"] = at["ingress"]
    BY <1>1, <1>4, <1>5 DEF Start, Resume, RefreshContinues, BeginRefresh
  <2>2. at["cmd"] # "consent_event"
    BY <1>5 DEF Start, Resume, RefreshContinues, CommandTurn
  <2>3. UNCHANGED <<status, connected, failed, control, consent, tail>>
    BY <1>5 DEF Start, Resume, RefreshContinues
  <2>. QED  BY <1>3, <2>1, <2>2, <2>3
<1>6. CASE StartPrepared \/ ControlSettled
  BY <1>1, <1>2, <1>3, <1>6 DEF StartPrepared, ControlSettled, Resumed, Enqueue
<1>7. ASSUME NEW to \in {"active", "paused"}, NEW place, BeginControl(to, place),
             to = "active" => status = "paused",
             to = "paused" => status = "active" /\ ~Ending,
             at["cmd"] # "consent_event", UNCHANGED <<connected, failed, consent>>
      PROVE  Move
  <2>1. /\ at' = Goto("cmd", place) /\ tail' = Append(tail, ControlOp("cmd", to))
        /\ control' = to /\ UNCHANGED status
    BY <1>7 DEF BeginControl, Enqueue
  <2>2. Grown
    BY <1>1, <1>2, <1>7, <2>1, GrowsByOne
  <2>3. Settled
    BY <1>1, <1>7, <2>1 DEF Settled
  <2>4. Ending' = Ending
    BY <1>1, <2>1 DEF Ending
  <2>5. Turned
    BY <1>7, <2>1, <2>4 DEF Turned
  <2>. QED  BY <1>7, <2>1, <2>2, <2>3, <2>5 DEF Move
<1>8. CASE ResumePrepared
  <2>1. at["cmd"] # "consent_event" /\ UNCHANGED <<connected, failed, consent>>
    BY <1>8 DEF ResumePrepared
  <2>2. CASE status = "paused" /\ ResumePrerequisites
    <3>1. BeginControl("active", "resume_status")
      BY <1>8, <2>2 DEF ResumePrepared
    <3>. QED  BY <1>7, <2>1, <2>2, <3>1
  <2>3. CASE ~(status = "paused" /\ ResumePrerequisites)
    BY <1>1, <1>3, <1>8, <2>3 DEF ResumePrepared
  <2>. QED  BY <2>2, <2>3
<1>9. CASE Pause
  BY <1>7, <1>9 DEF Pause, CommandTurn
<1>10. ASSUME NEW s \in Side, Consent(s) PROVE Move
  <2>. DEFINE op == [kind |-> "consent", owner |-> "cmd", side |-> s]
  <2>1. /\ tail' = Append(tail, op) /\ at' = Goto("cmd", "consent_event")
        /\ at["cmd"] = "idle" /\ consent[s] = "none"
        /\ UNCHANGED <<status, connected, failed, control, consent>>
    BY <1>10 DEF Consent, Enqueue, CommandTurn
  <2>2. Puts(op)
    BY <1>1, <2>1 DEF Puts, OpShape, ReadyOp
  <2>. HIDE DEF op
  <2>. QED  BY <1>1, <1>3, <2>1, <2>2
<1>11. CASE ConsentRecorded \/ ArmSettled
  <2>1. ~Pending("cmd") /\ UNCHANGED <<status, connected, failed, control, consent>>
    BY <1>11 DEF ConsentRecorded, ArmSettled, Resumed
  <2>2. CASE UpdateReadiness("cmd", "consent_status") \/ UpdateReadiness("cmd", "arm_status")
    BY <2>1, <2>2, ReadinessMoves
  <2>3. CASE ~(UpdateReadiness("cmd", "consent_status") \/ UpdateReadiness("cmd", "arm_status"))
    <3>1. at'["end"] = at["end"] /\ at'["ingress"] = at["ingress"]
      BY <1>1, <1>11, <2>3 DEF ConsentRecorded, ArmSettled
    <3>2. tail' = tail \/ \E op : tail' = Append(tail, op) /\ Puts(op)
      BY <1>2, <1>11, <2>3 DEF ConsentRecorded, ArmSettled, Enqueue
    <3>. QED  BY <1>3, <2>1, <3>1, <3>2
  <2>. QED  BY <2>2, <2>3
<1>12. CASE ArmRecorder \/ ArmArming \/ ArmPreflight \/ ArmPreflightRecorded \/ ArmFlushed
  <2>1. at'["end"] = at["end"] /\ at'["ingress"] = at["ingress"]
    BY <1>1, <1>12 DEF ArmRecorder, ArmArming, ArmPreflight, ArmPreflightRecorded, ArmFlushed
  <2>2. at["cmd"] # "consent_event" /\ UNCHANGED <<status, connected, failed, control, consent>>
    BY <1>12 DEF ArmRecorder, ArmArming, ArmPreflight, ArmPreflightRecorded, ArmFlushed,
                 CommandTurn, Resumed
  <2>3. tail' = tail \/ \E op : tail' = Append(tail, op) /\ Puts(op)
    BY <1>2, <1>12
    DEF ArmRecorder, ArmArming, ArmPreflight, ArmPreflightRecorded, ArmFlushed, Enqueue
  <2>. QED  BY <1>3, <2>1, <2>2, <2>3
<1>13. ~ArmFails
  BY DEF ArmFails, FailEvidence
<1>. QED
  BY <1>5, <1>6, <1>8, <1>9, <1>10, <1>11, <1>12, <1>13 DEF CmdNext

LEMMA IngressMoves == TypeOK /\ PathInv /\ ~failed /\ ~failed' /\ IngressNext => Move
<1>. SUFFICES ASSUME TypeOK, PathInv, ~failed, ~failed', IngressNext PROVE Move
  OBVIOUS
<1>. USE DEF lifecycle, participants, evidence
<1>1. /\ \A q : /\ Goto("ingress", q)["end"] = at["end"]
                /\ Goto("ingress", q)["cmd"] = at["cmd"]
                /\ Goto("ingress", q)["ingress"] = q
      /\ tail \in Seq(Op) /\ \A i \in DOMAIN tail : tail[i] \in Op
      /\ status \in Status
  BY PlaceFacts DEF Activity, TypeOK
<1>2. UNCHANGED <<status, connected, failed, control, consent>>
  BY DEF IngressNext, ParticipantState, ParticipantReadiness, IngressRecorded, DropRecorded,
         DropSettled, IngressEnds
<1>3. at["ingress"] = "idle" => ~Pending("ingress")
  BY DEF PathInv, Shapes, IngressShape, Pending
<1>4. ASSUME at'["end"] = at["end"], at["cmd"] = "consent_event" => at'["cmd"] = "consent_event",
             at["ingress"] # "stopped", ~Pending("ingress"),
             \/ tail' = tail /\ at'["ingress"] \notin {"drop_event", "drop_status"}
             \/ \E op : tail' = Append(tail, op) /\ Puts(op) /\ op.owner = "ingress"
      PROVE  Move
  <2>1. Settled /\ Turned
    BY <1>2, <1>4 DEF Settled, Turned, Ending
  <2>2. Grown
    BY <1>1, <1>4, GrowsNot, GrowsByOne
  <2>. QED  BY <1>2, <2>1, <2>2 DEF Move
<1>5. ASSUME NEW s \in Side, NEW c \in BOOLEAN, ParticipantState(s, c) PROVE Move
  <2>. DEFINE op == [kind |-> "connection", owner |-> "ingress", side |-> s, to |-> c]
              place == IF ~c /\ connected[s] /\ status \in {"active", "paused"}
                       THEN "drop_event" ELSE "state_event"
  <2>1. /\ tail' = Append(tail, op) /\ at' = Goto("ingress", place)
        /\ at["ingress"] = "idle" /\ (Ending => ~c)
    BY <1>5 DEF ParticipantState, IngressTurn, Enqueue
  <2>2. at'["ingress"] = place /\ at'["end"] = at["end"] /\ at'["cmd"] = at["cmd"]
    BY <1>1, <2>1
  <2>3. Puts(op)
    BY <1>3, <2>1, <2>2 DEF Puts, OpShape, ReadyOp, IngressShape
  <2>4. op.owner = "ingress"
    OBVIOUS
  <2>. HIDE DEF op, place
  <2>. QED  BY <1>3, <1>4, <2>1, <2>2, <2>3, <2>4
<1>6. ASSUME NEW s \in Side, NEW r \in {"accepted", "stopped"}, ParticipantReadiness(s, r) PROVE Move
  <2>. DEFINE op == [kind |-> "readiness", owner |-> "ingress", side |-> s, to |-> r]
  <2>1. /\ tail' = Append(tail, op) /\ at' = Goto("ingress", "readiness_event")
        /\ at["ingress"] = "idle"
    BY <1>6 DEF ParticipantReadiness, IngressTurn, Enqueue
  <2>2. at'["ingress"] = "readiness_event" /\ at'["end"] = at["end"] /\ at'["cmd"] = at["cmd"]
    BY <1>1, <2>1
  <2>3. Puts(op)
    BY <1>3, <2>1, <2>2 DEF Puts, OpShape, ReadyOp, IngressShape
  <2>4. op.owner = "ingress"
    OBVIOUS
  <2>. HIDE DEF op
  <2>. QED  BY <1>3, <1>4, <2>1, <2>2, <2>3, <2>4
<1>7. ASSUME UpdateReadiness("ingress", "ingress_status"), ~Pending("ingress"),
             at["ingress"] # "stopped"
      PROVE  Move
  <2>1. CASE tail' = tail /\ at'["ingress"] = "idle" /\ at'["end"] = at["end"]
             /\ (at["cmd"] = "consent_event" => at'["cmd"] = "consent_event")
    BY <1>4, <1>7, <2>1
  <2>2. ASSUME at' = Goto("ingress", "ingress_status"), NEW to,
               tail' = Append(tail, StatusOp("ingress", to)),
               \/ to = "waiting" /\ status = "ready"
               \/ to = "ready" /\ status = "waiting" /\ ~SomeoneLeft
        PROVE  Move
    <3>1. /\ at'["ingress"] = "ingress_status" /\ at'["end"] = at["end"]
          /\ at'["cmd"] = at["cmd"]
      BY <1>1, <2>2
    <3>2. Puts(StatusOp("ingress", to)) /\ StatusOp("ingress", to).owner = "ingress"
      BY <1>7, <2>2, <3>1 DEF Puts, OpShape, ReadyOp, IngressShape, StatusOp
    <3>. QED  BY <1>4, <1>7, <2>2, <3>1, <3>2
  <2>. QED  BY <1>7, <2>1, <2>2, ReadinessUpdates
<1>8. CASE IngressRecorded \/ DropRecorded \/ DropSettled
  <2>1. ~Pending("ingress") /\ at["ingress"] # "stopped"
    BY <1>8 DEF IngressRecorded, DropRecorded, DropSettled, Resumed
  <2>2. CASE UpdateReadiness("ingress", "ingress_status")
    BY <1>7, <2>1, <2>2
  <2>3. CASE ~UpdateReadiness("ingress", "ingress_status") /\ ~DropRecorded
    <3>1. tail' = tail /\ at' = Goto("ingress", "idle")
      BY <1>8, <2>3 DEF IngressRecorded, DropSettled
    <3>. QED  BY <1>1, <1>4, <2>1, <3>1
  <2>4. CASE ~UpdateReadiness("ingress", "ingress_status") /\ DropRecorded
    <3>1. /\ tail' = Append(tail, StatusOp("ingress", "waiting"))
          /\ at' = Goto("ingress", "drop_status") /\ at["ingress"] = "drop_event"
      BY <2>4 DEF DropRecorded, Enqueue, Resumed
    <3>2. status \in {"active", "paused", "closing"}
      BY <1>1, <3>1 DEF PathInv, Dropping, EndedShape, Status
    <3>3. /\ at'["ingress"] = "drop_status" /\ at'["end"] = at["end"]
          /\ at'["cmd"] = at["cmd"]
      BY <1>1, <3>1
    <3>4. Puts(StatusOp("ingress", "waiting")) /\ StatusOp("ingress", "waiting").owner = "ingress"
      BY <2>1, <3>1, <3>2, <3>3 DEF Puts, OpShape, ReadyOp, IngressShape, StatusOp
    <3>. QED  BY <1>4, <2>1, <3>1, <3>3, <3>4
  <2>. QED  BY <2>2, <2>3, <2>4
<1>9. CASE IngressEnds
  BY <1>1, <1>3, <1>4, <1>9 DEF IngressEnds
<1>. QED  BY <1>5, <1>6, <1>8, <1>9 DEF IngressNext

\* While the evidence is intact a step that does not commit is a Move.
LEMMA StepMoves == TypeOK /\ PathInv /\ Next /\ ~Commit /\ ~failed' => ~failed /\ Move
BY IntactBefore, EndTaskMoves, PrepMoves, CmdMoves, IngressMoves DEF Next

-----------------------------------------------------------------------------
(***************************************************************************)
(* The path is kept.                                                       *)
(***************************************************************************)
LEMMA NoReadyGrows ==
  ASSUME Grown, NoReadyOp(tail), status # "waiting" \/ SomeoneLeft
  PROVE  NoReadyOp(tail')
BY DEF Grown, Added, NoReadyOp, Puts

LEMMA PendingStays == ASSUME Grown, NEW p, Pending(p) PROVE Pending(p)'
BY DEF Grown, Pending

LEMMA MoveKeepsPath ==
  ASSUME TypeOK, TypeOK', PathInv, ~failed, Move
  PROVE  PathInv'
<1>1. /\ Shapes /\ Single /\ Dropping /\ EndedShape /\ (Terminating => Ending)
      /\ UNCHANGED <<status, connected, failed>> /\ Grown /\ Settled /\ Turned
      /\ Ending => Ending'
      /\ \A s \in Side : consent'[s] = consent[s] \/ consent[s] = "given"
      /\ SomeoneLeft' = SomeoneLeft
      /\ \A i \in DOMAIN tail : tail[i] \in Op
      /\ \A i \in DOMAIN tail' : tail'[i] \in Op
  BY DEF PathInv, Move, Turned, TypeOK, SomeoneLeft
<1>2. \A i \in DOMAIN tail' : (i \in DOMAIN tail /\ tail'[i] = tail[i]) \/ i \in Added
  BY <1>1 DEF Grown, Added
<1>3. /\ \A op \in Op : op.kind = "consent" => op.owner = "cmd" /\ op.side \in Side
      /\ \A op \in Op : op.kind = "connection" => op.owner = "ingress"
  BY DEF Op
<1>4. Shapes'
  <2>. SUFFICES ASSUME NEW i \in DOMAIN tail'
                PROVE  /\ OpShape(tail'[i]) /\ IngressShape(tail'[i], at'["ingress"])
                       /\ tail'[i].kind = "consent" =>
                            at'["cmd"] = "consent_event" /\ consent'[tail'[i].side] = "none"
                       /\ tail'[i].owner = "end" => Ending'
    BY DEF Shapes, ConsentShape
  <2>1. CASE i \in DOMAIN tail /\ tail'[i] = tail[i]
    <3>1. OpShape(tail[i]) /\ (tail[i].owner = "end" => Ending')
      BY <1>1, <2>1 DEF Shapes
    <3>2. IngressShape(tail[i], at'["ingress"])
      BY <1>1, <2>1 DEF Shapes, Settled, IngressShape, Pending
    <3>3. tail[i].kind = "consent" =>
            at'["cmd"] = "consent_event" /\ consent'[tail[i].side] = "none"
      <4>1. tail[i] \in Op /\ ConsentShape(tail[i])
        BY <1>1, <2>1 DEF Shapes
      <4>. SUFFICES ASSUME tail[i].kind = "consent"
                    PROVE  at'["cmd"] = "consent_event" /\ consent'[tail[i].side] = "none"
        OBVIOUS
      <4>2. tail[i].owner = "cmd" /\ tail[i].side \in Side
        BY <1>3, <4>1
      <4>3. at["cmd"] = "consent_event" /\ consent[tail[i].side] = "none"
        BY <4>1 DEF ConsentShape
      <4>4. at'["cmd"] = "consent_event"
        BY <1>1, <2>1, <4>2, <4>3 DEF Settled, Pending
      <4>. QED  BY <1>1, <4>2, <4>3, <4>4
    <3>. QED  BY <2>1, <3>1, <3>2, <3>3
  <2>2. CASE i \in Added
    <3>1. Puts(tail'[i])
      BY <1>1, <2>2 DEF Grown
    <3>2. tail'[i].kind = "consent" => consent'[tail'[i].side] = "none"
      <4>. SUFFICES ASSUME tail'[i].kind = "consent" PROVE consent'[tail'[i].side] = "none"
        OBVIOUS
      <4>1. tail'[i] \in Op
        BY <1>1
      <4>2. tail'[i].side \in Side
        BY <1>3, <4>1
      <4>3. consent[tail'[i].side] = "none"
        BY <3>1 DEF Puts
      <4>. QED  BY <1>1, <4>2, <4>3
    <3>. QED  BY <3>1, <3>2 DEF Puts, IngressShape
  <2>. QED  BY <1>2, <2>1, <2>2
<1>5. Single'
  <2>. SUFFICES ASSUME NEW i \in DOMAIN tail', NEW j \in DOMAIN tail', i # j
                PROVE  /\ ~(tail'[i].owner = "ingress" /\ tail'[j].owner = "ingress")
                       /\ ~(tail'[i].kind = "consent" /\ tail'[j].kind = "consent")
    BY DEF Single
  <2>1. CASE i \in DOMAIN tail /\ tail'[i] = tail[i] /\ j \in DOMAIN tail /\ tail'[j] = tail[j]
    BY <1>1, <2>1 DEF Single
  <2>2. CASE i \in Added /\ j \in Added
    <3>1. tail'[i].owner \in {"none", "end"}
      BY <1>1, <2>2 DEF Grown
    <3>2. tail'[i] \in Op /\ tail'[j] \in Op
      BY <1>1
    <3>3. tail'[i].kind # "consent"
      BY <1>3, <3>1, <3>2
    <3>. QED  BY <3>1, <3>3
  <2>3. ASSUME NEW x \in DOMAIN tail, NEW y \in Added
        PROVE  /\ ~(tail[x].owner = "ingress" /\ tail'[y].owner = "ingress")
               /\ ~(tail[x].kind = "consent" /\ tail'[y].kind = "consent")
    <3>1. Puts(tail'[y])
      BY <1>1 DEF Grown
    <3>. QED  BY <1>1, <3>1 DEF Puts, Pending, Shapes, ConsentShape
  <2>. QED  BY <1>2, <2>1, <2>2, <2>3
<1>6. Dropping'
  <2>1. ASSUME at'["ingress"] \in {"drop_event", "drop_status"}, at'["ingress"] # at["ingress"]
        PROVE  Dropping'
    <3>1. PICK i \in Added : tail'[i].owner = "ingress"
      BY <1>1, <2>1 DEF Grown
    <3>2. Puts(tail'[i]) /\ i \in DOMAIN tail' /\ \A j \in DOMAIN tail : i > j
      BY <1>1 DEF Grown, Added
    <3>3. Pending("ingress")' /\ ~Pending("ingress")
      BY <3>1, <3>2 DEF Pending, Puts
    <3>4. CASE at'["ingress"] = "drop_event"
      <4>1. status \in {"active", "paused"}
        BY <3>1, <3>2, <3>4 DEF Puts
      <4>2. \A j \in Added : ~ReadyOp(tail'[j])
        BY <1>1, <4>1 DEF Grown, Puts
      <4>3. \A j \in DOMAIN tail' : ReadyOp(tail'[j]) => i > j
        BY <1>2, <3>2, <4>2
      <4>. QED  BY <1>1, <3>1, <3>2, <3>3, <3>4, <4>1, <4>3 DEF Dropping
    <3>5. CASE at'["ingress"] = "drop_status"
      <4>1. at["ingress"] = "drop_event"
        BY <3>1, <3>2, <3>5 DEF Puts
      <4>2. SomeoneLeft /\ status \notin {"waiting", "ready"} /\ NoReadyOp(tail)
        BY <1>1, <3>3, <4>1 DEF Dropping, NoReadyOp, Pending
      <4>3. NoReadyOp(tail')
        BY <1>1, <4>2, NoReadyGrows
      <4>. QED  BY <1>1, <3>5, <4>2, <4>3 DEF Dropping
    <3>. QED  BY <2>1, <3>4, <3>5
  <2>2. ASSUME at'["ingress"] = "drop_event", at["ingress"] = "drop_event"
        PROVE  Dropping'
    <3>1. status \notin {"waiting", "ready"} /\ (Pending("ingress") \/ SomeoneLeft)
      BY <1>1, <2>2 DEF Dropping
    <3>2. Pending("ingress")' \/ SomeoneLeft'
      BY <1>1, <3>1, PendingStays
    <3>3. ASSUME NEW j \in DOMAIN tail', ReadyOp(tail'[j])
          PROVE  \E i \in DOMAIN tail' : i > j /\ tail'[i].owner = "ingress"
      <4>1. j \notin Added
        BY <1>1, <3>1, <3>3 DEF Grown, Puts
      <4>2. j \in DOMAIN tail /\ ReadyOp(tail[j])
        BY <1>2, <3>3, <4>1
      <4>3. PICK i \in DOMAIN tail : i > j /\ tail[i].owner = "ingress"
        BY <1>1, <2>2, <4>2 DEF Dropping
      <4>. QED  BY <1>1, <4>3 DEF Grown
    <3>. QED  BY <1>1, <2>2, <3>1, <3>2, <3>3 DEF Dropping
  <2>3. ASSUME at'["ingress"] = "drop_status", at["ingress"] = "drop_status"
        PROVE  Dropping'
    <3>1. SomeoneLeft'
      BY <1>1, <2>3 DEF Dropping
    <3>2. ASSUME Pending("ingress")'
          PROVE  status \notin {"waiting", "ready"} /\ NoReadyOp(tail')
      <4>1. \A i \in Added : tail'[i].owner # "ingress"
        BY <1>1, <2>3 DEF Grown, Puts
      <4>2. Pending("ingress")
        BY <1>2, <3>2, <4>1 DEF Pending
      <4>3. status \notin {"waiting", "ready"} /\ NoReadyOp(tail)
        BY <1>1, <2>3, <4>2 DEF Dropping
      <4>. QED  BY <1>1, <4>3, NoReadyGrows
    <3>. QED  BY <1>1, <2>3, <3>1, <3>2 DEF Dropping
  <2>4. CASE at'["ingress"] \notin {"drop_event", "drop_status"}
    BY <2>4 DEF Dropping
  <2>. QED  BY <2>1, <2>2, <2>3, <2>4
<1>7. EndedShape'
  <2>1. ASSUME Ending', control' = "none"
        PROVE  /\ status' \notin {"ready", "paused"}
               /\ status' = "waiting" =>
                    /\ NoReadyOp(tail') /\ SomeoneLeft'
                    /\ \A i \in DOMAIN tail' : ~(tail'[i].kind = "connection" /\ tail'[i].to = TRUE)
    <3>1. Ending /\ control = "none"
      BY <1>1, <2>1 DEF Turned
    <3>2. ASSUME status = "waiting"
          PROVE  /\ NoReadyOp(tail) /\ SomeoneLeft
                 /\ \A i \in DOMAIN tail : ~(tail[i].kind = "connection" /\ tail[i].to = TRUE)
      BY <1>1, <3>1, <3>2 DEF EndedShape
    <3>3. \A i \in Added : ~(tail'[i].kind = "connection" /\ tail'[i].to = TRUE)
      BY <1>1, <1>3, <3>1 DEF Grown, Puts, Added
    <3>. QED  BY <1>1, <1>2, <3>1, <3>2, <3>3, NoReadyGrows DEF EndedShape
  <2>2. ASSUME status' = "closed" \/ (\E i \in DOMAIN tail' : tail'[i].kind = "status"
                                                            /\ tail'[i].to = "closed")
        PROVE  at'["ingress"] = "stopped"
    <3>1. at["ingress"] = "stopped"
      <4>1. \A i \in Added : tail'[i].kind = "status" /\ tail'[i].to = "closed"
                              => at["ingress"] = "stopped"
        BY <1>1 DEF Grown, Puts
      <4>. QED  BY <1>1, <1>2, <2>2, <4>1 DEF EndedShape
    <3>. QED  BY <1>1, <3>1 DEF Settled
  <2>3. control' = "paused" => ~Ending'
    BY <1>1 DEF Turned, EndedShape
  <2>. QED  BY <2>1, <2>2, <2>3 DEF EndedShape
<1>8. (Terminating => Ending)'
  BY <1>1 DEF Terminating
<1>. QED  BY <1>4, <1>5, <1>6, <1>7, <1>8 DEF PathInv

\* The head of the tail and what is behind it.
LEMMA TailBehind ==
  ASSUME TypeOK, tail # <<>>, tail' = Tail(tail)
  PROVE  /\ 1 \in DOMAIN tail /\ Head(tail) = tail[1] /\ Head(tail) \in Op
         /\ \A i \in DOMAIN tail' :
              i + 1 \in DOMAIN tail /\ i + 1 # 1 /\ tail'[i] = tail[i + 1] /\ tail[i + 1] \in Op
         /\ \A i \in DOMAIN tail : i = 1 \/ (i - 1 \in DOMAIN tail' /\ tail'[i - 1] = tail[i])
         /\ DOMAIN tail \subseteq Nat /\ DOMAIN tail' \subseteq Nat
<1>1. /\ tail \in Seq(Op) /\ Len(tail) \in Nat /\ Len(tail) >= 1 /\ DOMAIN tail = 1 .. Len(tail)
      /\ Head(tail) = tail[1] /\ \A i \in DOMAIN tail : tail[i] \in Op
      /\ DOMAIN tail' = 1 .. Len(tail) - 1
      /\ \A i \in 1 .. Len(tail) - 1 : tail'[i] = tail[i + 1]
  BY DEF TypeOK
<1>. QED  BY <1>1

\* What an operation that commits changes, while the evidence is intact.
Moved(op) ==
  /\ op.kind \in {"status", "control"} /\ status = op.prev
  /\ op.kind = "status" => control = "none"
  /\ op.kind = "control" => control = op.to
  /\ status' = op.to /\ control' = "none"

LEMMA CommitEffect ==
  ASSUME TypeOK, Commit, ~failed
  PROVE  /\ tail # <<>> /\ tail' = Tail(tail) /\ UNCHANGED <<failed, at>>
         /\ UNCHANGED <<status, control>> \/ Moved(Head(tail))
         /\ connected' = IF Head(tail).kind = "connection"
                         THEN [connected EXCEPT ![Head(tail).side] = Head(tail).to]
                         ELSE connected
         /\ consent' = IF Head(tail).kind = "consent"
                       THEN [consent EXCEPT ![Head(tail).side] = "given"] ELSE consent
<1>. DEFINE op == Head(tail)
<1>. USE DEF lifecycle, participants
<1>1. CASE CommitStatus(op)
  BY <1>1 DEF Commit, CommitStatus, StillExpected, Apply, Moved
<1>2. CASE CommitConnection(op)
  BY <1>2 DEF Commit, CommitConnection
<1>3. CASE CommitConsent(op)
  BY <1>3 DEF Commit, CommitConsent
<1>4. CASE CommitReadiness(op) \/ CommitArm(op) \/ CommitProvider(op) \/ CommitWithdrawal(op)
           \/ CommitEvent(op)
  BY <1>4 DEF Commit, CommitReadiness, CommitArm, CommitProvider, CommitWithdrawal, CommitEvent
<1>. QED  BY <1>1, <1>2, <1>3, <1>4 DEF Commit

\* The status changes that can find the status they expect, by what they ask for.
LEMMA Changes ==
  ASSUME TypeOK, PathInv, ~failed, tail # <<>>, Moved(Head(tail))
  PROVE  \/ ~Ending /\ status = "waiting" /\ status' = "ready"
         \/ ~Ending /\ status = "ready" /\ status' \in {"active", "waiting"}
         \/ ~Ending /\ status = "active" /\ status' = "paused"
         \/ status = "paused" /\ status' = "active"
         \/ /\ status' = "waiting"
            /\ status \in {"active", "closing"} \/ (status = "paused" /\ ~Ending)
            /\ at["ingress"] = "drop_status" /\ Head(tail).owner = "ingress"
         \/ Ending /\ status # "closed" /\ status' = "closing"
         \/ Ending /\ status' = "closed" /\ at["ingress"] = "stopped"
<1>. DEFINE op == Head(tail)
<1>1. 1 \in DOMAIN tail /\ op = tail[1]
  BY DEF TypeOK
<1>2. /\ OpShape(op) /\ IngressShape(op, at["ingress"]) /\ (op.owner = "end" => Ending)
      /\ Moved(op) /\ EndedShape
  BY <1>1 DEF PathInv, Shapes
<1>3. Ending /\ control = "none" /\ status = "waiting" => ~ReadyOp(op)
  BY <1>1, <1>2 DEF EndedShape, NoReadyOp
<1>4. op.kind = "status" /\ op.to = "closed" => at["ingress"] = "stopped"
  BY <1>1, <1>2 DEF EndedShape
<1>. HIDE DEF op
<1>5. CASE op.kind = "status"
  <2>1. /\ status = op.prev /\ status' = op.to /\ control = "none"
        /\ Ending => status \notin {"ready", "paused"}
    BY <1>2, <1>5 DEF Moved, EndedShape
  <2>2. CASE op.to = "ready" /\ op.prev = "waiting"
    BY <1>3, <1>5, <2>1, <2>2 DEF ReadyOp
  <2>3. CASE op.to \in {"active", "waiting"} /\ op.prev = "ready"
    BY <2>1, <2>3
  <2>4. CASE /\ op.to = "waiting" /\ op.owner = "ingress"
             /\ op.prev \in {"active", "paused", "closing"}
    <3>1. at["ingress"] = "drop_status"
      BY <1>2, <1>5, <2>4 DEF IngressShape
    <3>. QED  BY <2>1, <2>4, <3>1 DEF op
  <2>5. CASE op.to = "closed" /\ op.owner = "end"
    BY <1>2, <1>4, <1>5, <2>1, <2>5
  <2>. QED  BY <1>2, <1>5, <2>2, <2>3, <2>4, <2>5 DEF OpShape
<1>6. CASE op.kind = "control"
  BY <1>2, <1>6 DEF OpShape, Moved, EndedShape
<1>. QED  BY <1>2, <1>5, <1>6 DEF Moved

LEMMA CommitKeepsPath ==
  ASSUME TypeOK, TypeOK', PathInv, Commit
  PROVE  PathInv'
<1>. DEFINE op == Head(tail)
<1>1. failed' = failed /\ at' = at /\ Ending' = Ending
  BY DEF Commit, Ending
<1>2. CASE failed
  <2>1. UNCHANGED status
    BY <1>2 DEF Commit, lifecycle
  <2>. QED  BY <1>1, <1>2, <2>1 DEF PathInv, Terminating
<1>3. CASE ~failed
  <2>1. /\ Shapes /\ Single /\ Dropping /\ EndedShape /\ (Terminating => Ending)
        /\ tail # <<>> /\ tail' = Tail(tail)
        /\ UNCHANGED <<status, control>> \/ Moved(op)
        /\ connected' = IF op.kind = "connection"
                        THEN [connected EXCEPT ![op.side] = op.to] ELSE connected
        /\ consent' = IF op.kind = "consent"
                      THEN [consent EXCEPT ![op.side] = "given"] ELSE consent
    BY <1>3, CommitEffect DEF PathInv
  <2>2. /\ 1 \in DOMAIN tail /\ op = tail[1] /\ op \in Op
        /\ \A i \in DOMAIN tail' :
             i + 1 \in DOMAIN tail /\ i + 1 # 1 /\ tail'[i] = tail[i + 1] /\ tail[i + 1] \in Op
        /\ \A i \in DOMAIN tail : i = 1 \/ (i - 1 \in DOMAIN tail' /\ tail'[i - 1] = tail[i])
        /\ DOMAIN tail \subseteq Nat /\ DOMAIN tail' \subseteq Nat
    BY <2>1, TailBehind
  <2>3. /\ \A x \in Op : x.kind = "consent" => x.owner = "cmd" /\ x.side \in Side
        /\ \A x \in Op : x.kind = "connection" => x.owner = "ingress" /\ x.side \in Side
                                                  /\ x.to \in BOOLEAN
    BY DEF Op
  <2>4. /\ OpShape(op) /\ IngressShape(op, at["ingress"]) /\ ConsentShape(op)
        /\ op.owner = "end" => Ending
    BY <2>1, <2>2 DEF Shapes
  <2>5. connected \in [Side -> BOOLEAN] /\ consent \in [Side -> {"none", "given", "withdrawn"}]
    BY DEF TypeOK
  <2>. HIDE DEF op
  <2>6. \/ UNCHANGED <<status, control>>
        \/ /\ control' = "none"
           /\ \/ ~Ending /\ status = "waiting" /\ status' = "ready"
              \/ ~Ending /\ status = "ready" /\ status' \in {"active", "waiting"}
              \/ ~Ending /\ status = "active" /\ status' = "paused"
              \/ status = "paused" /\ status' = "active"
              \/ status' = "waiting" /\ at["ingress"] = "drop_status" /\ op.owner = "ingress"
              \/ Ending /\ status # "closed" /\ status' = "closing"
              \/ Ending /\ status' = "closed" /\ at["ingress"] = "stopped"
    <3>. SUFFICES ASSUME Moved(op)
                  PROVE  /\ control' = "none"
                         /\ \/ ~Ending /\ status = "waiting" /\ status' = "ready"
                            \/ ~Ending /\ status = "ready" /\ status' \in {"active", "waiting"}
                            \/ ~Ending /\ status = "active" /\ status' = "paused"
                            \/ status = "paused" /\ status' = "active"
                            \/ status' = "waiting" /\ at["ingress"] = "drop_status"
                               /\ op.owner = "ingress"
                            \/ Ending /\ status # "closed" /\ status' = "closing"
                            \/ Ending /\ status' = "closed" /\ at["ingress"] = "stopped"
      BY <2>1
    <3>1. control' = "none"
      BY DEF Moved
    <3>. QED  BY <1>3, <2>1, <3>1, Changes DEF op
  <2>7. Shapes'
    <3>. SUFFICES ASSUME NEW i \in DOMAIN tail'
                  PROVE  /\ OpShape(tail'[i]) /\ IngressShape(tail'[i], at'["ingress"])
                         /\ tail'[i].kind = "consent" =>
                              at'["cmd"] = "consent_event" /\ consent'[tail'[i].side] = "none"
                         /\ tail'[i].owner = "end" => Ending'
      BY DEF Shapes, ConsentShape
    <3>1. /\ OpShape(tail'[i]) /\ IngressShape(tail'[i], at'["ingress"])
          /\ tail'[i].owner = "end" => Ending'
      BY <1>1, <2>1, <2>2 DEF Shapes
    <3>2. ASSUME tail'[i].kind = "consent"
          PROVE  at'["cmd"] = "consent_event" /\ consent'[tail'[i].side] = "none"
      <4>1. at["cmd"] = "consent_event" /\ consent[tail[i + 1].side] = "none"
        BY <2>1, <2>2, <3>2 DEF Shapes, ConsentShape
      <4>2. op.kind # "consent"
        BY <2>1, <2>2, <3>2 DEF Single
      <4>. QED  BY <1>1, <2>1, <2>2, <4>1, <4>2
    <3>. QED  BY <3>1, <3>2
  <2>8. Single'
    <3>. SUFFICES ASSUME NEW i \in DOMAIN tail', NEW j \in DOMAIN tail', i # j
                  PROVE  /\ ~(tail'[i].owner = "ingress" /\ tail'[j].owner = "ingress")
                         /\ ~(tail'[i].kind = "consent" /\ tail'[j].kind = "consent")
      BY DEF Single
    <3>1. i + 1 # j + 1
      BY <2>2
    <3>. QED  BY <2>1, <2>2, <3>1 DEF Single
  <2>9. NoReadyOp(tail) => NoReadyOp(tail')
    BY <2>2 DEF NoReadyOp
  <2>10. SomeoneLeft /\ (op.kind = "connection" => op.to # TRUE) => SomeoneLeft'
    <3>. SUFFICES ASSUME NEW s \in Side, ~connected[s], op.kind = "connection" => op.to # TRUE
                  PROVE  ~connected'[s]
      BY DEF SomeoneLeft
    <3>1. CASE op.kind = "connection"
      <4>1. op.side \in Side /\ op.to = FALSE
        BY <2>2, <2>3, <3>1
      <4>. QED  BY <2>1, <2>5, <3>1, <4>1
    <3>2. CASE op.kind # "connection"
      BY <2>1, <3>2
    <3>. QED  BY <3>1, <3>2
  <2>11. ASSUME at["ingress"] = "drop_event"
         PROVE  Dropping'
    <3>1. /\ status \notin {"waiting", "ready"} /\ (Pending("ingress") \/ SomeoneLeft)
          /\ \A j \in DOMAIN tail : ReadyOp(tail[j]) =>
               \E i \in DOMAIN tail : i > j /\ tail[i].owner = "ingress"
      BY <2>1, <2>11 DEF Dropping
    <3>2. status' \notin {"waiting", "ready"}
      BY <2>6, <2>11, <3>1
    <3>3. ASSUME NEW j \in DOMAIN tail', ReadyOp(tail'[j])
          PROVE  \E i \in DOMAIN tail' : i > j /\ tail'[i].owner = "ingress"
      <4>1. ReadyOp(tail[j + 1]) /\ j + 1 \in DOMAIN tail /\ j \in Nat
        BY <2>2, <3>3
      <4>2. PICK i \in DOMAIN tail : i > j + 1 /\ tail[i].owner = "ingress"
        BY <3>1, <4>1
      <4>3. i \in Nat /\ i # 1 /\ i - 1 > j
        BY <2>2, <4>1, <4>2
      <4>. QED  BY <2>2, <4>2, <4>3
    <3>4. CASE op.owner = "ingress"
      <4>1. op.kind = "connection" /\ op.to = FALSE
        BY <2>4, <2>11, <3>4 DEF IngressShape
      <4>2. connected' = [connected EXCEPT ![op.side] = FALSE] /\ op.side \in Side
        BY <2>1, <2>2, <2>3, <4>1
      <4>3. SomeoneLeft'
        BY <2>5, <4>2 DEF SomeoneLeft
      <4>. QED  BY <1>1, <2>11, <3>2, <3>3, <4>3 DEF Dropping
    <3>5. CASE op.owner # "ingress"
      <4>1. Pending("ingress") => Pending("ingress")'
        BY <2>2, <3>5 DEF Pending
      <4>2. SomeoneLeft => SomeoneLeft'
        BY <2>2, <2>3, <2>10, <3>5
      <4>. QED  BY <1>1, <2>11, <3>1, <3>2, <3>3, <4>1, <4>2 DEF Dropping
    <3>. QED  BY <3>4, <3>5
  <2>12. ASSUME at["ingress"] = "drop_status"
         PROVE  Dropping'
    <3>1. SomeoneLeft'
      <4>1. SomeoneLeft /\ op.kind # "connection"
        BY <2>1, <2>2, <2>3, <2>4, <2>12 DEF Dropping, IngressShape
      <4>. QED  BY <2>10, <4>1
    <3>2. ASSUME Pending("ingress")'
          PROVE  status' \notin {"waiting", "ready"} /\ NoReadyOp(tail')
      <4>1. PICK i \in DOMAIN tail' : tail'[i].owner = "ingress"
        BY <3>2 DEF Pending
      <4>2. tail[i + 1].owner = "ingress" /\ i + 1 \in DOMAIN tail /\ i + 1 # 1
        BY <2>2, <4>1
      <4>3. op.owner # "ingress"
        BY <2>1, <2>2, <4>2 DEF Single
      <4>4. status \notin {"waiting", "ready"} /\ NoReadyOp(tail)
        BY <2>1, <2>12, <4>2 DEF Dropping, Pending
      <4>. QED  BY <2>6, <2>9, <4>3, <4>4
    <3>. QED  BY <1>1, <2>12, <3>1, <3>2 DEF Dropping
  <2>13. Dropping'
    BY <1>1, <2>11, <2>12 DEF Dropping
  <2>14. EndedShape'
    <3>1. CASE UNCHANGED <<status, control>>
      <4>1. ASSUME Ending, control = "none", status = "waiting"
            PROVE  /\ NoReadyOp(tail') /\ SomeoneLeft'
                   /\ \A i \in DOMAIN tail' : ~(tail'[i].kind = "connection" /\ tail'[i].to = TRUE)
        <5>1. /\ NoReadyOp(tail) /\ SomeoneLeft
              /\ \A i \in DOMAIN tail : ~(tail[i].kind = "connection" /\ tail[i].to = TRUE)
          BY <2>1, <4>1 DEF EndedShape
        <5>2. SomeoneLeft'
          BY <2>2, <2>10, <5>1
        <5>. QED  BY <2>2, <2>9, <5>1, <5>2
      <4>2. (\E i \in DOMAIN tail' : tail'[i].kind = "status" /\ tail'[i].to = "closed")
              => at["ingress"] = "stopped"
        BY <2>1, <2>2 DEF EndedShape
      <4>. QED  BY <1>1, <2>1, <3>1, <4>1, <4>2 DEF EndedShape
    <3>2. CASE ~UNCHANGED <<status, control>>
      <4>1. control' = "none" /\ (Ending => status' \notin {"ready", "paused"})
        BY <2>1, <2>6, <3>2 DEF EndedShape, Moved
      <4>2. ASSUME Ending, status' = "waiting"
            PROVE  /\ NoReadyOp(tail') /\ SomeoneLeft'
                   /\ \A i \in DOMAIN tail' : ~(tail'[i].kind = "connection" /\ tail'[i].to = TRUE)
        <5>1. at["ingress"] = "drop_status" /\ op.owner = "ingress"
          BY <2>6, <3>2, <4>2
        <5>2. NoReadyOp(tail) /\ SomeoneLeft /\ op.kind # "connection"
          BY <2>1, <2>2, <2>4, <5>1 DEF Dropping, Pending, IngressShape
        <5>3. \A i \in DOMAIN tail' : tail'[i].kind # "connection"
          BY <2>1, <2>2, <2>3, <5>1 DEF Single
        <5>. QED  BY <2>9, <2>10, <5>2, <5>3
      <4>3. status' = "closed" \/ (\E i \in DOMAIN tail' : tail'[i].kind = "status"
                                                         /\ tail'[i].to = "closed")
              => at["ingress"] = "stopped"
        BY <2>1, <2>2, <2>6, <3>2 DEF EndedShape
      <4>. QED  BY <1>1, <4>1, <4>2, <4>3 DEF EndedShape
    <3>. QED  BY <3>1, <3>2
  <2>15. (Terminating => Ending)'
    BY <1>1, <2>1, <2>6 DEF Terminating
  <2>. QED  BY <2>7, <2>8, <2>13, <2>14, <2>15 DEF PathInv
<1>. QED  BY <1>2, <1>3

\* What is known of the status, the consents and the end of every session.
SessionInv == TypeOK /\ ConsentInv /\ PathInv

-----------------------------------------------------------------------------
(***************************************************************************)
(* The steps of the lifecycle.                                             *)
(***************************************************************************)

\* Outside of Commit a status changes at an end, or when finishEnd closes the session.
LEMMA StatusSteps ==
  ASSUME TypeOK, Next, ~Commit
  PROVE  \/ UNCHANGED status
         \/ ~Ending /\ Ending' /\ status' = "closing"
         \/ Ending /\ status' = "closed"
<1>. USE DEF lifecycle, participants, evidence
<1>1. /\ at \in [Activity -> Places] /\ PrepDone \in [Activity -> Places]
      /\ Goto("cmd", "idle") \in [Activity -> Places]
  BY PlaceFacts, AtIsOK, PrepDoneType, GotoType DEF AtOK, CmdPlace
<1>2. ASSUME NEW a \in [Activity -> Places], NEW t, NEW f, BeginEnd(a, t, f)
      PROVE  UNCHANGED status \/ (~Ending /\ Ending' /\ status' = "closing")
  BY <1>2 DEF BeginEnd, Ending, Activity
<1>3. CASE EvidenceFails
  BY <1>1, <1>2, <1>3 DEF EvidenceFails, FailEvidence
<1>4. CASE EndNext
  <2>1. CASE End \/ \E s \in Side : Withdraw(s)
    BY <1>1, <1>2, <2>1 DEF End, Withdraw
  <2>2. CASE EndBackgroundDrained \/ EndBackgroundTimeout \/ EndClosed
    BY <2>2 DEF EndBackgroundDrained, EndBackgroundTimeout, EndClosed, SetClosed, CloseNow,
                Ending, Resumed
  <2>3. CASE \/ EndCleaned \/ EndClosingSettled \/ EndDrained \/ EndDrainTimeout
             \/ EndAnnounced \/ \E sealed \in BOOLEAN : Finalize(sealed)
    BY <2>3 DEF EndCleaned, EndClosingSettled, EndDrained, EndDrainTimeout, EndAnnounced, Finalize
  <2>. QED  BY <1>4, <2>1, <2>2, <2>3 DEF EndNext
<1>5. CASE PrepNext
  <2>1. CASE PrepareFailureReported
    BY <1>1, <1>2, <2>1 DEF PrepareFailureReported
  <2>2. CASE ~PrepareFailureReported
    BY <1>5, <2>2 DEF PrepNext, PrepareSettles, PrepareFails, PrepareEmitted
  <2>. QED  BY <2>1, <2>2
<1>6. CASE CmdNext
  <2>1. CASE ArmFails
    BY <1>1, <1>2, <2>1 DEF ArmFails, FailEvidence
  <2>2. CASE ~ArmFails
    BY <1>6, <2>2
    DEF CmdNext, Start, Pause, Resume, ArmRecorder, Consent, RefreshContinues, StartPrepared,
        ResumePrepared, ControlSettled, ConsentRecorded, ArmArming, ArmPreflight,
        ArmPreflightRecorded, ArmFlushed, ArmSettled, BeginControl
  <2>. QED  BY <2>1, <2>2
<1>7. CASE IngressNext
  BY <1>7 DEF IngressNext, ParticipantState, ParticipantReadiness, IngressRecorded,
              DropRecorded, DropSettled, IngressEnds
<1>. QED  BY <1>3, <1>4, <1>5, <1>6, <1>7 DEF Next

LEMMA PathStep == TypeOK /\ TypeOK' /\ PathInv /\ [Next]_vars => PathInv'
<1>. SUFFICES ASSUME TypeOK, TypeOK', PathInv, [Next]_vars PROVE PathInv'
  OBVIOUS
<1>1. CASE UNCHANGED vars
  BY <1>1
  DEF vars, lifecycle, participants, evidence, PathInv, Terminating, Ending, Shapes, Single,
      Dropping, EndedShape, ConsentShape, Pending, SomeoneLeft, NoReadyOp
<1>2. CASE Commit
  BY <1>2, CommitKeepsPath
<1>3. CASE Next /\ ~Commit /\ ~failed'
  BY <1>3, StepMoves, MoveKeepsPath
<1>4. CASE Next /\ ~Commit /\ failed'
  <2>1. (Terminating => Ending)'
    BY <1>4, StatusSteps, EndStays DEF PathInv, Terminating
  <2>. QED  BY <1>4, <2>1 DEF PathInv
<1>. QED  BY <1>1, <1>2, <1>3, <1>4

LEMMA ConsentSteps ==
  ASSUME TypeOK, Next, ~Commit, \A s \in Side : ~Withdraw(s)
  PROVE  UNCHANGED consent
<1>. USE DEF lifecycle, participants, evidence
<1>. QED
  BY DEF Next, EvidenceFails, FailEvidence, EndNext, End, EndCleaned,
         EndClosingSettled, EndBackgroundDrained, EndBackgroundTimeout, SetClosed,
         EndClosed, EndDrained, EndDrainTimeout, Finalize, EndAnnounced,
         PrepNext, PrepareSettles, PrepareFails, PrepareEmitted, PrepareFailureReported,
         CmdNext, Start, Pause, Resume, ArmRecorder, Consent, RefreshContinues,
         StartPrepared, ResumePrepared, ControlSettled, ConsentRecorded, ArmArming,
         ArmPreflight, ArmPreflightRecorded, ArmFlushed, ArmSettled, ArmFails,
         IngressNext, ParticipantState, ParticipantReadiness, IngressRecorded,
         DropRecorded, DropSettled, IngressEnds

LEMMA OtherStepsRefine ==
  ASSUME SessionInv, Next, ~Commit
  PROVE  Lifecycle!Next \/ UNCHANGED Lifecycle!vars
<1>1. Ending \in BOOLEAN /\ Ending' \in BOOLEAN /\ (Ending => Ending')
      /\ (Terminating => Ending) /\ consent \in [Side -> {"none", "given", "withdrawn"}]
  BY EndStays DEF SessionInv, PathInv, Ending, TypeOK
<1>2. ASSUME NEW s \in Side, Withdraw(s) PROVE Lifecycle!Next
  <2>1. /\ consent[s] = "given" /\ status # "closed"
        /\ consent' = [consent EXCEPT ![s] = "withdrawn"]
    BY <1>2 DEF Withdraw, Terminating
  <2>2. Ending' /\ status' \in {status, "closing"}
    <3>1. at \in [Activity -> Places]
      BY PlaceFacts DEF SessionInv
    <3>. QED  BY <1>2, <3>1 DEF Withdraw, BeginEnd, lifecycle, Ending, Activity
  <2>3. Lifecycle!Withdraw(s)
    BY <2>1, <2>2 DEF Lifecycle!Withdraw
  <2>. QED  BY <2>3 DEF Lifecycle!Next
<1>3. CASE \A s \in Side : ~Withdraw(s)
  <2>1. UNCHANGED consent
    BY <1>3, ConsentSteps DEF SessionInv
  <2>2. CASE UNCHANGED status /\ Ending' = Ending
    BY <2>1, <2>2 DEF Lifecycle!vars
  <2>3. CASE ~Ending /\ Ending' /\ status' \in {status, "closing"}
    <3>1. Lifecycle!End
      BY <2>1, <2>3 DEF Lifecycle!End
    <3>. QED  BY <3>1 DEF Lifecycle!Next
  <2>4. CASE Ending /\ Ending' /\ status' = "closed" /\ status # "closed"
    <3>1. Lifecycle!StatusStep
      BY <2>1, <2>4 DEF Lifecycle!StatusStep, Lifecycle!Close
    <3>. QED  BY <3>1 DEF Lifecycle!Next
  <2>. QED  BY <1>1, <2>2, <2>3, <2>4, StatusSteps DEF SessionInv
<1>. QED  BY <1>2, <1>3

LEMMA CommitRefines ==
  ASSUME SessionInv, Commit
  PROVE  Lifecycle!Next \/ UNCHANGED Lifecycle!vars
<1>. DEFINE op == Head(tail)
<1>1. Ending' = Ending /\ Ending \in BOOLEAN
  BY DEF Commit, Ending
<1>2. CASE failed
  <2>1. UNCHANGED <<status, consent>>
    BY <1>2 DEF Commit, lifecycle, participants
  <2>. QED  BY <1>1, <2>1 DEF Lifecycle!vars
<1>3. CASE ~failed
  <2>1. /\ tail # <<>> /\ tail' = Tail(tail)
        /\ UNCHANGED <<status, control>> \/ Moved(op)
        /\ consent' = IF op.kind = "consent"
                      THEN [consent EXCEPT ![op.side] = "given"] ELSE consent
    BY <1>3, CommitEffect DEF SessionInv
  <2>2. /\ 1 \in DOMAIN tail /\ op = tail[1] /\ op \in Op
    BY <2>1, TailBehind DEF SessionInv
  <2>3. CASE op.kind = "consent"
    <3>1. op.side \in Side /\ consent[op.side] = "none"
      <4>1. \A x \in Op : x.kind = "consent" => x.side \in Side
        BY DEF Op
      <4>2. ConsentShape(op)
        BY <1>3, <2>2 DEF SessionInv, PathInv, Shapes
      <4>. QED  BY <2>2, <2>3, <4>1, <4>2 DEF ConsentShape
    <3>2. UNCHANGED status /\ consent' = [consent EXCEPT ![op.side] = "given"]
      BY <2>1, <2>3 DEF Moved
    <3>3. Lifecycle!GiveConsent(op.side)
      BY <1>1, <3>1, <3>2 DEF Lifecycle!GiveConsent
    <3>. QED  BY <3>1, <3>3 DEF Lifecycle!Next
  <2>4. CASE op.kind # "consent" /\ UNCHANGED <<status, control>>
    BY <1>1, <2>1, <2>4 DEF Lifecycle!vars
  <2>5. CASE op.kind # "consent" /\ Moved(op)
    <3>1. UNCHANGED consent
      BY <2>1, <2>5
    <3>2. ~Ending /\ status' \in {"ready", "active", "paused"} => AllConsents
      <4>1. status' \in {"ready", "active", "paused"} => LiveOp(op)
        BY <2>5 DEF Moved, LiveOp, Live
      <4>. QED  BY <2>2, <4>1 DEF SessionInv, ConsentInv, Allowed, NoLiveOp
    <3>3. \/ ~Ending /\ status = "waiting" /\ status' = "ready"
          \/ ~Ending /\ status = "ready" /\ status' \in {"active", "waiting"}
          \/ ~Ending /\ status = "active" /\ status' = "paused"
          \/ status = "paused" /\ status' = "active"
          \/ /\ status' = "waiting"
             /\ status \in {"active", "closing"} \/ (status = "paused" /\ ~Ending)
          \/ Ending /\ status # "closed" /\ status' = "closing"
          \/ Ending /\ status' = "closed"
      BY <1>3, <2>1, <2>5, Changes DEF SessionInv
    <3>4. status = "closing" => Ending
      BY DEF SessionInv, PathInv, Terminating
    <3>5. CASE status' = status
      BY <1>1, <3>1, <3>5 DEF Lifecycle!vars
    <3>6. CASE status' # status
      <4>1. Lifecycle!AllConsents <=> AllConsents
        BY DEF Lifecycle!AllConsents, AllConsents
      <4>2. \/ Lifecycle!Qualify \/ Lifecycle!Disqualify \/ Lifecycle!Start \/ Lifecycle!Pause
            \/ Lifecycle!Resume \/ Lifecycle!Drop \/ Lifecycle!ResumeAfterEnd
            \/ Lifecycle!DropAfterEnd \/ Lifecycle!Close
        BY <3>2, <3>3, <3>4, <3>6, <4>1
        DEF Lifecycle!Qualify, Lifecycle!Disqualify, Lifecycle!Start, Lifecycle!Pause,
            Lifecycle!Resume, Lifecycle!Drop, Lifecycle!ResumeAfterEnd,
            Lifecycle!DropAfterEnd, Lifecycle!Close
      <4>3. Lifecycle!StatusStep
        BY <1>1, <3>1, <4>2 DEF Lifecycle!StatusStep
      <4>. QED  BY <4>3 DEF Lifecycle!Next
    <3>. QED  BY <3>5, <3>6
  <2>. QED  BY <2>1, <2>3, <2>4, <2>5
<1>. QED  BY <1>2, <1>3

\* Every session follows its lifecycle, from its opening on: no status change that
\* was queued before a withdrawal, a disconnect or an end takes effect as one that
\* the lifecycle does not have in the state it meets.
THEOREM SessionsFollowLifecycle == Spec => Lifecycle!Spec /\ ImplementsLifecycle
<1>1. Init => PathInv
  BY DEF Init, PathInv, Terminating, Shapes, Single, Dropping, EndedShape, Ending, Activity
<1>2. Spec => []SessionInv
  <2>1. TypeOK /\ PathInv /\ [Next]_vars /\ TypeOK' => PathInv'
    BY PathStep
  <2>2. Init => ConsentInv
    BY DEF Init, ConsentInv, Live, NoLiveOp
  <2>3. TypeOK /\ ConsentInv /\ [Next]_vars => ConsentInv'
    <3>1. TypeOK /\ ConsentInv /\ UNCHANGED vars => ConsentInv'
      BY DEF vars, lifecycle, participants, ConsentInv, Allowed, Ending, AllConsents, NoLiveOp
    <3>. QED  BY <3>1, ConsentStep
  <2>. QED  BY <1>1, <2>1, <2>2, <2>3, TypeCorrect, PTL DEF Spec, SessionInv
<1>3. Init => Lifecycle!Init
  BY DEF Init, Lifecycle!Init, Ending, Activity
<1>4. SessionInv /\ [Next]_vars => [Lifecycle!Next]_(Lifecycle!vars)
  <2>1. UNCHANGED vars => UNCHANGED Lifecycle!vars
    BY DEF vars, lifecycle, participants, Lifecycle!vars, Ending
  <2>. QED  BY <2>1, CommitRefines, OtherStepsRefine
<1>. QED
  BY <1>2, <1>3, <1>4, PTL DEF Spec, Lifecycle!Spec, ImplementsLifecycle
=============================================================================
