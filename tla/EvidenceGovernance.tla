------------------------ MODULE EvidenceGovernance ------------------------
(***************************************************************************)
(* What the evidence store promises of the recording of one session: it is *)
(* opened once, closed as sealed or as failed, and erased for ever.  The   *)
(* verdict that was answered is the state it is in, and stays it until the *)
(* recording is deleted.  EvidenceArchive implements it.                   *)
(* (src/core/evidence-lifecycle.ts)                                        *)
(***************************************************************************)
VARIABLES state, verdict

vars == <<state, verdict>>

Open == {"active", "finalizing"}
Closed == {"sealed", "FINALIZATION_FAILED"}

Init == state = "none" /\ verdict = "none"

(* The recording begins, and its end is asked for. *)
Advance ==
    /\ \/ state = "none" /\ state' = "active"
       \/ state = "active" /\ state' = "finalizing"
    /\ UNCHANGED verdict

(* A seal that nobody was told of may still be replaced by a failure, but  *)
(* a failed recording is never sealed.                                     *)
Close ==
    /\ verdict = "none"
    /\ \/ state = "finalizing" /\ state' = "sealed"
       \/ state \in Open \cup {"sealed"} /\ state' = "FINALIZATION_FAILED"
    /\ verdict' \in {"none", state'}

Answer ==
    /\ verdict = "none" /\ state \in Closed
    /\ verdict' = state
    /\ UNCHANGED state

(* A closed recording is deleted, or one whose failure could be neither    *)
(* written nor answered; a deletion is not taken back.                     *)
Erase ==
    /\ \/ state \in Closed /\ state' = "erasing"
       \/ state \in Open /\ verdict = "none" /\ state' = "erasing"
       \/ state = "erasing" /\ state' = "erased"
    /\ UNCHANGED verdict

Next == Advance \/ Close \/ Answer \/ Erase

Spec == Init /\ [][Next]_vars
=============================================================================
