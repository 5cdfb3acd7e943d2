-------------------------- MODULE SessionLifecycle --------------------------
(***************************************************************************)
(* What a session of the relay promises about its public status, without   *)
(* the evidence tail, the timers and the continuations that produce it:    *)
(* the lifecycle of docs/implementation-architecture.md, as far as the     *)
(* code keeps it.  Two actions, ResumeAfterEnd and DropAfterEnd, are not   *)
(* in that document; README.md says how the code comes to take them.       *)
(***************************************************************************)
CONSTANT Side

VARIABLES
  status,   \* the public status
  consent,  \* the consent of each participant
  ended     \* the session was told to end

vars == <<status, consent, ended>>

AllConsents == \A s \in Side : consent[s] = "given"

Init ==
  /\ status = "waiting"
  /\ consent = [s \in Side |-> "none"]
  /\ ended = FALSE

GiveConsent(s) ==
  /\ consent[s] = "none"
  /\ consent' = [consent EXCEPT ![s] = "given"]
  /\ UNCHANGED <<status, ended>>

\* A withdrawal takes the consent and ends the session in one step.
Withdraw(s) ==
  /\ consent[s] = "given"
  /\ status # "closed"
  /\ consent' = [consent EXCEPT ![s] = "withdrawn"]
  /\ ended' = TRUE
  /\ status' \in {status, "closing"}

Qualify == ~ended /\ AllConsents /\ status = "waiting" /\ status' = "ready"
Disqualify == ~ended /\ status = "ready" /\ status' = "waiting"
Start == ~ended /\ AllConsents /\ status = "ready" /\ status' = "active"
Pause == ~ended /\ status = "active" /\ status' = "paused"
Resume == ~ended /\ AllConsents /\ status = "paused" /\ status' = "active"
Drop == ~ended /\ status \in {"active", "paused"} /\ status' = "waiting"

ResumeAfterEnd == ended /\ status = "paused" /\ status' = "active"
DropAfterEnd == ended /\ status \in {"active", "closing"} /\ status' = "waiting"

Close == ended /\ status # "closed" /\ status' \in {"closing", "closed"}

StatusStep ==
  /\ \/ Qualify \/ Disqualify \/ Start \/ Pause \/ Resume \/ Drop
     \/ ResumeAfterEnd \/ DropAfterEnd \/ Close
  /\ UNCHANGED <<consent, ended>>

\* The session is told to end, and may reach closing in the same step.
End ==
  /\ ~ended
  /\ ended' = TRUE
  /\ status' \in {status, "closing"}
  /\ UNCHANGED consent

Next ==
  \/ \E s \in Side : GiveConsent(s) \/ Withdraw(s)
  \/ StatusStep
  \/ End

Spec == Init /\ [][Next]_vars
=============================================================================
