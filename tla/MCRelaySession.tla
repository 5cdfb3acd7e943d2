--------------------------- MODULE MCRelaySession ---------------------------
(***************************************************************************)
(* Instances of RelaySession for TLC.  The participants may report without *)
(* end, so a run bounds the media events it lets the ingress loop accept.  *)
(* A behaviour starts from an opened session, or from one that went        *)
(* through the whole setup and is ready: a state that the first kind of    *)
(* behaviour reaches.                                                      *)
(***************************************************************************)
EXTENDS RelaySession, TLC

CONSTANTS Starts,      \* how behaviours start: "opened", "ready"
          OpenedMedia, \* media events accepted from an opened session
          ReadyMedia   \* media events accepted from a ready session

VARIABLE media         \* media events that may yet be accepted

InitReady ==
  /\ status = "ready" /\ control = "none" /\ ingressStopped = FALSE
  /\ connected = [s \in Side |-> TRUE]
  /\ readiness = [s \in Side |-> "accepted"]
  /\ consent = [s \in Side |-> "given"]
  /\ arm = "armed"
  /\ provider = Lane
  /\ pausedReady = FALSE
  /\ failed = FALSE
  /\ tail = <<>>
  /\ at = [p \in Activity |-> IF p \in {"prep", "end"} THEN "none" ELSE "idle"]
  /\ receipts = {} /\ finalization = "none"

MCInit ==
  \/ "opened" \in Starts /\ Init /\ media = OpenedMedia
  \/ "ready" \in Starts /\ InitReady /\ media = ReadyMedia

MCNext ==
  /\ Next
  /\ media' = IF at["ingress"] = "idle" /\ at'["ingress"] \notin {"idle", "stopped"}
              THEN media - 1 ELSE media
  /\ media' >= 0

MCSpec == MCInit /\ [][MCNext]_<<vars, media>>
MCFairSpec == MCSpec /\ Fairness

Symmetry == Permutations(Side)
=============================================================================
