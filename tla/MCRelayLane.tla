---------------------------- MODULE MCRelayLane ----------------------------
(***************************************************************************)
(* Instances of RelayLane for TLC: bounds on the generations, on the       *)
(* frames that the source sends, and on these and the reported outcomes of *)
(* cancels together, which is tighter for a session that translates whole  *)
(* utterances.                                                             *)
(***************************************************************************)
EXTENDS RelayLane, FiniteSets

CONSTANTS MaxGen,    \* generations
          MaxFrames, \* captured frames
          MaxAll,    \* generations, frames and outcomes of cancels
          MaxWhole   \* the same, of whole utterances

VARIABLE frames      \* frames captured so far

\* Cuts whose cancel has an outcome in the log.
Reported == gen - Cardinality(cancels)

MCInit == Init /\ frames = 0

MCNext ==
  /\ Next
  /\ frames' = IF audio = -1 /\ audio' # -1 THEN frames + 1 ELSE frames
  /\ gen' <= MaxGen /\ frames' <= MaxFrames
  /\ gen' + frames' + Reported' <= IF speechEnd THEN MaxWhole ELSE MaxAll

MCSpec == MCInit /\ [][MCNext]_<<vars, frames>>
=============================================================================
