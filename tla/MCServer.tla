------------------------------ MODULE MCServer ------------------------------
(***************************************************************************)
(* Three parts that end with a session, checked side by side in one run: a *)
(* behaviour is one of a relay session that is ready and told to end at    *)
(* any time, of the sessions of the server with the glossary they pin, or  *)
(* of the delivery of events to a page.  They share no variable here.      *)
(***************************************************************************)
EXTENDS ServerSessions, Sequences

CONSTANTS
  Side, MacrotaskIO, Starts, OpenedMedia, ReadyMedia,   \* the relay session
  Slots, History, Budget, MaxEvents, MaxTrouble         \* the delivery

VARIABLES
  part,
  sessionStatus, control, ingressStopped, connected, readiness, consent, arm, provider,
  pausedReady, failed, tail, at, receipts, finalization, media,
  role, log, socket, used, page, trouble

Relay == INSTANCE MCRelaySession WITH status <- sessionStatus
Delivery == INSTANCE EventDelivery

ASSUME DeliveryAssumption == Delivery!DeliveryAssumption

sessionVars == <<sessionStatus, control, ingressStopped, connected, readiness, consent, arm,
                 provider, pausedReady, failed, tail, at, receipts, finalization, media>>
deliveryVars == <<role, log, socket, used, page, trouble>>
allVars == <<part, sessionVars, vars, deliveryVars>>

MCInit ==
  /\ part \in {"relay", "server", "delivery"}
  /\ Relay!MCInit /\ Init /\ Delivery!Init
  /\ part # "delivery" => role = "operator"

InRelay(A) == part = "relay" /\ A /\ UNCHANGED <<part, vars, deliveryVars>>
InServer(A) == part = "server" /\ A /\ UNCHANGED <<part, sessionVars, deliveryVars>>
InDelivery(A) == part = "delivery" /\ A /\ UNCHANGED <<part, sessionVars, vars>>

MCNext ==
  InRelay(Relay!MCNext) \/ InServer(Next) \/ InDelivery(Delivery!Next)

InSession(A) == InRelay(A /\ UNCHANGED media)

\* A behaviour stays in its part, so the fairness of an action of each part is
\* that of their disjunction.
MCFairness ==
  /\ WF_allVars(\/ InSession(Relay!Commit) \/ InServer(Progress)
                \/ InDelivery(Delivery!PageStep))
  /\ WF_allVars(InSession(Relay!PrepNext) \/ InDelivery(Delivery!ServerStep(1)))
  /\ WF_allVars(InSession(Relay!IngressContinues) \/ InDelivery(Delivery!ServerStep(2)))
  /\ WF_allVars(InSession(Relay!CmdContinues) \/ InDelivery(Delivery!PageHears(1)))
  /\ WF_allVars(InSession(Relay!EndContinues) \/ InDelivery(Delivery!PageHears(2)))

MCSpec == MCInit /\ [][MCNext]_allVars /\ MCFairness

-----------------------------------------------------------------------------
\* The end of a session settles: the session is finalized.
EndSettles == Relay!EndSettles

\* Every command that a session took settles.
CommandsSettle == Relay!CommandsSettle

\* A page misses nothing in silence, and the places of its streams return.
DeliveryHolds ==
  /\ part = "delivery" => Delivery!TypeOK
  /\ Delivery!NothingIsSkipped /\ Delivery!PlacesAreReturned

\* A page shows the close of its session.
CloseIsShown == Delivery!CloseIsShown
=============================================================================
