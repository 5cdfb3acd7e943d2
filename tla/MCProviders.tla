----------------------------- MODULE MCProviders -----------------------------
(***************************************************************************)
(* The two provider adapters, checked side by side in one run: a behaviour *)
(* is one turn of the native translation or one lane of the Palabra        *)
(* adapter.  They share no variable here.                                  *)
(***************************************************************************)
EXTENDS NativeTranslation

CONSTANTS Ids, MaxTurnIds, MaxRetired, MaxLanes, MaxTurns   \* the Palabra lane

VARIABLES part, lanes, at, turns, call, strays, orphan, over

Palabra == INSTANCE PalabraLane

ASSUME ProvidersAssumption == Palabra!RetiredAssumption

palabraVars == <<lanes, at, turns, call, strays, orphan, over>>
allVars == <<part, vars, palabraVars>>

MCInit ==
  /\ part \in {"native", "palabra"}
  /\ Init /\ Palabra!Init
  /\ part # "native" => mode = "fast"

InNative(A) == part = "native" /\ A /\ UNCHANGED <<part, palabraVars>>
InPalabra(A) == part = "palabra" /\ A /\ UNCHANGED <<part, vars>>

MCNext == InNative(Next) \/ InPalabra(Palabra!Next)

\* A behaviour stays in its part, so the fairness of an action of each part is
\* that of their disjunction.
MCFairness ==
  /\ WF_allVars(InNative(Progress) \/ InPalabra(Palabra!TimersFire))
  /\ WF_allVars(InPalabra(Palabra!TasksGoOn))

MCSpec == MCInit /\ [][MCNext]_allVars /\ MCFairness

-----------------------------------------------------------------------------
\* A late id is not taken for the next turn.
LateIdsStayOut == Palabra!LateIdsStayOut

\* Every turn of either adapter ends, and every preparation is answered.
TurnsEnd == TurnEnds /\ Palabra!TurnsEnd
=============================================================================
