------------------------------ MODULE MCBrowser ------------------------------
(***************************************************************************)
(* Four parts between the relay and the browsers, checked side by side in  *)
(* one run: a behaviour is one of the audio and the clears on their way to *)
(* a participant, of the events of the participants on their way to the    *)
(* relay, of the capture of a page, or of the transcript of the operator.  *)
(* They share no variable here, and each counts its sockets for itself.    *)
(***************************************************************************)
EXTENDS BrowserPlayout

CONSTANTS
  EventCapacity, Controls, EventSockets,                \* the events
  Keyboard, MaxStarts, MaxUpsets,                       \* the capture
  Items, MaxPending, MaxGen, MaxRev, MaxMarks           \* the transcript

VARIABLES
  part,
  port, believed,
  room, start, upsets,
  gen, line, pendingValidation, pendingPlayed, said

Ingress == INSTANCE BrowserIngress WITH
  QueueCapacity <- EventCapacity, MaxSockets <- EventSockets, relay <- believed
Capture == INSTANCE BrowserCapture WITH page <- room
Transcript == INSTANCE OperatorTranscript

ASSUME BrowserAssumption == Ingress!IngressAssumption /\ Transcript!TranscriptAssumption

ingressVars == <<port, believed>>
captureVars == <<room, start, upsets>>
transcriptVars == <<gen, line, pendingValidation, pendingPlayed, said>>
allVars == <<part, vars, ingressVars, captureVars, transcriptVars>>

MCInit ==
  /\ part \in {"playout", "ingress", "capture", "transcript"}
  /\ Init /\ Ingress!Init /\ Capture!Init /\ Transcript!Init

InPlayout(A) == part = "playout" /\ A /\ UNCHANGED <<part, ingressVars, captureVars, transcriptVars>>
InIngress(A) == part = "ingress" /\ A /\ UNCHANGED <<part, vars, captureVars, transcriptVars>>
InCapture(A) == part = "capture" /\ A /\ UNCHANGED <<part, vars, ingressVars, transcriptVars>>
InTranscript(A) == part = "transcript" /\ A /\ UNCHANGED <<part, vars, ingressVars, captureVars>>

MCNext ==
  \/ InPlayout(Next) \/ InIngress(Ingress!Next)
  \/ InCapture(Capture!Next) \/ InTranscript(Transcript!Next)

\* A behaviour stays in its part, so the fairness of an action of each part is
\* that of their disjunction.
MCFairness ==
  WF_allVars(InPlayout(Progress) \/ InCapture(\E a \in Capture!Starts : Capture!Proceed(a)))

MCSpec == MCInit /\ [][MCNext]_allVars /\ MCFairness

-----------------------------------------------------------------------------
\* No eviction, refusal or reordering loses the news that a participant left.
LossIsOnTheWay == Ingress!LossIsOnTheWay

\* What the server is told of a capture is true.
ReadinessIsTrue ==
  /\ part = "capture" => Capture!TypeOK
  /\ Capture!ReadinessIsTrue

\* The microphone of a capture that is over goes off.
MicrophoneGoesOff == Capture!MicrophoneGoesOff

\* The marks on the transcript are those of its texts, and none is lost.
MarksAreTrue ==
  /\ part = "transcript" => Transcript!TypeOK
  /\ Transcript!PlayedIsTrue /\ Transcript!ValidatedIsTrue
  /\ Transcript!PlayedIsShown /\ Transcript!CutIsMarked
=============================================================================
