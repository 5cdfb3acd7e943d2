-------------------------- MODULE NativeTranslation --------------------------
(***************************************************************************)
(* One turn of the native OpenAI adapter                                   *)
(* (src/adapters/openai/native-realtime-translate.ts, translate):          *)
(* captured windows go to the provider, its transcripts and audio come     *)
(* back through a local queue with a holdback, and the relay takes them.   *)
(* The provider sends what it likes whenever the socket is open.           *)
(*                                                                         *)
(* A transcript event names a revision of the one target segment of the    *)
(* turn; an audio event names the revision that its sound belongs to.      *)
(* Texts, encodings, evidence references and the source transcripts, which *)
(* differ from the target ones in nothing but that no audio names them,    *)
(* are left out.                                                           *)
(***************************************************************************)
EXTENDS Naturals, Sequences, FiniteSets, SequencesExt

CONSTANTS Backlog,      \* captured windows that may wait for the socket
          AudioLimit,   \* frames that may wait for the relay
          EventLimit,   \* other events that may wait for the relay
          MaxWindows,   \* windows captured in a behaviour
          MaxMessages   \* provider messages in a behaviour

\* The constructor of the queue refuses another limit.
ASSUME NativeAssumption == AudioLimit \in Nat \ {0}

VARIABLES
  mode,      \* "fast" or "balanced": the adapter offers no other behavior
  turn,      \* the local state of translate
  socket,    \* "connecting", "open", "closed"
  aborted,   \* the relay aborted the signal of the turn
  messages,  \* provider messages so far
  captured,  \* windows captured so far
  relay      \* what the relay was given

vars == <<mode, turn, socket, aborted, messages, captured, relay>>

Held == mode # "fast"        \* the behavior has a holdback
FinalOnly == mode # "fast"   \* and publishes final transcripts only

None == [kind |-> "none"]
Ended == [kind |-> "ended"]
Error == [kind |-> "error"]
Completed == [kind |-> "completed"]
Target(rev, final) == [kind |-> "target", rev |-> rev, final |-> final]
Audio(rev, tail) == [kind |-> "audio", rev |-> rev, tail |-> tail]
IsAudio(e) == e.kind = "audio"

Init ==
  /\ mode \in {"fast", "balanced"}
  /\ turn = [life |-> "active", ready |-> FALSE, suppressed |-> FALSE,
             input |-> "flowing", windows |-> 0, closeSent |-> FALSE, deadline |-> FALSE,
             rev |-> 0, text |-> FALSE, final |-> FALSE, current |-> 0,
             part |-> 0, valid |-> FALSE, reported |-> FALSE,
             values |-> <<>>, delayed |-> <<>>, accepting |-> TRUE, ended |-> FALSE,
             terminal |-> None, counted |-> 0,
             reader |-> "opening", hand |-> None]
  /\ socket = "connecting" /\ aborted = FALSE
  /\ messages = 0 /\ captured = 0
  /\ relay = [rev |-> 0, final |-> FALSE, refused |-> {}, verdict |-> "none", after |-> FALSE,
              last |-> 0, errors |-> FALSE]

-----------------------------------------------------------------------------
(* The local playout queue, common.ts.  Each operator maps a turn to the    *)
(* turn after the call.                                                     *)

\* A waiting reader is handed the event; what it was handed is out of the queue.
Enqueue(t, e) ==
  IF t.ended THEN t
  ELSE IF t.reader = "waiting" THEN [t EXCEPT !.reader = "handed", !.hand = e]
  ELSE [t EXCEPT !.values = Append(@, e)]

\* A reader that waits when the queue has ended is told so.
WakeEnded(t) ==
  IF t.values = <<>> /\ t.reader = "waiting"
  THEN [t EXCEPT !.reader = "handed", !.hand = Ended] ELSE t

FinishWhenDrained(t) ==
  IF t.accepting \/ t.delayed # <<>> \/ t.ended THEN t
  ELSE WakeEnded([(IF t.terminal = None THEN t ELSE Enqueue(t, t.terminal))
                  EXCEPT !.terminal = None, !.ended = TRUE])

CloseAfterDrain(t, terminal) ==
  IF ~t.accepting THEN t
  ELSE FinishWhenDrained([t EXCEPT !.accepting = FALSE, !.terminal = terminal])

Discard(t, terminal) ==
  IF t.ended THEN t
  ELSE LET cleared == [t EXCEPT !.accepting = FALSE, !.delayed = <<>>, !.values = <<>>]
       IN WakeEnded([(IF terminal = None THEN cleared ELSE Enqueue(cleared, terminal))
                     EXCEPT !.ended = TRUE])

Buffered(t) ==
  Cardinality({i \in DOMAIN t.values : IsAudio(t.values[i])})
  + Cardinality({i \in DOMAIN t.delayed : IsAudio(t.delayed[i])})

\* Values of the queue are older than delayed ones as far as they are audio.
DropOldestAudio(t) ==
  IF \E i \in DOMAIN t.values : IsAudio(t.values[i])
  THEN [t EXCEPT !.values = RemoveAt(@, SelectInSeq(@, IsAudio))]
  ELSE [t EXCEPT !.delayed = RemoveAt(@, SelectInSeq(@, IsAudio))]

Trims(t, e) == IsAudio(e) /\ Buffered(t) >= AudioLimit

Offer(t, e, holdback) ==
  LET room == IF Trims(t, e) THEN DropOldestAudio(t) ELSE t
  IN IF holdback /\ Held THEN [room EXCEPT !.delayed = Append(@, e)] ELSE Enqueue(room, e)

-----------------------------------------------------------------------------
(* translate's closures over its local state.                               *)

StopInput(t) ==
  [t EXCEPT !.deadline = FALSE, !.input = "stopped", !.windows = 0]

\* stop: the local fence of a cancellation.
Stop(t) ==
  IF t.life # "active" THEN t
  ELSE Discard([StopInput(t) EXCEPT !.life = "cancelled", !.suppressed = TRUE,
                                    !.closeSent = TRUE], None)

\* fail: what was queued gives way to the error.
Fail(t) ==
  IF t.life # "active" THEN t
  ELSE Discard([StopInput(t) EXCEPT !.life = "failed"], Error)

\* queueEvent, with the trim notice that it queues in turn.
Count(t, e) ==
  IF IsAudio(e) THEN t ELSE [t EXCEPT !.counted = @ + 1]
QueueOther(t, e, holdback) ==
  IF t.life # "active" THEN t
  ELSE IF t.counted >= EventLimit THEN Fail(t)
  ELSE Count(Offer(t, e, holdback), e)
\* Mutant of QueueAudio: audio is not held back with its transcript.
QueueAudioAtOnce(t, e) ==
  IF t.life # "active" THEN t
  ELSE IF Trims(t, e) THEN QueueOther(Offer(t, e, FALSE), Error, FALSE)
  ELSE Offer(t, e, FALSE)
QueueAudio(t, e) ==
  IF t.life # "active" THEN t
  ELSE IF Trims(t, e) THEN QueueOther(Offer(t, e, TRUE), Error, FALSE)
  ELSE Offer(t, e, TRUE)

\* publishTranscript, and finalizeTranscripts for a text that is not final yet.
Revise(t, final) ==
  QueueOther([t EXCEPT !.rev = @ + 1, !.final = @ \/ final, !.current = t.rev + 1,
                       !.reported = FALSE, !.valid = TRUE],
             Target(t.rev + 1, final), TRUE)
PublishTranscript(t, final) ==
  LET said == [t EXCEPT !.text = TRUE]
  IN IF ~final /\ FinalOnly THEN said ELSE Revise(said, final)
FinalizeTranscripts(t) ==
  IF t.final \/ ~t.text THEN t ELSE Revise(t, TRUE)

TargetUnknown(t) ==
  LET dropped == [t EXCEPT !.part = 0, !.reported = TRUE]
  IN IF t.reported THEN dropped ELSE QueueOther(dropped, Error, FALSE)

EmitAudioFrame(t, rev, tail) == QueueAudio([t EXCEPT !.valid = TRUE], Audio(rev, tail))

\* acceptOutputAudio: a packet of whole frames and perhaps a fragment.  A
\* fragment is kept for the revision of its first byte.
AcceptOutputAudio(t, whole, fragment) ==
  IF t.current = 0 THEN TargetUnknown(t)
  ELSE IF t.part # 0 /\ t.part # t.current THEN TargetUnknown(t)
  ELSE LET known == [t EXCEPT !.reported = FALSE]
           played == IF whole THEN EmitAudioFrame(known, t.current, FALSE) ELSE known
       IN [played EXCEPT !.part = IF fragment THEN t.current ELSE 0]

\* finishOutputAudio: the last fragment is padded to a frame.
FinishOutputAudio(t) ==
  IF t.part = 0 THEN t
  ELSE EmitAudioFrame([t EXCEPT !.part = 0], t.part, TRUE)

\* Mutant of Complete: a turn without output completes like any other.
CompleteEmpty(t) ==
  CloseAfterDrain([FinishOutputAudio(FinalizeTranscripts(StopInput(t)))
                   EXCEPT !.life = IF @ = "active" THEN "failed" ELSE @], None)
Complete(t) ==
  LET flushed == FinishOutputAudio(FinalizeTranscripts(StopInput(t)))
  IN IF flushed.valid
     THEN CloseAfterDrain([flushed EXCEPT !.life = "completed"], Completed)
     ELSE IF flushed.reported
     THEN CloseAfterDrain([flushed EXCEPT !.life = "failed"], None)
     ELSE Fail(flushed)

\* The turn and its socket after an operation: whatever ends the turn closes it.
Becomes(t) ==
  /\ turn' = t
  /\ socket' = IF t.life = "active" THEN socket ELSE "closed"

Quiet == UNCHANGED <<mode, aborted, messages, captured, relay>>
-----------------------------------------------------------------------------
(* Opening.                                                                 *)

Open ==
  /\ socket = "connecting" /\ turn.reader = "opening" /\ ~aborted
  /\ turn' = [turn EXCEPT !.ready = TRUE, !.reader = "reading"]
  /\ socket' = "open"
  /\ Quiet

\* The connection fails, closes or takes too long, or session.update cannot be sent.
OpenFails ==
  /\ turn.reader = "opening" /\ turn.life = "active"
  /\ Becomes([Fail(turn) EXCEPT !.reader = "reading"])
  /\ Quiet

\* The catch of translate after an abort or a cancel while it was opening:
\* an abort ends the generator, a cancel leaves the queue to end it.
OpenStopped ==
  /\ turn.reader = "opening" /\ turn.life # "active"
  /\ turn' = [turn EXCEPT !.reader = IF aborted THEN "done" ELSE "reading"]
  /\ UNCHANGED socket /\ Quiet

-----------------------------------------------------------------------------
(* Input: a pump fills the bounded backlog, a loop empties it into the      *)
(* socket.                                                                  *)

Flowing == turn.life = "active" /\ turn.ready /\ turn.input = "flowing"

Capture ==
  /\ Flowing /\ captured < MaxWindows
  /\ captured' = captured + 1
  /\ Becomes(IF turn.windows < Backlog THEN [turn EXCEPT !.windows = @ + 1]
             ELSE QueueOther(turn, Error, FALSE))   \* the oldest window is dropped
  /\ UNCHANGED <<mode, aborted, messages, relay>>

AppendWindow ==
  /\ turn.life = "active" /\ turn.windows > 0
  /\ \E sent \in BOOLEAN :
       Becomes(IF sent THEN [turn EXCEPT !.windows = @ - 1] ELSE Fail(turn))
  /\ Quiet

InputEnds ==
  /\ Flowing
  /\ \E whole \in BOOLEAN :   \* or the source throws, or offers a foreign frame
       Becomes(IF whole THEN [turn EXCEPT !.input = "ended"] ELSE Fail(turn))
  /\ Quiet

RequestSessionClose ==
  /\ turn.life = "active" /\ turn.input = "ended" /\ turn.windows = 0 /\ ~turn.closeSent
  /\ \E sent \in BOOLEAN :
       Becomes(IF sent THEN [turn EXCEPT !.closeSent = TRUE, !.deadline = TRUE]
               ELSE Fail([turn EXCEPT !.closeSent = TRUE]))
  /\ Quiet

CloseTimeout ==
  /\ turn.deadline
  /\ Becomes(Fail(turn))
  /\ Quiet

-----------------------------------------------------------------------------
(* The provider.                                                            *)

Message(t) ==
  /\ socket = "open" /\ turn.life = "active" /\ messages < MaxMessages
  /\ messages' = messages + 1
  /\ Becomes(t)
  /\ UNCHANGED <<mode, aborted, captured, relay>>

OutputTranscript == \E final \in BOOLEAN : Message(PublishTranscript(turn, final))
OutputAudio ==
  \E whole, fragment \in BOOLEAN :
    (whole \/ fragment) /\ Message(AcceptOutputAudio(turn, whole, fragment))
InvalidAudio == Message(QueueOther(turn, Error, FALSE))
SessionClosed == Message(Complete(turn))

\* An error message, an unreadable one, or the end of the connection.
ProviderFails ==
  /\ socket = "open" /\ turn.life = "active"
  /\ Becomes(Fail(turn))
  /\ Quiet

-----------------------------------------------------------------------------
(* The relay reads the turn's events, aborts its signal or cancels it.      *)

ReleaseDelayed ==
  /\ turn.delayed # <<>> /\ ~turn.ended
  /\ turn' = FinishWhenDrained(Enqueue([turn EXCEPT !.delayed = Tail(@)], Head(turn.delayed)))
  /\ UNCHANGED socket /\ Quiet

NextEvent ==
  /\ turn.reader = "reading"
  /\ turn' = IF turn.values # <<>>
             THEN [turn EXCEPT !.reader = "handed", !.hand = Head(turn.values),
                               !.values = Tail(@)]
             ELSE IF turn.ended
             THEN [turn EXCEPT !.reader = "handed", !.hand = Ended]
             ELSE [turn EXCEPT !.reader = "waiting"]
  /\ UNCHANGED socket /\ Quiet

\* relay.ts, #acceptTranscriptRevision and #audioTargetRejection: a final
\* revision is the last of its segment, and a frame is played when it names the
\* revision that the relay holds.
Hear(e) ==
  [relay EXCEPT
     !.rev = IF e.kind = "target" /\ ~relay.final THEN e.rev ELSE @,
     !.final = @ \/ (e.kind = "target" /\ e.final),
     !.last = IF e.kind = "target" THEN e.rev ELSE @,
     !.refused = IF IsAudio(e) /\ e.rev # relay.rev
                 THEN @ \cup {IF e.tail THEN "tail" ELSE "frame"} ELSE @,
     !.errors = @ \/ e.kind = "error",
     !.verdict = IF e.kind = "completed" THEN "completed" ELSE @,
     !.after = @ \/ relay.verdict # "none"]

\* nextOutputEvent gives its place back, and a turn that was stopped meanwhile
\* ends without its event.
Deliver ==
  /\ turn.reader = "handed"
  /\ LET e == turn.hand
         taken == [turn EXCEPT !.hand = None,
                     !.counted = IF e.kind \in {"audio", "ended"} \/ @ = 0 THEN @ ELSE @ - 1]
     IN IF e = Ended \/ turn.suppressed \/ aborted
        THEN turn' = [taken EXCEPT !.reader = "done"] /\ UNCHANGED relay
        ELSE turn' = [taken EXCEPT !.reader = "reading"] /\ relay' = Hear(e)
  /\ UNCHANGED <<mode, socket, aborted, messages, captured>>

Abort ==
  /\ ~aborted /\ turn.reader # "done"
  /\ aborted' = TRUE
  /\ Becomes(Stop(turn))
  /\ UNCHANGED <<mode, messages, captured, relay>>

\* cancel and closeSession
Cancel ==
  /\ turn.life = "active"
  /\ Becomes(Stop(turn))
  /\ Quiet

ProviderNext ==
  OutputTranscript \/ OutputAudio \/ InvalidAudio \/ SessionClosed \/ ProviderFails

Next ==
  \/ Open \/ OpenFails \/ OpenStopped
  \/ Capture \/ AppendWindow \/ InputEnds \/ RequestSessionClose \/ CloseTimeout
  \/ ProviderNext
  \/ ReleaseDelayed \/ NextEvent \/ Deliver \/ Abort \/ Cancel

\* Timers fire (waitForOpen, the holdback, the close deadline), the loops of the
\* adapter and of the relay go on.  The provider owes nothing, and the relay
\* need not end the input.
Progress ==
  \/ OpenFails \/ OpenStopped
  \/ AppendWindow \/ RequestSessionClose \/ CloseTimeout
  \/ ReleaseDelayed \/ NextEvent \/ Deliver

Fairness == WF_vars(Progress)

Spec == Init /\ [][Next]_vars /\ Fairness
-----------------------------------------------------------------------------
\* Nothing follows the completion of a turn, and a turn that ends by itself ends
\* with a completion or after an error: the relay never loses a translation in
\* silence.
NoSilentEnd ==
  /\ ~relay.after
  /\ turn.reader = "done" /\ turn.life \notin {"active", "cancelled"} /\ ~aborted
       => relay.verdict = "completed" \/ relay.errors

\* Through holdback and trimming every whole frame reaches the relay after the
\* transcript revision that it names, and before the next one.
FrameFollowsTarget ==
  [][LET e == turn.hand
     IN IsAudio(e) /\ ~e.tail /\ turn'.reader = "reading" => e.rev = relay.last]_vars

\* Once its input is over or the relay stops it, a turn ends.
TurnEnds == (turn.input # "flowing" \/ aborted) ~> turn.reader = "done"

\* Every audible frame can be correlated with a target transcript: the comment of
\* native-realtime-translate.ts:512-515 says so of the adapter.  The relay plays a
\* frame only under the revision that it holds.
FramesCorrelate == relay.refused = {}
=============================================================================
