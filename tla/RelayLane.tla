------------------------------ MODULE RelayLane ------------------------------
(***************************************************************************)
(* One direction of a session of the relay (src/core/relay.ts): the speech *)
(* of a source participant is captured, translated and played to the       *)
(* destination participant.  A generation fence separates what may still   *)
(* be heard from what was cut by a barge-in of the destination, a pause, a *)
(* resume, a disconnect, a failed translation or the end.                  *)
(*                                                                         *)
(* The other direction shares nothing with this one but the session's      *)
(* status and the ingress loop, which handles one media event at a time.   *)
(* A generation cut issues one playout clear: the generation it starts     *)
(* names the clear.  The translation adapter, the media adapter and the    *)
(* browser behind it are the environment.  A failure of the evidence ends  *)
(* the session, as End does; RelaySession models it.                       *)
(***************************************************************************)
EXTENDS Sequences, SequencesExt, Integers

CONSTANTS
  SpeechEnds,   \* the modes the session may have, see speechEnd
  QueueCap,     \* queueCapacity: playout queue and playout metadata
  InputCap,     \* inputQueueCapacity: buffered utterance, input of a lane run
  AckCap        \* MAX_PENDING_PLAYOUT_EVIDENCE_PER_GENERATION

ASSUME LaneAssumption ==
  /\ SpeechEnds \subseteq BOOLEAN
  /\ QueueCap \in Nat \ {0} /\ InputCap \in Nat \ {0} /\ AckCap \in Nat \ {0}

Party == {"source", "destination"}
None == [gen |-> -1]

VARIABLES
  speechEnd,   \* behavior.inputCommit = "speech_end": translate whole utterances
  status,      \* runtime.status
  control,     \* runtime.controlStatus
  stopped,     \* runtime.ingressStopped
  ended,       \* runtime.endTask is set
  drop,        \* the disconnect being handled, if there is one
  gen,         \* runtime.fences[lane].generation
  voice,       \* the participant speaks, as its browser hears it
  speaking,    \* runtime.speaking
  audio,       \* generation of the captured frame whose evidence is awaited, or -1
  pending,     \* runtime.pendingFrames[lane]
  runs,        \* every lane run there was: its input and what it owes
  current,     \* index of runtime.laneRuns[lane], or 0
  lastSeq,     \* runtime.playoutSequences[lane] of this generation, or 0
  playout,     \* runtime.playout[destination]
  metadata,    \* runtime.playoutMetadataOrder[lane] and what it refers to
  held,        \* frames the media adapter took and the browser did not start
  acks,        \* per generation: started frames whose acceptance is queued
  stage,       \* per generation: the await at which its first ack is
  heard,       \* runtime.playoutEvidenceCursors[destination]
  played,      \* runtime.playedSegments: turns reported as played
  firstAudio,  \* runtime.firstAudio has this generation
  clears,      \* runtime.pendingPlayoutClears of this lane
  clearing,    \* clears the media adapter did not settle yet
  cancels,     \* cancels of the translation whose outcome is not reported yet
  resumption,  \* runtime.pendingBargeResumptions[lane], or -1
  log          \* the lane's events, in the order of the evidence tail

session == <<status, control, stopped, ended, drop>>
capture == <<voice, speaking, audio>>
outputs == <<lastSeq, playout, held>>
evidence == <<acks, stage, heard>>
vars == <<speechEnd, session, capture, outputs, evidence, gen, pending, runs, current, metadata,
          played, firstAudio, clears, clearing, cancels, resumption, log>>

Event == {"speech_onset", "generation_cut", "clear_requested", "clear_acknowledged",
          "clear_failed", "cancel_requested", "cancel_settled", "cancel_failed",
          "translation_failed", "provider_error", "output_resumed", "playout_lag",
          "audio_playout"}
Stage == {"none", "gap", "persist", "lag"}
\* A captured frame is the generation it was captured in.
Frame == Nat
PlayoutFrame == [gen : Nat, seq : Nat, turn : Nat]
Status == {"waiting", "active", "paused", "closing"}
\* wasActive, and the status that setStatus("waiting") found, once it is called.
Drop == [side : Party, active : BOOLEAN, prev : Status \cup {"none"}]
Run == [gen : Nat, input : Seq(Frame), owed : Nat, closed : BOOLEAN,
        aborted : BOOLEAN, alive : BOOLEAN]

TypeOK ==
  /\ speechEnd \in SpeechEnds
  /\ status \in Status
  /\ control \in {"none", "active", "paused", "closing"}
  /\ stopped \in BOOLEAN /\ ended \in BOOLEAN
  /\ drop \in SUBSET Drop /\ \A c, d \in drop : c = d
  /\ gen \in Nat /\ lastSeq \in Nat /\ resumption \in Nat \cup {-1}
  /\ voice \in [Party -> BOOLEAN] /\ speaking \in [Party -> BOOLEAN]
  /\ audio \in Frame \cup {-1}
  /\ pending \in Seq(Frame) /\ Len(pending) <= InputCap
  /\ runs \in Seq(Run) /\ current \in 0 .. Len(runs)
  /\ \A r \in DOMAIN runs : Len(runs[r].input) <= InputCap
  /\ playout \in Seq(PlayoutFrame) /\ Len(playout) <= QueueCap
  /\ metadata \in Seq(PlayoutFrame) /\ Len(metadata) <= QueueCap
  /\ held \in SUBSET PlayoutFrame
  /\ DOMAIN acks = 0 .. gen /\ DOMAIN stage = 0 .. gen
  /\ \A g \in 0 .. gen : acks[g] \in Seq(PlayoutFrame) /\ Len(acks[g]) <= AckCap /\ stage[g] \in Stage
  /\ heard \in PlayoutFrame \cup {None}
  /\ played \in SUBSET Nat /\ firstAudio \in BOOLEAN
  /\ clears \in SUBSET [gen : Nat, barge : BOOLEAN]
  /\ clearing \in SUBSET Nat
  /\ cancels \in SUBSET [gen : Nat, barge : BOOLEAN]
  /\ log \in Seq([type : Event, gen : Nat, turn : Nat])

Init ==
  /\ speechEnd \in SpeechEnds
  /\ status = "active" /\ control = "none" /\ stopped = FALSE /\ ended = FALSE
  /\ drop = {} /\ gen = 0
  /\ voice = [p \in Party |-> FALSE] /\ speaking = [p \in Party |-> FALSE]
  /\ audio = -1 /\ pending = <<>>
  /\ runs = <<>> /\ current = 0
  /\ lastSeq = 0 /\ playout = <<>> /\ metadata = <<>> /\ held = {}
  /\ acks = [g \in {0} |-> <<>>] /\ stage = [g \in {0} |-> "none"] /\ heard = None
  /\ played = {} /\ firstAudio = FALSE
  /\ clears = {} /\ clearing = {} /\ cancels = {} /\ resumption = -1
  /\ log = <<>>

-----------------------------------------------------------------------------
(***************************************************************************)
(* The generation cut.                                                     *)
(***************************************************************************)
At(g, type) == [type |-> type, gen |-> g, turn |-> 0]
CloseRun(r) == [r EXCEPT !.closed = TRUE, !.aborted = TRUE]

CutRecord(barge) ==
  IF barge
  THEN <<At(gen + 1, "speech_onset"), At(gen + 1, "generation_cut"),
         At(gen + 1, "clear_requested"), At(gen + 1, "cancel_requested")>>
  ELSE <<At(gen + 1, "generation_cut")>>

AbortCurrent == IF current = 0 THEN runs ELSE [runs EXCEPT ![current] = CloseRun(@)]

\* cutLane: everything of the old generation is forgotten or aborted, except
\* what the playout queue and the adapters still hold.  The clears settled have
\* just settled.  The clear and the cancel of the translation are called, and
\* not awaited.
CutFence(barge, settled) ==
  /\ gen' = gen + 1
  /\ acks' = [g \in 0 .. gen + 1 |-> IF g <= gen THEN acks[g] ELSE <<>>]
  /\ stage' = [g \in 0 .. gen + 1 |-> IF g <= gen THEN stage[g] ELSE "none"]
  /\ firstAudio' = FALSE /\ played' = {}
  /\ metadata' = <<>> /\ pending' = <<>> /\ lastSeq' = 0
  /\ clears' = {[gen |-> gen + 1, barge |-> barge]}
  /\ clearing' = (clearing \ settled) \cup {gen + 1}
  /\ cancels' = cancels \cup {[gen |-> gen + 1, barge |-> barge]}
  /\ resumption' = IF barge THEN gen + 1 ELSE -1

Cut(barge) ==
  /\ CutFence(barge, {})
  /\ runs' = AbortCurrent
  /\ log' = log \o CutRecord(barge)

NoCut ==
  UNCHANGED <<gen, acks, stage, firstAudio, played, metadata, pending, lastSeq,
              runs, clears, clearing, cancels, resumption, log>>

\* #end, called where nothing else of the lane changes.
BeginEnd ==
  /\ ended' = TRUE
  /\ IF ended
     THEN UNCHANGED <<status, control, stopped>> /\ NoCut
     ELSE control' = "closing" /\ stopped' = TRUE /\ UNCHANGED status /\ Cut(FALSE)

-----------------------------------------------------------------------------
(***************************************************************************)
(* Commands of the operator, and the durability of what they reserved.     *)
(***************************************************************************)
Pause ==
  /\ status = "active" /\ control = "none" /\ ~ended
  /\ control' = "paused" /\ stopped' = TRUE
  /\ Cut(FALSE)
  /\ UNCHANGED <<status, ended, drop, capture, current, playout, held, heard>>

\* The end may have been reserved while resume refreshed the provider.
Resume ==
  /\ status = "paused"
  /\ control' = "active" /\ stopped' = TRUE
  /\ Cut(FALSE)
  /\ UNCHANGED <<status, ended, drop, capture, current, playout, held, heard>>

\* A disconnected session was qualified and started again.
Start ==
  /\ status = "waiting" /\ control = "none" /\ ~ended /\ drop = {}
  /\ status' = "active" /\ stopped' = FALSE
  /\ UNCHANGED <<control, ended, drop, capture, outputs, evidence, gen, pending, runs,
                 current, metadata, played, firstAudio, clears, clearing, cancels, resumption, log>>

\* The browsers that see a paused session stop to capture: what they send of
\* it, the end of their speech, finds the ingress stopped (web/app.js).
ControlDurable ==
  /\ control # "none"
  /\ status' = control /\ control' = "none" /\ stopped' = (control # "active")
  /\ voice' = IF control = "paused" THEN [p \in Party |-> FALSE] ELSE voice
  /\ UNCHANGED <<ended, drop, speaking, audio, outputs, evidence, gen, pending, runs,
                 current, metadata, played, firstAudio, clears, clearing, cancels, resumption, log>>

End ==
  /\ ~ended
  /\ BeginEnd
  /\ UNCHANGED <<drop, capture, current, playout, held, heard>>

-----------------------------------------------------------------------------
(***************************************************************************)
(* The ingress loop.  It awaits the evidence of a captured frame, and the  *)
(* two events of a disconnect, before it takes the next media event.       *)
(***************************************************************************)
\* After the end the media adapter delivers disconnects only.
IngressIdle == audio = -1 /\ drop = {} /\ status # "closing"

\* The frames fs are offered to the run of this generation, or to a new one;
\* a full input drops its oldest frames.  Close: finishUtterance closes it.
Offer(fs, close) ==
  LET reuse == /\ current # 0
               /\ runs[current].gen = gen /\ ~runs[current].closed
      new == [gen |-> gen, input |-> <<>>, owed |-> 0, closed |-> FALSE,
              aborted |-> FALSE, alive |-> TRUE]
      all == IF reuse \/ fs = <<>> THEN runs ELSE Append(runs, new)
      c == IF reuse \/ fs = <<>> THEN current ELSE Len(all)
      put(input) == LET i == input \o fs IN
                      SubSeq(i, 1 + (IF Len(i) > InputCap THEN Len(i) - InputCap ELSE 0), Len(i))
  IN /\ current' = c
     /\ runs' = IF c = 0 THEN all
                ELSE [all EXCEPT ![c].input = put(@), ![c].closed = @ \/ close]

\* speech_started.  A second start without an end is ignored, and so is every
\* start and end that arrives while the ingress is stopped.
SourceStarts ==
  /\ ~voice["source"]
  /\ IngressIdle /\ ~ended
  /\ voice' = [voice EXCEPT !["source"] = TRUE]
  /\ IF stopped \/ status # "active" \/ speaking["source"]
     THEN UNCHANGED <<speaking, firstAudio>>
     ELSE speaking' = [speaking EXCEPT !["source"] = TRUE] /\ firstAudio' = FALSE
  /\ UNCHANGED <<session, outputs, evidence, gen, audio, pending, runs, current, metadata,
                 played, clears, clearing, cancels, resumption, log>>

DestinationStarts ==
  /\ ~voice["destination"]
  /\ IngressIdle /\ ~ended
  /\ voice' = [voice EXCEPT !["destination"] = TRUE]
  /\ IF stopped \/ status # "active" \/ speaking["destination"]
     THEN UNCHANGED speaking /\ NoCut
     ELSE speaking' = [speaking EXCEPT !["destination"] = TRUE] /\ Cut(TRUE)
  /\ UNCHANGED <<session, audio, current, playout, held, heard>>

SourceEnds ==
  /\ voice["source"]
  /\ IngressIdle /\ ~ended
  /\ voice' = [voice EXCEPT !["source"] = FALSE]
  /\ IF stopped
     THEN UNCHANGED <<speaking, pending, runs, current>>
     ELSE /\ speaking' = [speaking EXCEPT !["source"] = FALSE]
          /\ pending' = <<>>
          /\ Offer(pending, TRUE)
  /\ UNCHANGED <<session, outputs, evidence, gen, audio, metadata, played,
                 firstAudio, clears, clearing, cancels, resumption, log>>

DestinationEnds ==
  /\ voice["destination"]
  /\ IngressIdle /\ ~ended
  /\ voice' = [voice EXCEPT !["destination"] = FALSE]
  /\ speaking' = IF stopped THEN speaking ELSE [speaking EXCEPT !["destination"] = FALSE]
  /\ UNCHANGED <<session, outputs, evidence, gen, audio, pending, runs, current,
                 metadata, played, firstAudio, clears, clearing, cancels, resumption, log>>

\* A frame takes the generation of the fence and goes to the evidence first.
AudioArrives ==
  /\ voice["source"]
  /\ IngressIdle /\ ~ended
  /\ ~stopped /\ status = "active"
  /\ speechEnd => speaking["source"]
  /\ audio' = gen
  /\ UNCHANGED <<session, outputs, evidence, gen, voice, speaking, pending, runs, current,
                 metadata, played, firstAudio, clears, clearing, cancels, resumption, log>>

AudioDurable ==
  /\ audio # -1
  /\ audio' = -1
  /\ IF status # "active" \/ audio # gen
     THEN UNCHANGED <<session, current>> /\ NoCut
     ELSE IF ~speechEnd
     THEN /\ Offer(<<audio>>, FALSE)
          /\ UNCHANGED <<session, gen, acks, stage, firstAudio, played, metadata, pending,
                         lastSeq, clears, clearing, cancels, resumption, log>>
     ELSE IF Len(pending) < InputCap
     THEN /\ pending' = Append(pending, audio)
          /\ UNCHANGED <<session, gen, acks, stage, firstAudio, played, metadata, runs,
                         current, lastSeq, clears, clearing, cancels, resumption, log>>
     ELSE BeginEnd /\ UNCHANGED <<drop, current>>
  /\ UNCHANGED <<voice, speaking, playout, held, heard>>

\* A participant of an active or paused session disconnects.  Its event
\* becomes durable: discardUtterance if it is the source, and
\* purgePlayoutMetadata if it is the destination.
Disconnect(p) ==
  /\ IngressIdle
  /\ status \in {"active", "paused"}
  /\ drop' = {[side |-> p, active |-> status = "active", prev |-> "none"]}
  /\ voice' = [voice EXCEPT ![p] = FALSE]
  /\ UNCHANGED <<status, control, stopped, ended, speaking, audio, outputs, evidence,
                 gen, pending, runs, current, metadata, played, firstAudio, clears,
                 clearing, cancels, resumption, log>>

DisconnectDurable ==
  \E d \in drop :
    /\ d.prev = "none"
    /\ drop' = {[d EXCEPT !.prev = status]}
    /\ speaking' = [speaking EXCEPT ![d.side] = FALSE]
    /\ IF d.side = "source"
       THEN /\ pending' = <<>>
            /\ runs' = AbortCurrent /\ UNCHANGED metadata
       ELSE metadata' = <<>> /\ UNCHANGED <<pending, runs>>
    /\ UNCHANGED <<status, control, stopped, ended, outputs, evidence, gen, voice, audio,
                   current, played, firstAudio, clears, clearing, cancels, resumption, log>>

\* setStatus("waiting") is durable: it has no effect when the status moved on or
\* a control is reserved.
Disconnected ==
  \E d \in drop :
    /\ d.prev # "none"
    /\ drop' = {}
    /\ IF control = "none" /\ status = d.prev
       THEN status' = "waiting" /\ stopped' = FALSE
       ELSE UNCHANGED <<status, stopped>>
    /\ speaking' = [p \in Party |-> FALSE]
    /\ IF d.active THEN Cut(FALSE) ELSE NoCut
    /\ UNCHANGED <<control, ended, voice, audio, current, playout, held, heard>>

\* Mutant of ClearAcknowledged: the clear stays pending.
ClearAcknowledgedTwice(g) ==
  /\ IngressIdle /\ ~ended
  /\ ~stopped
  /\ \E c \in clears :
       /\ c.gen = g /\ g = gen
       /\ log' = IF c.barge THEN Append(log, At(g, "clear_acknowledged")) ELSE log
  /\ UNCHANGED <<session, capture, outputs, evidence, gen, pending, runs, current, metadata,
                 played, firstAudio, clears, clearing, cancels, resumption>>

\* The browser acknowledges clear g, once or again.
ClearAcknowledged(g) ==
  /\ IngressIdle /\ ~ended
  /\ ~stopped
  /\ \E c \in clears :
       /\ c.gen = g /\ g = gen
       /\ clears' = clears \ {c}
       /\ log' = IF c.barge THEN Append(log, At(g, "clear_acknowledged")) ELSE log
  /\ UNCHANGED <<session, capture, outputs, evidence, gen, pending, runs, current, metadata,
                 played, firstAudio, clearing, cancels, resumption>>

IngressNext ==
  \/ SourceStarts \/ DestinationStarts \/ SourceEnds \/ DestinationEnds
  \/ AudioArrives \/ AudioDurable
  \/ \E p \in Party : Disconnect(p)
  \/ DisconnectDurable \/ Disconnected
  \/ \E g \in 1 .. gen : ClearAcknowledged(g)

-----------------------------------------------------------------------------
(***************************************************************************)
(* The translation of a lane run.  The adapter consumes the frames of its  *)
(* input, also those left after it was closed, and owes an audio output    *)
(* for each; it may go on after an abort, and stop then at any time.       *)
(***************************************************************************)
Consume(r) ==
  /\ runs[r].alive /\ runs[r].input # <<>>
  /\ runs' = [runs EXCEPT ![r].input = Tail(@), ![r].owed = @ + 1]
  /\ UNCHANGED <<session, capture, outputs, evidence, gen, pending, current, metadata,
                 played, firstAudio, clears, clearing, cancels, resumption, log>>

\* Mutant of Accepts: a repeated number is played again.
AcceptsRepeat(r, seq) == status = "active" /\ runs[r].gen = gen /\ current = r /\ seq >= lastSeq

\* handleTranslation of audio output number seq of turn r.
Accepts(r, seq) ==
  /\ status = "active"
  /\ runs[r].gen = gen
  /\ current = r
  /\ seq > lastSeq

KeepLast(s) == SubSeq(s, 1 + (IF Len(s) > QueueCap THEN Len(s) - QueueCap ELSE 0), Len(s))

\* storePlayoutMetadata
StoreMetadata(f) == KeepLast(Append(metadata, f))

PlayoutOf(r, seq) == [gen |-> runs[r].gen, seq |-> seq, turn |-> r]

\* A number may repeat, or skip one that a rejected turn took.
Emit(r, seq) ==
  /\ runs[r].alive /\ runs[r].owed > 0
  /\ runs' = [runs EXCEPT ![r].owed = @ - 1]
  /\ IF Accepts(r, seq)
     THEN /\ lastSeq' = seq
          /\ metadata' = StoreMetadata(PlayoutOf(r, seq))
          /\ playout' = KeepLast(Append(playout, PlayoutOf(r, seq)))
     ELSE UNCHANGED <<lastSeq, metadata, playout>>
  /\ UNCHANGED <<session, capture, held, evidence, gen, pending, current, played,
                 firstAudio, clears, clearing, cancels, resumption, log>>

\* The cut for a failure of the translation of run r, and the alert of it,
\* which has the generation of the run.
FailureRecord(r, failure) == CutRecord(FALSE) \o <<At(runs[r].gen, failure)>>

\* The provider reports an error that cannot be retried; the stream goes on.
ProviderError(r) ==
  /\ runs[r].alive
  /\ status = "active" /\ runs[r].gen = gen /\ current = r
  /\ CutFence(FALSE, {})
  /\ runs' = AbortCurrent
  /\ log' = log \o FailureRecord(r, "provider_error")
  /\ UNCHANGED <<session, capture, current, playout, held, heard>>

Forget(rs, r) == [rs EXCEPT ![r].alive = FALSE, ![r].input = <<>>, ![r].owed = 0]
Vacate(r) == current' = IF current = r THEN 0 ELSE current

RunEnds(r) ==
  /\ runs[r].alive
  /\ runs[r].aborted \/ (runs[r].closed /\ runs[r].input = <<>> /\ runs[r].owed = 0)
  /\ runs' = Forget(runs, r) /\ Vacate(r)
  /\ UNCHANGED <<session, capture, outputs, evidence, gen, pending, metadata, played,
                 firstAudio, clears, clearing, cancels, resumption, log>>

\* A stream that fails cuts the lane, also when a newer run has replaced it.
RunFails(r) ==
  /\ runs[r].alive /\ ~runs[r].aborted
  /\ CutFence(FALSE, {})
  /\ runs' = Forget(AbortCurrent, r) /\ Vacate(r)
  /\ log' = log \o FailureRecord(r, "translation_failed")
  /\ UNCHANGED <<session, capture, playout, held, heard>>

\* The adapter settles the cancel of a cut, at any time later.  The outcome is
\* reported without a look at the fence: that of a barge-in until the end, and
\* of another cut the failure only.  One that is not reported has no effect.
CancelReports(c, outcome) ==
  /\ cancels' = cancels \ {c}
  /\ log' = Append(log, At(c.gen, outcome))
  /\ UNCHANGED <<session, capture, outputs, evidence, gen, pending, runs, current, metadata,
                 played, firstAudio, clears, clearing, resumption>>

CancelSettles(c) == c.barge /\ status # "closing" /\ CancelReports(c, "cancel_settled")

CancelFails(c) == (c.barge => status # "closing") /\ CancelReports(c, "cancel_failed")

TranslationNext ==
  \/ \E r \in DOMAIN runs :
       \/ Consume(r) \/ ProviderError(r) \/ RunEnds(r) \/ RunFails(r)
       \/ \E seq \in lastSeq .. lastSeq + 2 : Emit(r, seq)
  \/ \E c \in cancels : CancelSettles(c) \/ CancelFails(c)

-----------------------------------------------------------------------------
(***************************************************************************)
(* Playout: the queue, the media adapter, and the frames that the browser  *)
(* reports to have started, whose evidence is written one by one.          *)
(***************************************************************************)

\* Mutant of Pull: the generation of the frame is not compared.
PullStale ==
  /\ playout # <<>>
  /\ playout' = Tail(playout)
  /\ held' = held \cup {Head(playout)}
  /\ UNCHANGED <<session, capture, evidence, gen, pending, runs, current, lastSeq, metadata,
                 played, firstAudio, clears, clearing, cancels, resumption, log>>

\* currentPlayout hands a frame of this generation to the adapter.
Pull ==
  /\ playout # <<>>
  /\ playout' = Tail(playout)
  /\ held' = IF Head(playout).gen = gen THEN held \cup {Head(playout)} ELSE held
  /\ UNCHANGED <<session, capture, evidence, gen, pending, runs, current, lastSeq, metadata,
                 played, firstAudio, clears, clearing, cancels, resumption, log>>

\* onPlayoutStarted.
PlayoutStarts(f) ==
  /\ held' = held \ {f}
  /\ acks' = IF /\ status = "active" /\ f.gen = gen
                /\ Len(acks[gen]) < AckCap
             THEN [acks EXCEPT ![gen] = Append(@, f)] ELSE acks
  /\ UNCHANGED <<session, capture, gen, pending, runs, current, lastSeq, playout, metadata,
                 stage, heard, played, firstAudio, clears, clearing, cancels,
                 resumption, log>>

ClearSettles(g) ==
  /\ clearing' = clearing \ {g}
  /\ held' = {f \in held : f.gen >= g}
  /\ UNCHANGED <<session, capture, evidence, gen, pending, runs, current, lastSeq, playout,
                 metadata, played, firstAudio, clears, cancels, resumption, log>>

\* A clear that was acknowledged or replaced fails without effect.  For the
\* clear of a barge-in, the failure is an event first and then a failure of the
\* evidence, which is one of the causes of End.  Any other is an alert and ends
\* the session.
ClearFails(g) ==
  /\ resumption' = IF \E c \in clears : c.gen = g THEN -1 ELSE resumption
  /\ IF [gen |-> g, barge |-> FALSE] \in clears /\ ~ended
     THEN /\ ended' = TRUE /\ control' = "closing" /\ stopped' = TRUE
          /\ CutFence(FALSE, {g}) /\ runs' = AbortCurrent
          /\ log' = log \o (<<At(g, "clear_failed")>> \o CutRecord(FALSE))
          /\ UNCHANGED <<status, drop>>
     ELSE /\ clearing' = clearing \ {g}
          /\ clears' = {c \in clears : c.gen # g}
          /\ log' = IF \E c \in clears : c.gen = g /\ (c.barge => status # "closing")
                    THEN Append(log, At(g, "clear_failed")) ELSE log
          /\ UNCHANGED <<session, gen, acks, stage, firstAudio, played, metadata, pending,
                         lastSeq, cancels, runs>>
  /\ UNCHANGED <<capture, current, playout, held, heard>>

Ack(g) == Head(acks[g])
Current(g) == status = "active" /\ g = gen
Settle(g) ==
  /\ acks' = [acks EXCEPT ![g] = Tail(@)]
  /\ stage' = [stage EXCEPT ![g] = "none"]
MoveTo(g, s) == stage' = [stage EXCEPT ![g] = s] /\ UNCHANGED acks
Follows(f) == heard # None /\ heard.gen = f.gen

\* acceptPlayout takes the metadata of the frame and places it on the timeline
\* of its track, after the event of a gap before it if there is one.
AckBegins(g) ==
  /\ acks[g] # <<>> /\ stage[g] = "none"
  /\ LET f == Ack(g) IN
       IF ~Current(g) \/ ~Contains(metadata, f)
       THEN Settle(g) /\ UNCHANGED <<metadata, heard>>
       ELSE /\ \E i \in DOMAIN metadata : metadata[i] = f /\ metadata' = RemoveAt(metadata, i)
            /\ IF Follows(f) /\ f.seq <= heard.seq
               THEN Settle(g) /\ UNCHANGED heard
               ELSE IF Follows(f) /\ f.seq > heard.seq + 1
               THEN MoveTo(g, "gap") /\ UNCHANGED heard
               ELSE MoveTo(g, "persist") /\ heard' = f
  /\ UNCHANGED <<session, capture, outputs, gen, pending, runs, current,
                 played, firstAudio, clears, clearing, cancels, resumption, log>>

AckGapDurable(g) ==
  /\ stage[g] = "gap"
  /\ MoveTo(g, "persist")
  /\ heard' = Ack(g)
  /\ UNCHANGED <<session, capture, outputs, gen, pending, runs, current, metadata,
                 played, firstAudio, clears, clearing, cancels, resumption, log>>

\* The end of acceptPlayout: the first audio of the generation, and the output
\* that resumes after a barge-in.
Report(g) ==
  /\ Settle(g)
  /\ firstAudio' = TRUE
  /\ resumption' = IF resumption = g THEN -1 ELSE resumption
  /\ log' = log \o (IF firstAudio THEN <<>> ELSE <<At(g, "audio_playout")>>)
               \o (IF resumption = g THEN <<At(g, "output_resumed")>> ELSE <<>>)

Lag(f) == [At(f.gen, "playout_lag") EXCEPT !.turn = f.turn]

\* The lag event of a turn, once per generation.
ReportTurn(f) == log' = Append(log, Lag(f)) /\ played' = played \cup {f.turn}

\* The frame is on the track.
AckDurable(g) ==
  /\ stage[g] = "persist"
  /\ IF ~Current(g)
     THEN Settle(g) /\ UNCHANGED <<played, firstAudio, resumption, log>>
     ELSE IF Ack(g).turn \in played
     THEN Report(g) /\ UNCHANGED played
     ELSE /\ ReportTurn(Ack(g))
          /\ MoveTo(g, "lag")
          /\ UNCHANGED <<firstAudio, resumption>>
  /\ UNCHANGED <<session, capture, outputs, heard, gen, pending, runs, current,
                 metadata, clears, clearing, cancels>>

\* Mutant of AckReported: the fence is not tested again after the await.
AckReportedLate(g) ==
  /\ stage[g] = "lag"
  /\ Report(g)
  /\ UNCHANGED <<session, capture, outputs, heard, gen, pending, runs,
                 current, metadata, played, clears, clearing, cancels>>

\* The lag event is durable.
AckReported(g) ==
  /\ stage[g] = "lag"
  /\ IF Current(g) THEN Report(g)
     ELSE Settle(g) /\ UNCHANGED <<firstAudio, resumption, log>>
  /\ UNCHANGED <<session, capture, outputs, heard, gen, pending, runs,
                 current, metadata, played, clears, clearing, cancels>>

PlayoutNext ==
  \/ Pull
  \/ \E f \in held : PlayoutStarts(f)
  \/ \E g \in clearing : ClearSettles(g) \/ ClearFails(g)
  \/ \E g \in 0 .. gen :
       AckBegins(g) \/ AckGapDurable(g) \/ AckDurable(g) \/ AckReported(g)

Next ==
  /\ \/ Pause \/ Resume \/ Start \/ ControlDurable \/ End
     \/ IngressNext \/ TranslationNext \/ PlayoutNext
  /\ UNCHANGED speechEnd

Spec == Init /\ [][Next]_vars

-----------------------------------------------------------------------------
(***************************************************************************)
(* Properties.                                                             *)
(***************************************************************************)
After(i) == {j \in DOMAIN log : i < j}
Outcome == {"clear_acknowledged", "clear_failed"}

CancelOutcome == {"cancel_settled", "cancel_failed"}
Failure == {"translation_failed", "provider_error"}

\* An event of an older generation follows a cut only where the relay reports
\* about a cut: the outcome of its cancel, which cutLane awaits without a fence,
\* and the failure of a translation, right after the cut that it causes.
\* Everything else of the lane, what is heard above all, is silent after its
\* cut, although handlers resume after awaits that the cut may overtake
\* (acceptPlayout, acceptAudio).
NoLateEvent ==
  \A i \in DOMAIN log : log[i].type = "generation_cut" =>
    \A j \in After(i) : log[j].gen < log[i].gen =>
      \/ log[j].type \in CancelOutcome
      \/ log[j].type \in Failure /\ log[j - 1].type = "generation_cut"

\* The chain of a barge-in: its clear and its cancel are requested before they
\* have an outcome, each has at most one, and output resumes once and never after a
\* failed clear.
BargeChain ==
  \A i \in DOMAIN log : \A j \in After(i) : log[j].gen = log[i].gen =>
    LET earlier == log[i].type
        later == log[j].type
    IN /\ later = "clear_requested" => earlier \notin Outcome \cup {"output_resumed"}
       /\ later = "cancel_requested" => earlier \notin CancelOutcome
       /\ later \in Outcome => earlier \notin Outcome
       /\ later \in CancelOutcome => earlier \notin CancelOutcome
       /\ later = "output_resumed" => earlier \notin {"clear_failed", "output_resumed"}

\* A turn is reported as played once per generation.
LagOnce ==
  \A i \in DOMAIN log : log[i].type = "playout_lag" => \A j \in After(i) : log[j] # log[i]

\* A frame of this generation that is queued for playout has its metadata, while
\* the destination is connected: a frame that will be heard can be evidenced.
QueuedHasMetadata ==
  \A i \in DOMAIN playout :
    playout[i].gen = gen /\ (\A d \in drop : d.side # "destination")
      => Contains(metadata, playout[i])

\* The frames queued for playout keep the order of their generation and number,
\* although superseded turns, repeated numbers and cuts interleave.
PlayoutOrdered ==
  \A i, j \in DOMAIN playout : i < j =>
    \/ playout[i].gen < playout[j].gen
    \/ playout[i].gen = playout[j].gen /\ playout[i].seq < playout[j].seq

\* The playout queue keeps its order and the metadata of its frames, and a turn
\* is reported as played once.
PlayoutHolds == TypeOK /\ PlayoutOrdered /\ QueuedHasMetadata /\ LagOnce

\* Once a pause or the end is reserved nothing more is handed to the media
\* adapter, before the new status is durable (applyCommand, finishEnd).
StoppedIsSilent == [][stopped /\ stopped' => held' \subseteq held]_vars

\* docs/implementation-architecture.md:106: barge-in starts a new generation for
\* the destination lane.  The destination begins to speak in an active session.
BargeCuts ==
  [][ /\ status = "active" /\ ~stopped
      /\ ~voice["destination"] /\ voice'["destination"]
      => gen' = gen + 1]_vars

=============================================================================
