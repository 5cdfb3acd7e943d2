# A specification of the Fast_Translation relay

Fast_Translation is a server for two people who speak different languages: each
speaks into a browser, the server translates both directions live, plays the
translation to the other, and keeps encrypted evidence of everything that was
captured and played.  This directory holds TLA+ modules that model its relay, its
evidence store, the browser side of the media, the server's sessions and the
provider adapters, TLC configurations that check them on small instances, and
proofs that TLAPS checks for every value of the constants.

Source paths below are relative to the repository; `relay.ts` is
`src/core/relay.ts`.

## 1. The system

| Part | State it keeps | Operations | Talks to |
| --- | --- | --- | --- |
| Relay session (`relay.ts`) | status, reserved control status, consents, connections, readiness, recorder arm state, provider readiness, end task | `open`, `command` (start, pause, resume, end, consent, withdrawal, arm), handlers of media events, `finishEnd` | evidence port, media adapter, translation adapter |
| Relay lane, one per direction (`relay.ts`, `generation-fence.ts`) | generation fence, lane run, buffered utterance, playout queue and metadata, pending clears, evidence cursors | speech start and end, audio, translation events, playout, clear and its acknowledgement, generation cut | translation adapter, media adapter, evidence |
| Event stream (`relay.ts`) | cursor, bounded history, evidence tails and their slots, subscribers | `emit`, `persistEvidence`, `failEvidence`, `events` | evidence port, sockets of the server |
| Command ledger (`relay.ts`) | executions by `commandId`, command tail, incomplete count, withdrawal reservation | `command`, replay, eviction | relay session |
| `AsyncQueue` (`async-queue.ts`) | values, waiters, closed, failed | `offer`, `offerLatest`, `offerPriority`, `close`, iterators | lane input, playout, subscribers |
| Evidence store (`adapters/evidence`) | spool, sidecar, keys, locks, audit journal, deletion receipts, all on disk | `persist`, `flush`, `preflightRecorder`, `finalize`, `recover`, retention, deletion, export | file system |
| Browser media adapter (`adapters/media/browser-websocket.ts`) | grants, attachment of each side, reader and queues | attach, detach, `play`, `clear`, `closeSession` | participant sockets, relay |
| Browser client (`web/`) | capture, playout ring, socket supervisor | capture and playout worklets, controls | media adapter, server |
| Server (`src/server`) | tickets, sockets, leases, shutdown | HTTP routes and sockets | relay, store, glossary |
| Glossary (`adapters/glossary`, `core/glossary.ts`) | version files, leases, recovery journal | publish, lease, release, recover | server |
| Translation adapters (`adapters/openai`, `palabra`, `translation`) | connection of each lane, prewarmed sockets, turns in flight | `prepare`, `translate`, `cancel`, `closeSession` | providers |
| Benchmark and local evaluation (`src/benchmark`, `src/local-eval`) | trials, healing, operation budget | run, heal, quarantine | relay with in-memory ports |

The relay runs on one JavaScript thread, so code between two awaits is atomic
and everything else interleaves.  What is hard in it:

* **status changes wait in a queue.**  A status changes when its event was
  persisted; meanwhile withdrawals, disconnects, ends, and other status changes
  go on.  Two flags, `controlStatus` and `ingressStopped`, are reserved at once
  to bridge the gap.
* **handlers resume after awaits** and must look again at what they tested:
  the end, the consents, the generation.
* **failures jump the queue.**  A failure of the evidence publishes its alert and
  begins the end while an event may be on its way to the store.
* **everything is bounded**: slots for evidence operations by class, histories,
  queues, metadata, pending clears.  Each bound has a policy: refuse, drop the
  oldest, evict, or fail the session.
* **timers race** with what they bound, and the late answer still comes.
* **three media queues and a browser** lie between a translation and what a
  participant hears; a barge-in must silence all of them.
* **an archive is several files** that no write changes together; a crash between
  two writes leaves one of many combinations, and recovery, retention and
  deletion decide from what is left.
* **sockets break** with messages in flight in both directions, and everything
  that waits on an answer must be told or told again.
* **providers answer late**, in any order, for turns that were cut meanwhile.

The properties that make each part correct are in the modules; the hazards, each
at its line, are in `PROJECT.json`.

## 2. The modules

The relay comes first, then the parts around it.  A module is one part; parts that
are checked together stand side by side in an `MC` module.

### SessionLifecycle and RelaySession

`SessionLifecycle` says what a session promises about its status, its consents
and its end.  `RelaySession` is the detailed session that implements it
(`ImplementsLifecycle`; `MCRelaySession` states it again because its initial states
include a ready session).

`RelaySession` cuts the code at its awaits.  The four activities `cmd`
(`#applyCommand`, one at a time on the command tail), `ingress` (`#runIngress`),
`prep` (`#prepareProviders`) and `end` (`#finishEnd`) are each at one place
`at[p]`, which names the await.  `tail` is `evidenceOperationTail`: an activity
appends an operation, `Commit` takes the head, runs its callback and publishes
it, and the activity is then `Resumed`.  After a failure (`failed`) operations
settle without effect.

| Code | Actions |
| --- | --- |
| `#applyCommand` start | `Start`, `RefreshContinues`, `StartPrepared`, `ControlSettled` |
| pause, resume | `Pause`; `Resume`, `RefreshContinues`, `ResumePrepared`; `ControlSettled` |
| consent | `Consent`, `ConsentRecorded` |
| arm_recorder | `ArmRecorder`, `ArmArming`, `ArmPreflight`, `ArmPreflightRecorded`, `ArmFlushed`, `ArmSettled`, `ArmFails` |
| withdrawal, end, playout clear failures | `Withdraw`, `End` |
| `#finishEnd` | `BeginEnd`, `EndCleaned`, `EndClosingSettled`, `EndBackground...`, `EndClosed`, `EndDrain...`, `Finalize`, `EndAnnounced` |
| `#handleIngress` participant state and readiness | `ParticipantState`, `ParticipantReadiness`, `IngressRecorded`, `DropRecorded`, `DropSettled`, `IngressEnds` |
| `#beginProviderPreparation`, `#prepareProviders` | `BeginPreparation`, `Prepare...` |
| `#setStatus`, `#beginControlStatus` | `StatusOp`, `ControlOp`, `CommitStatus` |
| `#failEvidence`, a refused or timed out operation | `EvidenceFails` |

`MacrotaskIO` tells how a persist settles: with the encrypted store it needs a
turn of the event loop, so continuations that are ready run before it; with the
in-memory store of the benchmark it may not.  The checks use TRUE, the store
that the server is launched with; the proofs hold for both.

Left out: alerts, cuts and audio records in the tail (they change no variable of
the module, and `EvidenceFails` covers their failure), command identity (see
`SessionCommands`), the contents of consents, and opening a session, whose
result is `Init`.

### SessionCommands

`command` of the relay around what `RelaySession` applies.  `execs` is the history of
executions; `ledger` is `runtime.commands`, the executions it still knows, and `Evict` forgets
the oldest settled ones.  A command stands for its fingerprint: a commandId with another
fingerprint is refused and changes nothing, and a repetition awaits the first
execution, so neither is an action.

| Code | Actions |
| --- | --- |
| `command` | `Submit`, `End`, `Withdraw`, `Refuse`, `Replay` |
| the command tail, `#applyCommand` | `Begin`, `Finish` |
| `#completeWithdrawalReservation`, `#end` | `Complete`, `ReceiptSettles` |
| settling, `#evictSettledCommands` | `Settle`, `Evict` |
| `#finishEnd`, `#failEvidence` | `Closes`, `EndSettles`, `EndsItself` |

### RelayLane

One direction of a session that is active at first.  `runs` holds every lane run
there was, `current` is `runtime.laneRuns[lane]`, and a run keeps its input and
the outputs it owes.  `held` are the frames that the media adapter and the
browser hold; `acks[g]` the started frames of generation g whose acceptance is
queued, and `stage[g]` the await of the first one inside `#acceptPlayout`; acceptances of
different generations run side by side.  `CutFence` and `Cut` are `#cutLane`, which does not
await the clear and the cancel that it calls: `clearing` and `cancels` are those whose
outcome is still to come, and a cancel reports its outcome without a look at the fence
(`CancelReports`).  `FailureRecord` is the cut for a failed translation with the alert
behind it, which has the generation that was cut.  `log` is
the sequence of the lane's events in the order of the tail.  `voice` is what the
participants do, and `speaking` what the relay thinks of it.

The translation adapter is any adapter that answers each consumed frame with at
most one output and may repeat or skip a number, report an error or fail; the
media adapter takes frames, settles or fails clears and reports started frames.
Left out are

* transcripts;
* queue telemetry: the queue samples of an aborted run keep its generation
  (`relay.ts:2049-2062`), so they too may follow its cut;
* rejection records, which are records of the evidence and not events;
* alerts and gap events that a handler emits with the generation that the fence has in the
  same step: trimmed queues and metadata, backpressure, sequence gaps, errors that can be
  retried, readiness of the provider.

None of them changes the state that is modelled.

### SessionEvents

An event is its kind and cursor.  `LimitOf` gives every kind the admission limit of
its class; the constants keep the differences of the code (priority two above
normal, withdrawal one above, terminal three above).  `Handle` emits what handlers
emit without an await between: one event, a pause (control and two cuts), a
barge-in, a resume; any of it may be refused in the middle, which fails the
evidence and begins the end right there.  `TimesOut` is a timer that fires before
the operation settles, and `Persisted` may come after it.  A subscriber is its
queue, the last cursor it got, and whether it waits.

### AsyncQueue

The queue itself, with every consumer and iterator operation.  Values are numbered as
accepted; `low` marks what `offerPriority` may evict.  `lost` and `delivered` are
history.  In the other modules a queue is a sequence with the policy of the
operation they use.

### EvidenceGovernance and EvidenceArchive

`EvidenceGovernance` says what the store promises of a recording: it is opened once,
closed as sealed or as failed, erased for ever, and the verdict that was answered is
the state it is in.  `EvidenceArchive` implements it (`ImplementsGovernance`).  It has
the files of one archive (`spool`, `archive`, `side` for the key sidecar, `receipt`), the
memory `mem` that a crash forgets, and `op`, the operation that holds the lock of the
archive.  Each action makes one file durable.  An append may outlive the
finalization that stopped waiting for it, and `landing` is one that cleans up behind itself.

| Code (`session-artifact-store.ts`) | Actions |
| --- | --- |
| `#stateForSession`, `#initializeState`, eviction | `InitializeState`, `EvictState` |
| `persist` | `Persist`, `EnqueuePersist`, `BeginAppend`, `AppendLands`, `AppendFails`, `RefuseRecord`, `LateCleanup` |
| `preflightRecorder` | `PreflightRecorder` |
| `finalize`, `#finalizeOnce` | `Finalize`, `Abort`, `FinalizeStart`, `SaveSide`, `FinalizeTail`, `Rescan`, `AppendManifest`, `AppendSeal`, `PromoteArchive`, `MarkCancelled`, `FinishSealed` |
| a write that fails | `StepFaults`, `DeletionFaults` |
| `#sweepOneExpiredArtifact`, `#completePendingDeletionLocked` | `BeginDeletion`, `ResumeDeletion`, `EraseKey`, `EraseFiles`, `AuditDeletion`, `CompleteDeletion` |
| restart, `recover` | `Crash`, `Recover` |

### EvidenceRetention

The governance of an archive that was closed: deadline and extension, reviews, managed
export, deletion by the owner or by the sweep.  `journal` is the detached audit, `head` the
length that the second file vouches for; an operation goes through its steps in `op`,
and `answer` is what its caller was told last.  A crash may leave the last line of the
journal `Torn`.

| Code | Actions |
| --- | --- |
| `#appendContentFreeAudit`, `#writeContentFreeAuditHead` | `AppendAudit`, `WriteHead`, `Anchor` |
| `#extendRetentionLocked`, `#commitPendingRetentionExtension`, `#recoverPendingRetentionExtension` | `DecideExtension`, `CommitExtension`, `Settle` |
| reviews | `DecideReview`, `ReviewCallback`, `ViewRetention` |
| `#withManagedExportLeaseLocked` | `DecideNewExport`, `DecideKnownExport`, `ExportCallback`, `ExportVerified`, `CompleteExport`, `ClearExport`, `UnregisterExport` |
| `#deleteEvidenceLocked`, `sweepExpired` | `DecideDeletion`, `BeginSweep`, `DecideSweep`, `Erase`, `CompleteReceipt`, `ResumeDeletion` |
| restart, `recover`, the clock | `Crash`, `Recover`, `DecideRecovery`, `Tick` |

### EvidenceRootLease

Processes and the marker files by which one of them owns the roots.  `made` counts the
markers ever made, so a fresh marker at an old path is another marker.  `Acquire`,
`CreateLease`, `SyncLease` link a marker; `ReadSnapshot`, `ClaimMarker`, `RecheckMarker`,
`UnlinkMarker`, `ReleaseClaim` are `#reclaimStaleLockMarker`, at any depth of claims;
`BeginOperation` to `EndOperation` run under the lease; `ReleaseLease`, `DrainLease`,
`ForgetLease` give it back.  The glossary repository has a root lease of the same form.

### BrowserIngress

`attach`, `detach`, `closeSession` and the bounded queue of the adapter, with what
`offerPriority` evicts and what waits in `pending`, to the relay's `#handleIngress`
(`Pull`, `Handle`), of which the model keeps what it believes of each side.

### BrowserPlayout

From `play` of the adapter to the chunk that sounds: `srv` is the adapter with the frames
it waits for and the clear it has no answer to, `down` and `up` the connection, `page` the
receipts of the page, `toWork`, `work`, `fromWork` the worklet and its port.  `Break` loses
what is on the connection; `Connect` replays the outstanding clear.  Voice detection
and the interruption that it causes on the page are left out.

### BrowserCapture

`start[a]` is the a-th call of `startParticipantAudio`, at one of its awaits; `told` is what
the server last heard of its readiness on the connected socket.  The page's
state `page` has the room, the consent and which start owns its audio.

### OperatorTranscript

`ShowText`, `Validate`, `Play`, `Cut`, `Reconnect`, `Resync` are the handlers of the operator's
page; `said` is the history of what the server said.  `pendingValidation` and `pendingPlayed`
are the bounded maps of marks that came before their text.  `Filters!Without` is what is left of such
a map, and of the events beside the queue of `BrowserIngress`, when some are taken out.

### ServerSessions

`POST /api/sessions` of `src/server/app.ts` (`Acquire`, `Reserve`, `Open`, `AttachLease`,
`ReturnLease`), the managed relay of `src/composition.ts` with slots, observers and shutdown,
and the glossary repository.  It assumes of the HTTP framework that it runs its
closing hooks in the reverse order of their registration.  Left out: the failure of a
payload's validation, the sweeps of retention, an observer whose stream fails, a
release that fails, and the count of root operations.

### EventDelivery

`Accept`, `Deliver`, `Fail`, `Finish`, `HearClose`, `End` are the server's side of an event socket,
`Receive`, `SeeClose`, `Reconnect`, `Snapshot`, `ShowSnapshot` the page's.  What the relay does
to fill a subscription is in `SessionEvents`; here `log` is its history with a bound on
what is retained and on what a socket may be behind.  Switching a page between
sessions is left out.

### NativeTranslation

One turn of the native adapter: windows of input, the provider's transcripts and
audio in any order, the local queue with its holdback and its bounds in `turn`, and `relay`,
what the relay was given.  The mode (fast or balanced) decides what is held.

### PalabraLane

`lanes` are the connections there were, `turns` the turns, `call` the preparation that the
relay awaits.  A turn's `ids` are the provider ids taken for it; a connection retires the
ids of its past turns and remembers the last `MaxRetired` of them, of which
`LateIdsStayOut` takes account: an id belongs to one turn as long as what was used on the
connection since (`Since`) fits in the memory.  `orphan` says that a promise was
rejected that nobody awaits.

### MC modules

`MCRelaySession`, `MCRelayLane`, `MCSessionEvents` and `MCSessionCommands` add counters that
bound the environment.  `MCRelayFlow`, `MCEvidence`, `MCBrowser`, `MCServer` and `MCProviders`
put parts **side by side**: a behaviour chooses one part in its initial state
(`part`), takes only steps of it, and the parts share no variable.  This composes
nothing, and is not meant to; it gives parts that answer the same question (how
does a session end; what does a lost socket do) one run, one set of constants and
one statement.  Fairness is guarded by the part, so a part that a behaviour is not about is
never owed a step.  Invariants there are conjunctions of the properties of the parts,
which are stated and commented in the part's module.

`MCRelayFlow` takes the events under their own names and the queue and the commands as instances
(`Queue`, `Commands`), with the names of the variables that several parts have changed.

The parts meet at their boundary instead: `SessionCommands!Fairness` takes from
`RelaySession` what `CommandsSettle` and `EndSettles` check; `BrowserIngress`
and `BrowserPlayout` keep of the relay what it answers in `RelayLane` and
`RelaySession`; `EventDelivery` relies on the stream without gaps of `SessionEvents`.

## 3. What the runs check

Deadlock is not checked: sessions end and bounded environments stop.

| Run | Instance | Shows |
| --- | --- | --- |
| `Session` | 2 sides; from the opening with 4 media events, and from a ready session with 2 | no running session without consent or without an armed recorder (`LiveMeansConsented`, `LiveMeansArmed`); sealed evidence holds the withdrawals (`DrainCoversWithdrawal`); the session implements its lifecycle |
| `Lane` | 2 frames or 2 cuts; 3 of frames, cuts and outcomes of cancels together, 2 for whole utterances | after a cut, only reports about a cut carry an older generation (`NoLateEvent`); the chain of a barge-in with its clear and its cancel; playout in order, with its evidence, its lag reported once (`PlayoutHolds`); silence once stopped |
| `Flow` | queue: 2 consumers, capacity 2, 5 values; events: 1 subscriber, history 2, 1 normal slot, 2 subscriptions; commands: 3 executions, 1 plain and 2 withdrawals, 2 pending, 1 settled | no lost wakeup, no lost value; streams without gaps that end with the session; store and stream agree; commands in turn, once, with the same answer and a place for a withdrawal; waits end and commands are answered |
| `Evidence` | archive: 3 records, 2 pending, 1 fault, 2 crashes; governance: 1 extension, 1 export, 1 crash; leases: 3 processes, 6 markers | a sealed archive is whole, a deleted one is gone, the verdict stays; extensions hold, answers are audited once, plaintext is registered; aborts answer, what is due is erased; one process at a time |
| `Browser` | playout: 2 frames, 3 cuts, 2 sockets, queues of 1; ingress: queue of 2, 2 sockets; capture: 2 starts, 2 upsets; transcript: 2 generations, 2 to 3 revisions | silence behind an applied clear, which settles; the loss of a participant is never lost; readiness is true; microphones go off; the marks of a transcript are true and not lost |
| `Server` | a ready session; 2 sessions, 1 slot, 2 deletions, 1 crash; 3 events, 2 sockets, 1 loss | an end and all commands settle; a pinned version stays, a deleted one does not return; shutdown ends sessions; places and leases return; a page skips nothing and shows the close |
| `Providers` | native: 2 windows, 4 messages; Palabra: 2 turns, 2 connections, 3 ids, 2 of a turn and 1 remembered | no silent end of a turn; a frame follows the text it names; late ids stay out while they are remembered; turns and preparations end |

The bounds are small because the hazards are: two status changes and one
withdrawal, two cuts and one frame, one write that fails between two crashes, a socket
lost and replaced.  Capacities of one or two make every bound of the code reachable:
refused slots, an overflowed subscriber, dropped frames of a full input, an utterance that
does not fit (which ends the session), an exhausted journal, a full ingress queue with two
losses waiting beside it, a memory of ids that is full.  One bound is not reached: with
`QueueCap = 2` and two frames, `Lane` never trims the playout queue and its metadata.  The same
instance with `QueueCap = 1` trims both and finds no error, and the proof is for every
capacity.  Symmetry is used over the sides in
`Session`, whose properties are safety properties and which treats both alike.

### Where the code departs from what it says

Five runs are expected to be violated; `PROJECT.json` quotes the line that each
refutes.

* `SessionWithdrawal`: a resume does not look at the end again after its awaits
  and makes an ended session active.  The lifecycle has the actions
  `ResumeAfterEnd` and `DropAfterEnd` for it; without them the session does not
  implement it.
* `SessionEndCloses`: the reservation of closing is overwritten, `closed` finds
  another status than it expects, and the session never shows closed.
* `EvidenceErase`: the audit of a completed deletion initializes the audit in the sidecar
  and writes the key file again that the deletion had erased.  `EvidenceGovernance` is
  implemented all the same, as its state is the receipt's.
* `EvidenceDeletion`: a torn audit line of a pending extension makes the deletion by the owner
  throw for ever, although deletion is said to continue through a corrupt audit.
* `PalabraFailure`: a readiness check whose send fails leaves a rejected promise
  behind, which ends the process.

More were met while modelling.  Their properties are definitions of the modules
(unless said otherwise) that hold in no run; each is violated with the constants named:

* `RelaySession!StartQualified` (`Session.cfg`): a start queued behind a disconnect makes the
  session active with one side gone, against
  `docs/implementation-architecture.md:103` (`relay.ts:969-979, 3166`).
* `RelayLane!BargeCuts` (`SpeechEnds = {TRUE}`, `InputCap = 2`, `MaxFrames = 0`, other bounds 1
  or 4): pausing while the destination speaks leaves its speech flag set, and its
  first barge-in after the resume cuts nothing, against
  `docs/implementation-architecture.md:106` (`relay.ts:1346-1351, 1469`).
* `NativeTranslation!FramesCorrelate`: the adapter may emit a frame whose target text the relay
  has not taken or has revised (`native-realtime-translate.ts:512-515, 810-835`;
  `relay.ts:2165-2219`).
* `EventDelivery!ReloadHelps`: a participant page that is told to reload after a gap asks for
  the whole history again, and meets the gap again (`relay.ts:1283-1290`, `web/app.js:1597-1600`).
* `EventDelivery!JoinedIsKnown`: a page resynced from a snapshot does not learn who is connected
  (`web/app.js:2148-2244`, `src/server/app.ts:1652-1688`).
* `BrowserCapture!MicrophoneIsOwned` with `Keyboard = TRUE`: a second start by keyboard while one
  is under way replaces it without its stop (`web/app.js:1521-1532, 3290-3303`).
* `BrowserCapture!CaptureComesBack`: a capture that a pause stopped is not ready again when the
  session goes on (`web/app.js:1109-1140`).
* `BrowserIngress!ReadinessIsFresh` (`Controls = {"ready", "stopped"}`, capacity 2, 2 sockets): after a
  reconnection a readiness of the earlier socket may stand
  (`browser-websocket.ts:1054-1059, 1116-1157`, `relay.ts:1404-1417`).
* `BrowserPlayout!FenceLifts` (`Browser.cfg`): a page that reconnects fences its worklet, and only
  the next cut lifts the fence (`web/app.js:3121-3136`, `playout-worklet.js:132-134`).

Read in the code, not stated as properties: the memory of retired provider ids of the
Palabra adapter (128) is smaller than the ids one turn may have (256), so that a long turn
leaves ids behind that its lane has forgotten; `LateIdsStayOut` says what holds in spite of it, and
`Providers.cfg` has the same ratio; two requests for a wake lock may leave one without an owner (`web/app.js:2860`); a page of a
closed session that the operator reloads reconnects every second for ever; a cut in the middle
of an utterance forgets only what was buffered of it (`relay.ts:2740`); the cursor of the
playout track is written after an await whatever the generation is (`relay.ts:2571`);
the outcome of a cancel (`relay.ts:2863-2903`) and the alert of a failed translation
(`2041-2042`, `2309-2330`) carry a generation that was cut, which `NoLateEvent` therefore
excepts; a translation that fails after a newer run replaced it cuts the lane of the newer one
(`relay.ts:2039-2041`, `RunFails`); `acceptAudio` looks at the consent of its side before its awaits only, and the status test
behind them covers a withdrawal (`relay.ts:1873`).

## 4. Fairness

Fairness is weak, and of what schedulers, timers and bounded waits do, never of
operators, participants or providers:

* `RelaySession`: continuations run (`PrepNext`, `IngressContinues`, `CmdContinues`,
  `EndContinues`); the store settles an operation or its timer fails the evidence (`Commit`); each
  phase of `finishEnd` is bounded by `settleWithin`.  One assumption is on an
  adapter: `prepare` settles, which the relay does not bound (`relay.ts:1765`);
  `Providers` checks that the Palabra adapter answers it (`TurnsEnd`), its own timers
  being fair.
* `SessionEvents!Fairness` is the same for the tail and `finishEnd`.
  `SessionCommands!Fairness` takes from `RelaySession` what `CommandsSettle` and
  `EndSettles` check there: a command that was begun settles, and so do the event
  of a withdrawal, the status and the end.
* `EvidenceArchive`: an operation that holds the lock goes on, a started process
  recovers.  An append that hangs is *not* fair: `AbortAnswers` holds without it.
* `EvidenceRetention`: steps go on, a process is restarted and recovers; the sweep is
  *strongly* fair, since it runs on a timer and other operations hold the lock between.
* `BrowserPlayout`: messages arrive on a connection that is not lost, the supervisor
  retries, timers fire.  `BrowserCapture`: the browser answers what a start waits for.
* `ServerSessions`: requests that were begun, observers and the lock of the version go on.
  `EventDelivery`: each socket's server handler, each socket's messages, and the page.
* `NativeTranslation`, `PalabraLane`: timers fire and the adapter's loops go on.

## 5. What is proved

Each proof module takes one component and its declared assumptions on constants, which say
no more than the code does of its bounds (`MacrotaskIOAssumption`, `CommandsAssumption` and
so on); sets of participants, commands, consumers or processes are arbitrary.  Where a run
checks a property of a part side by side with others, the theorem is about the part; those of the
events, of the queue and of the commands of a session share `RelayFlowProofs`, about the instances
of `MCRelayFlow`, those of the server and of event delivery share `ServerProofs`, about `MCServer`, those of the governance
and the leases of the evidence store `EvidenceProofs`, about `MCEvidence`, those of the four
parts of the browser `BrowserProofs`, about `MCBrowser`, and those of the two provider adapters
`ProviderProofs`, about `MCProviders`.

| Theorem | Statement |
| --- | --- |
| `RelaySessionProofs!TypeCorrect` | `Spec => []TypeOK` |
| `RelaySessionProofs!LiveSessionsAreConsented` | `Spec => []LiveMeansConsented` |
| `RelaySessionProofs!LiveSessionsAreArmed` | `Spec => []LiveMeansArmed` |
| `RelaySessionProofs!DrainsCoverWithdrawals` | `Spec => DrainCoversWithdrawal` |
| `RelaySessionProofs!SessionsFollowLifecycle` | `Spec => Lifecycle!Spec /\ ImplementsLifecycle` |
| `RelayLaneProofs!NothingLate` | `Spec => []NoLateEvent` |
| `RelayLaneProofs!BargeInInOrder` | `Spec => []BargeChain` |
| `RelayLaneProofs!PlayoutIsEvidenced` | `Spec => []PlayoutHolds` |
| `RelayLaneProofs!StoppedHandsNothing` | `Spec => StoppedIsSilent` |
| `RelayFlowProofs!StreamIsKept` | `Spec => []StreamHolds` |
| `RelayFlowProofs!EvidenceIsKept` | `Spec => []EvidenceHolds` |
| `RelayFlowProofs!CommandLedger` | `Commands!Spec => []LedgerHolds` |
| `RelayFlowProofs!WakeupsAreNotLost`, `ValuesDoNotVanish` | `Queue!Spec => []NoLostWakeup`, `[]NothingVanishes` |
| `RelayFlowProofs!TypeCorrect`, `OrderIsKept`, `EndComesLast` | the queue keeps its type and bound, keeps order, ends last |
| `ServerProofs!PinnedVersionIsKept` | `Spec => []VersionHolds` |
| `ServerProofs!ShutdownIsComplete` | `Spec => []ShutdownEnds` |
| `ServerProofs!DeliveryIsKept` | `Delivery!Spec => []DeliveryHolds` |
| `EvidenceProofs!ExtensionsHold` | `MCSpec => []ExtendedHolds` |
| `EvidenceProofs!AuditIsKept` | `MCSpec => []AuditHolds` |
| `EvidenceProofs!LeaseIsKept`, `LeasesAreMarked`, `RootsAreExclusive` | `MCSpec => []LeaseHolds` and its two safety parts |
| `EvidenceArchiveProofs!ArchivesAreWhole` | `Spec => []ClosedIsWhole` |
| `EvidenceArchiveProofs!DeletedIsGone` | `Spec => []CiphertextIsGone` |
| `EvidenceArchiveProofs!ArchiveIsGoverned` | `Spec => Governed!Spec /\ ImplementsGovernance` |
| `BrowserProofs!ClearedStaysSilent` | `Spec => []ClearedIsSilent` |
| `BrowserProofs!LossIsKept` | `Ingress!Spec => []LossIsOnTheWay` |
| `BrowserProofs!ReadinessIsKept` | `Capture!Spec => []ReadinessIsTrue` |
| `BrowserProofs!MarksAreKept` | `Transcript!Spec => []MarksAreTrue` |
| `ProviderProofs!EndsAreHeard` | `MCSpec => []NoSilentEnd` |
| `ProviderProofs!FramesFollow` | `MCSpec => FrameFollowsTarget` |
| `ProviderProofs!LateIdsAreKept` | `MCSpec => []LateIdsStayOut` |

**The session.**  A status change is decided at one time and happens at another, so the
invariants speak of what waits in the tail as well as of the state.

* `ConsentInv`: all consents are given, or the session was told to end, or it is
  not live *and no operation of the tail makes it live*.  The first two are never
  lost but by `Withdraw`, which begins the end in the same step (`EndStays`: an end
  is not undone); so what has to be shown is that an operation to a live status is
  queued only after a test of the consents, whatever else moves.
* `ArmInv` has the same form for the recorder, but an arm state can be lost: arm
  operations wait in the tail too.  Until the evidence fails an arm operation in the
  tail is the one that the command tail awaits (`Placed`), the places where it
  awaits one that disarms are reached only while the recorder is not armed
  (`Awaited`), and once it is armed no participant is without an answer to the
  question of consent (`Asked`), so no further `Consent` can start `unarmed` again.
  After a failure no operation of the tail has an effect.
* `WithdrawalInv`: until the evidence fails, the event of every withdrawal is
  persisted or in the tail.  `DrainEnds` shows that only `EndDrained` and
  `EndDrainTimeout` leave the drain; the first does so with an empty tail, the
  second with a failure.

**The session implements its lifecycle.**  `Commit` changes the status, and whether this is a
step of the lifecycle depends on what was true when its operation was queued.  `PathInv` keeps
of that what is still needed: the `Shapes` of operations, from which status to which and by
whom; that an activity has at most one of them in the tail (`Single`); where ingress is while
it is `Dropping` a participant; and, once the end began, that no change to ready is left that could
succeed (`EndedShape`).  `Move` is what the steps other than `Commit` do to the tail and the
places; `StepMoves` shows every one of them to be a `Move`, `MoveKeepsPath` and
`CommitKeepsPath` that the invariant is kept, and `OtherStepsRefine` and `CommitRefines` map the
steps.  The lifecycle's `ResumeAfterEnd` and `DropAfterEnd` are needed here exactly where the
run without them finds its counterexample.

**The lane.**  Most of the lane's actions do to the log, the queue and the clears what few
kinds of moves do: cut, purge, emit, hand a frame over, settle a clear, report a cancel, take or
handle an acknowledgement, or none of these.  `Moves` is their disjunction; one lemma shows that a step
of `Next` is one, and every part of the invariant is shown for the moves.  `LaneInv` has:
nothing is of a generation to come (`FenceInv`); handled acknowledgements are of their own
generation (`AckInv`); a cancel whose outcome is to come is the only one of its cut and has
none in the log (`CancelInv`); the alert of a failure stands directly behind its cut
(`Caused`), which is how it is told from a late event; what the log of the present generation does *not* have yet, which is what
makes `BargeChain` inductive (`ChainInv`); what a stopped lane is without (`StopInv`, hence
`StoppedIsSilent`); frames that left the queue precede those in it (`OrderInv`); and
`Aligned`, the queue is the end of the metadata, on which `QueuedHasMetadata` rests.
`Aligned` is kept as long as the destination is reached: a drop of the destination clears the
one and not yet the other.

**The events.**  Three invariants, one for each thing that moves.
* *The tail* (`TailInv`).  A terminal transition is never refused because `Places` counts who may
  be before it: whatever handlers and records took, the operations of low classes and the raw
  records leave the place of the one withdrawal, that one leaves three, and at most three
  terminal transitions wait together.  Counting
  is by cardinality of positions (`NumAppend`, `NumTail`, `NumSplits`).  What handlers emit is a
  composition of admissions any of which may fail the evidence and begin the end on the spot; `Grows`
  says what all of them have in common, and `GrowthKeeps` that it keeps the invariant.
* *The log* (`LogInv`).  The alert of a failure is published in the step in which the evidence fails,
  so `failed` is readable off the log; until then the store has nothing that the stream has not.
* *The subscribers* (`SubsInv`).  What one holds is the run of cursors behind the last it got, up
  to the session's cursor while it lives; a subscriber that came late to a closed session is told the
  end though it may have missed it, which is what `late` excepts.

**Commands.**  `LedgerHolds` needs of an execution where it can still go (`Kinds`), that the
incomplete ones are counted as many as they are (`Accounted`, with cardinalities), that a settled
withdrawal has the outcome of its event (`Receipted`), and that the last place is free until the end
(`LastPlace`).

**The queue.**  `IInv` puts the properties of `AsyncQueue` together, for they need each other:
that a close finds waiters only beside an empty buffer is `NoLostWakeup`, and order is kept by
an eviction in the middle because what was delivered comes before what is buffered (`Ordered`).

**The server.**  `Leases` and `Version` count the holders of a version as they are, whatever was
under way when the process stopped: a pending deletion has no holder, and none can come to be.
`Shutdown` follows what is due through the stages: who is not yet in `active` when it is closed is
`opening`, which the shutdown awaits first.

**The delivery of events.**  The page has what it has from messages that a stream sent while the log
was shorter, so `DeliveryInv` follows an event from the log over the wire to the page, for the socket
that the page is on.  `LogOK`: nothing is behind the close, and nothing but the close behind a
withdrawal, so what a page that was told the end may miss is the close alone.  `StreamOK`: what may be
seen between the page's cursor and the place of a running stream is on the wire; `WireOK`: before
each message on the wire is everything that may be seen before it, so the next one is always the
page's next (`FollowsTaken`), and what the page ignores it had or was told to ignore.  `PageOK`:
`seen` is what may be seen from `base` to the cursor, and a page that resyncs has forgotten
it.  The old sockets of a page need no such invariant, since nobody reads them.  Places are counted
as the cardinality of the sockets that hold one (`PlacesOK`), which a dead socket does not.

**The lease.**  For any number of processes, markers and operations, and any depth of claims
(nothing is assumed of the constants).  `UnlinkMarker` removes *whatever is at the path by now*,
so neither property is inductive.  `MarkerInv` says what a process relies on (`Safe`): the marker a
reclaimer looked at belongs to a dead process, and stays dead (a process of the model is one
incarnation; in the code a reused process id only makes a marker look live, which refuses the
reclaim); the claim for it is the reclaimer's own while it lives, so no second process is past
that claim; hence what stands at the path when it unlinks is what it looked at.  `Stays` shows
that a marker another process relies on survives any step on the files, `Bystander` that it
therefore keeps what it relies on.

**The archive.**  For any number of records, faults and crashes.  `ArchiveInv` is checked by TLC
on the run's constants before it is used, and has:

* who runs: one operation holds the lock (`OpInv`), the memory and its appends are those of a
  process that has not been restarted (`MemInv`);
* `PhaseInv`, how far the sidecar on disk may be behind the one in memory at every step of a
  finalization: a crash between two steps leaves what this says, and recovery reads it;
* `NumberInv`: the records of the spool rise, and whatever is entering or queued has a higher number
  than all of them and than the count of the memory.  The manifest counts the records; that it
  counts the ones it means is this and `RisingCounts`;
* `LedgerInv`: what was answered as persisted is in the spool or an archive exists, an archive
  is verified and has every record the finalization was asked for, a phase behind `active` has a
  ready ledger.  `ArchivesAreWhole` follows;
* `DeletionInv`, the fence of a deletion: when the key is gone, what is queued is closed or
  fenced off and what is on its way to the file cleans up behind itself (`landing`), so nothing can
  bring the files back.  `DeletedIsGone` follows;
* `RecoveryInv`: a process that recovered without a fault has nothing open.

`GovernedStep` takes every action to the step of `EvidenceGovernance` it is, or to a stutter:
the verdict changes only where the sidecar's phase or the receipt does.

**The governance.**  For any commands, deadlines, caps, faults and crashes, provided that no command
id is one of the six names by which the model calls the others who act.  An operation
decides on the sidecar it read, writes the sidecar, the journal and the head one after the other, and
answers; each of these may fail or be the last before a crash.  `RetentionInv` was checked by TLC
first, and has:

* `JournalInv`: the head is at most one entry behind, the cap leaves the owner room (the reviews
  are counted as a set of positions, `ReviewCount`), no decision is in the journal twice.  `JournalStep`
  shows that every step, a torn append and a crash in the middle of one included, only `Grows` the
  journal: it stays or gets one entry, and the head goes forward;
* `OpInv`: what the operation that holds the lock may rely on at each of its places.  While the
  archive lives (`Living`), the entry it is to append is the one of its decision (`Entered`),
  and past the head file that entry is vouched for (`Audited`), so what it answers then is true; it knows
  the sidecar as it is, or only its answer is left (`Knows`).  Past the receipt it can only go on to
  erase (`Erasing`);
* `ExtensionInv`: what the journal grants is the deadline of the sidecar already, or is pending
  there.  This is why the sweep, which reads the deadline after it has settled what is pending, keeps
  every granted extension: `ExtendedHolds` alone says nothing of an extension that is audited and
  not yet committed;
* `ExportInv`: plaintext is there only with its registration, which is written before it and goes
  after it; and `AnswerInv`, on which `AnswersAreAudited` rests.

**Playout in the browser.**  For any number of frames, cuts and sockets and any capacities.
That nothing older plays than what the relay was told is cleared is not inductive: the relay
is told by a message that crossed two queues while sockets broke and pages restarted.  Of
`PlayoutInv`, `WorkInv` says that what plays is of the worklet's generation and that the worklet
does not report a clear of a generation it has not reached; `UpInv` that this is so of what is on a
connection that both ends are on, that a page which will find its socket closed has nothing
but that news on its way to the adapter, and that a page which left its connection either said nothing
of clears there or plays nothing; `FreshInv` that a worklet behind what the relay was told is a
new one, and that no older frame is on its way to it.  The steps of the adapter and the relay are
shown to be an `AdapterMove`, and the invariant is shown for that.  The page posts the clears it
owes in the order of their generations; that a set of generations can be so ordered is
`GenerationsAreRanked`, by the least counterexample.

**The events of the participants.**  For any capacity and any number of sockets.  `IngressInv`
says of every side whose last socket is closed that the news of it (`Gone`) is on its way, or the
relay has it and no older news of a beginning (`Joined`) is behind (`EndTold`).  What makes this
inductive is an order: nothing that connects comes behind the news that the same socket is gone
(`InOrder`), neither in the queue nor when one of the two waits beside it.  `OfferIs` says what the
queue does with an event, whatever it evicts; `Carried`, that no news of an end is lost and none
of a beginning is new, is shown of an offer, of a terminal offer (`OfferTerminalKeeps`) and
of each step of a detach, and composes (`CarriedOn`).

**The capture.**  For any number of starts.  `CaptureInv` has, for the start that is the page's audio, that
it is of the page's epoch, ready only while the page captures, and told to the server as active only when ready
(`Truthful`), and for every other start that nothing was told of it before it had a socket and
nothing is active on a lost one (`Silent`).  A start that awaits may find another page when
it goes on; the epoch and `Allowed` are then what keeps `Truthful`.

**The transcript.**  For any items, revisions and bounds.  A line is shown "played" only of the
revision the event named, so `MarkInv` speaks of the revision on the screen; that a play which came
first is not lost needs that it waits, or its text is there, or none of its revision can come any more
(`Awaited`), and that what waits fits because it is kept once (`Injective`, `InjectiveIsShort`).
`Filters!Without`, which takes marks out, is a recursive function; what it returns is
`WithoutIs`, by the least index at which it could fail.

**A native turn.**  For any backlog, limits and number of messages; the limit of the audio queue
is not zero, which its constructor demands.  `NativeInv` says three things.  The queue
(`QueueInv`, `Drained`): a completion comes last and only of a queue that has ended, and a queue that
takes nothing more and holds nothing back has ended.  The end (`EndInv`): a turn that failed or completed
has told the relay of an error or of its completion, or what waits will (`Told`); and a turn that reported
output without a text has told of an error already, which is why its silent close
(`terminal` = none) is no silent end.  The order (`FrameInv`): what waits, in the hand of the relay, the
queue and the holdback, is ordered by revision (`Ordered`), lies between what the relay heard last
and the last revision of the turn, and the text of every whole frame is before it (`Shown`).  That the
trimming of the oldest audio leaves this alone is `DropTaking`, by the least index of an audio event;
that a frame in the relay's hand has its text behind it is `HandIsShown`.  Between the parts of one
message the last text may be on its way into the queue, so the lemmas speak of `Taking`, the
invariant without its arrival, and each closure of `translate` has one of its own.  `FramesFollow` needs
beside the invariant that a relay which has stopped the turn takes no more of it (`StoppedReader`).

**A Palabra lane.**  For any ids, lanes, turns and size of the memory; of that size only that it is a
natural number (`RetiredAssumption`).  A step of the lane is a composition of the adapter's operations,
so the invariant `PalabraInv(s, x)` is of the record of a state, each operation is shown to keep it
(`EndTurnStays`, `AnswerStays`, `DropStays`, `CloseLaneStays` and so on), and an action is a chain of
them.  Only the last turn uses ids (`LastSpeaks`): a turn that was aborted and waits for its
connection never had input, so the provider's events are not let in.  Between the abort of a turn and
its end, inside one step, this does not hold of that turn, which `x` names.  What a lane remembers is
distinct, bounded (`Memory`) and used by no turn that goes on (`KeptOut`), and is in the order
of the turns (`InOrder`): behind an id of a past turn come only ids of that turn and of later ones.
So when the oldest ids are dropped, as many as the lane remembers and one more have been used
since (`Forgets`, `Many`), and this remains when a later turn uses the id again (`Reuse`), which is
the property (`ManyCount`).  `Retired` says of `#retireTurnIds` that it keeps the end of what
was known followed by what was not; `CalmStays` and `MildStays` that a step which neither ends a
turn nor uses an id keeps all of this.

Four places were wrong, and the proofs found them where the runs had not:
`ServerSessions!Restart` could not be taken with a deletion pending; a recovery of
`EvidenceArchive` that appends its terminal lines did not count from what it had read; and a crash
during a rebuild had only one of the two writes that may then be in flight.  These were in the
models, not in the code.  `LateIdsStayOut` promised what a lane of bounded memory cannot keep, and the
run had a memory too large to show it; now the property names the bound and the run has a memory
that overflows.  The runs have been repeated.

Only model-checked: liveness, which is out of the prover's reach (`EndSettles`,
`CommandsSettle`, `WaitEnds`, `Answered`, `AbortAnswers`, `DueIsErased`, `ClearSettles`,
`MicrophoneGoesOff`, `ClosedReturns`, `CloseIsShown`, `TurnsEnd`).  Every safety property
of the passing runs is proved.

## 6. Not modelled, and the plan

`PROJECT.json` lists every component with the reason.  In short: offline tools
(export, review, benchmark, local evaluation, scripts) are sequential programs over
files; fixtures (fake telephony, the in-memory store, the deterministic pipelines) stand in
for parts that are modelled; configuration is validated once at start; the helpers for
audio compute over samples.  Of the modelled parts the README says above what is left out;
details that no property tells apart are

* `BrowserCapture`: a stop makes the page not ready, where the code leaves `captureReady` and tests
  the capture beside it (`web/app.js:2892-2968`);
* `OperatorTranscript`: text that arrives validated already (`web/app.js:923`);
* `NativeTranslation`: a text of white space only is taken for a text (`557`, `583`), and
  the error of audio with an odd number of bytes (`751-758`) is left out;
* `PalabraLane`: `Prepare` comes before the first turn, where the relay prepares again at a
  resume; a turn begins when the one before it is over or aborted, where the adapter would
  cancel one that goes on (`index.ts:288-289`); and a connection that cannot be made
  closes the lane also if its factory throws (`index.ts:399-406`).

Cryptography, validation of input, file permissions and formats are left out everywhere.

Next, in this order:

1. The controlled pipeline (`glossary-controlled.ts`) with its requests in sequence, and
   prewarmed sockets of the OpenAI adapters.
2. The transcript revisions of a lane in the relay, and join tickets of the server.
3. The benchmark's operation budget and healing.

## 7. Running it

    tlc -workers 2 -config Session.cfg MCRelaySession.tla
    tlc -workers 2 -config Evidence.cfg MCEvidence.tla
    tlapm RelaySessionProofs.tla
    tlapm RelayLaneProofs.tla
    tlapm RelayFlowProofs.tla
    tlapm ServerProofs.tla
    tlapm EvidenceProofs.tla
    tlapm EvidenceArchiveProofs.tla
    tlapm BrowserProofs.tla
    tlapm ProviderProofs.tla

Every run takes one to three minutes with two workers, a violated one seconds; the longest
proofs, of the archive and of the browser, take four to six minutes, and of the provider adapters
fifteen.
