----------------------------- MODULE PalabraLane -----------------------------
(***************************************************************************)
(* One lane of the Palabra adapter (src/adapters/palabra/index.ts): a      *)
(* socket that outlives the turns, the preparation of its remote task,     *)
(* turns that are translated, cut, timed out or failed, and the provider   *)
(* ids by which late events of a turn are told from those of the next.     *)
(* What a turn queues is taken by the relay before another task runs, so   *)
(* its queue is left out; of the provider's events only the id and what    *)
(* they do to the completion are kept.                                     *)
(***************************************************************************)
EXTENDS Naturals, Sequences, FiniteSets, SequencesExt

CONSTANTS Ids,         \* provider ids, of every connection
          MaxTurnIds,  \* ids that a turn may use
          MaxRetired,  \* retired ids that a lane remembers
          MaxLanes,    \* lane objects when a turn or a preparation is asked for
          MaxTurns     \* turns of a behaviour

RetiredAssumption == MaxRetired \in Nat

VARIABLES
  lanes,   \* the lane objects, the discarded ones included
  at,      \* the one in #lanes, 0 when there is none
  turns,   \* the turns so far
  call,    \* the lane object whose preparation a prepare of the relay awaits, or 0
  strays,  \* lane objects with a readiness waiter that nobody awaits
  orphan,  \* such a waiter was rejected
  over     \* the session is closed

vars == <<lanes, at, turns, call, strays, orphan, over>>

Fresh == [socket |-> "none", closed |-> FALSE, prepared |-> FALSE, prep |-> "none",
          turn |-> 0, retired |-> <<>>, closing |-> FALSE]

Init == /\ lanes = <<>> /\ at = 0 /\ turns = <<>> /\ call = 0 /\ strays = {}
        /\ orphan = FALSE /\ over = FALSE

S == [lanes |-> lanes, at |-> at, turns |-> turns, call |-> call, strays |-> strays,
      orphan |-> orphan, over |-> over]
Becomes(s) ==
  /\ lanes' = s.lanes /\ at' = s.at /\ turns' = s.turns
  /\ call' = s.call /\ strays' = s.strays /\ orphan' = s.orphan /\ over' = s.over

Live(s, i) == s.lanes[i].turn # 0 /\ s.turns[s.lanes[i].turn].life = "active"
Removed(s, i) == [s EXCEPT !.at = IF @ = i THEN 0 ELSE @]

-----------------------------------------------------------------------------
\* #retireTurnIds: the oldest ids are forgotten.
Retire(known, ids) ==
  LET all == known \o SetToSeq(ids \ ToSet(known))
  IN SubSeq(all, 1 + (IF Len(all) > MaxRetired THEN Len(all) - MaxRetired ELSE 0), Len(all))

\* Mutant of EndTurn: only a turn that is cut leaves its ids behind.
EndTurnRetiresCut(s, t, life) ==
  LET i == s.turns[t].lane
  IN [s EXCEPT !.turns[t].life = life, !.turns[t].heard = {},
               !.lanes[i].turn = IF @ = t THEN 0 ELSE @,
               !.lanes[i].retired = IF life = "cancelled" THEN Retire(@, s.turns[t].ids) ELSE @]

\* A turn leaves its active life; its generator ends and #cleanupTurn runs.
EndTurn(s, t, life) ==
  LET i == s.turns[t].lane
  IN [s EXCEPT !.turns[t].life = life, !.turns[t].heard = {},
               !.lanes[i].turn = IF @ = t THEN 0 ELSE @,
               !.lanes[i].retired = Retire(@, s.turns[t].ids)]

FailTurn(s, t) == IF s.turns[t].life = "active" THEN EndTurn(s, t, "failed") ELSE s

\* The callers of a preparation are answered: the turns that wait for it go on or
\* yield an error.
Answer(s, i, ok) ==
  [s EXCEPT !.call = IF @ = i THEN 0 ELSE @,
            !.lanes[i].prep = "none", !.lanes[i].prepared = ok,
            !.turns = [t \in DOMAIN @ |->
              IF @[t].life = "preparing" /\ @[t].lane = i
              THEN [@[t] EXCEPT !.life = IF ok THEN "prepared" ELSE "failed"] ELSE @[t]]]

\* #failLane: the turn fails and the pending readiness waiters are rejected.
FailLane(s, i) ==
  LET failed == IF s.lanes[i].turn = 0 THEN s ELSE FailTurn(s, s.lanes[i].turn)
      heard == IF s.lanes[i].prep = "asking" THEN Answer(failed, i, FALSE) ELSE failed
  IN [heard EXCEPT !.orphan = @ \/ i \in s.strays, !.strays = @ \ {i}]

\* The lane is given up with its connection.
Drop(s, i) ==
  Removed(FailLane([s EXCEPT !.lanes[i].closed = TRUE, !.lanes[i].prepared = FALSE,
                             !.lanes[i].socket = "closed"], i), i)

\* #closeLane: when the wait for the provider is over, or at once.
CloseNow(s, i) ==
  Removed([s EXCEPT !.lanes[i].closed = TRUE, !.lanes[i].prepared = FALSE,
                    !.lanes[i].socket = "closed", !.lanes[i].closing = FALSE], i)
CloseLane(s, i, graceful) ==
  LET ended == IF Live(s, i) THEN EndTurn(s, s.lanes[i].turn, "cancelled") ELSE s
  IN IF s.lanes[i].closing THEN s
     ELSE IF graceful /\ s.lanes[i].socket # "none"
     THEN [ended EXCEPT !.lanes[i].closing = TRUE]
     ELSE CloseNow(ended, i)

Usable(l) == l.socket = "open" /\ ~l.closed

\* #cancelTurn: flush_task tells the provider to forget the turn.  The lane of a
\* turn that cannot be flushed is closed.
CancelTurn(s, t, sent) ==
  LET i == s.turns[t].lane
  IN IF s.turns[t].life # "active" THEN s
     ELSE IF sent /\ Usable(s.lanes[i]) THEN EndTurn(s, t, "cancelled")
     ELSE CloseLane(EndTurn([s EXCEPT !.lanes[i].prepared = FALSE], t, "cancelled"), i, FALSE)

-----------------------------------------------------------------------------
(* Preparation.                                                             *)

\* #lane: the lane in use, or a new one when it was closed.
Known(s) == s.at # 0 /\ ~s.lanes[s.at].closed
WithLane(s) ==
  IF Known(s) THEN s
  ELSE [s EXCEPT !.lanes = Append(@, Fresh), !.at = Len(s.lanes) + 1]

\* set_task and the first get_task, or the connection first.
Begin(s, i) ==
  IF s.lanes[i].prep # "none" THEN s
  ELSE IF Usable(s.lanes[i]) THEN [s EXCEPT !.lanes[i].prepared = FALSE, !.lanes[i].prep = "set"]
  ELSE [s EXCEPT !.lanes[i].prep = "connecting", !.lanes[i].socket = "connecting"]

Room == Known(S) \/ Len(lanes) < MaxLanes

\* The relay prepares a lane before its first turn.
Prepare ==
  /\ call = 0 /\ Room /\ turns = <<>> /\ ~over
  /\ LET s == WithLane(S)
     IN /\ ~s.lanes[s.at].prepared
        /\ Becomes(Begin([s EXCEPT !.call = s.at], s.at))

SocketOpens(i) ==
  /\ lanes[i].prep = "connecting" /\ lanes[i].socket = "connecting"
  /\ ~lanes[i].closing
  /\ Becomes([S EXCEPT !.lanes[i].socket = "open", !.lanes[i].prep = "set"])

\* The connection fails or takes too long.  A socket that closeLane closed is not
\* current any more, so that only the timer ends the wait.
ConnectFails(i) ==
  /\ lanes[i].prep = "connecting"
  /\ Becomes(Answer([S EXCEPT !.lanes[i].closed = TRUE, !.lanes[i].socket = "closed"], i, FALSE))

\* #waitReady makes a waiter and then sends get_task, the first time right after
\* set_task.  When it cannot be sent, the preparation fails and the waiter is left
\* to nobody.
AskTask(i) ==
  /\ lanes[i].prep \in {"set", "polling"}
  /\ \E failing \in {"none", "set", "get"} :
       /\ failing = "set" => lanes[i].prep = "set"
       /\ LET waits == [S EXCEPT !.strays = @ \cup {i}]
          IN Becomes(
               CASE ~Usable(lanes[i]) -> Answer(IF lanes[i].prep = "set" THEN S ELSE waits, i, FALSE)
                 [] failing = "set"   -> Answer(Drop(S, i), i, FALSE)
                 [] failing = "get"   -> Answer(Drop(waits, i), i, FALSE)
                 [] OTHER             -> [S EXCEPT !.lanes[i].prep = "asking"])

Hears(i) == lanes[i].socket = "open" /\ ~lanes[i].closed /\ ~lanes[i].closing

\* current_task: the task runs, or does not yet.
CurrentTask(i) ==
  /\ Hears(i) /\ lanes[i].prep = "asking"
  /\ \E running \in BOOLEAN :
       Becomes(IF running THEN Answer(S, i, TRUE) ELSE [S EXCEPT !.lanes[i].prep = "polling"])

\* The provider reports an error while a task is prepared.
PrepareError(i) ==
  /\ Hears(i) /\ lanes[i].prep \in {"asking", "polling"}
  /\ Becomes(Answer(S, i, FALSE))

\* Mutant of ReadinessTimeout: every poll has a deadline of its own.
ReadinessRestarts(i) ==
  /\ lanes[i].prep = "asking"
  /\ Becomes(Answer(S, i, FALSE))

\* The waiter's timer, and the deadline of the polls, which is the same.
ReadinessTimeout(i) ==
  /\ lanes[i].prep \in {"asking", "polling"}
  /\ Becomes(Answer(S, i, FALSE))

\* The timer of a waiter that nobody awaits.
StrayTimeout(i) ==
  /\ i \in strays
  /\ strays' = strays \ {i} /\ orphan' = TRUE
  /\ UNCHANGED <<lanes, at, turns, call, over>>

-----------------------------------------------------------------------------
(* Turns.                                                                   *)

Over(t) == turns[t].life \notin {"preparing", "prepared", "active"}

\* The relay has aborted the turn before.  translate cancels a turn that is active
\* all the same; if the provider cannot be told, the new turn fails.
Translate ==
  /\ Len(turns) < MaxTurns /\ Room /\ ~over
  /\ \A t \in DOMAIN turns : Over(t) \/ turns[t].aborted
  /\ \E sent \in BOOLEAN :
       LET s == WithLane(S)
           cut == IF s.lanes[s.at].turn # 0 THEN CancelTurn(s, s.lanes[s.at].turn, sent) ELSE s
           new == [lane |-> s.at, life |-> "preparing", aborted |-> FALSE, ids |-> {}, heard |-> {}]
           begun == [cut EXCEPT !.turns = Append(@, new)]
           t == Len(begun.turns)
       IN Becomes(
            IF cut.at # s.at THEN [begun EXCEPT !.turns[t].life = "failed"]
            ELSE IF begun.lanes[s.at].prepared THEN [begun EXCEPT !.turns[t].life = "prepared"]
            ELSE Begin(begun, s.at))

\* #newTurn.  The lane may have been given up meanwhile.
StartTurn(t) ==
  /\ turns[t].life = "prepared"
  /\ LET s == WithLane(S)
     IN Becomes([s EXCEPT !.turns[t].life = "active", !.turns[t].lane = s.at,
                          !.lanes[s.at].turn = t])

\* The abort of a turn that waits for its preparation abandons the lane and rejects
\* its readiness waiter; a connection or a pause between two polls goes on.  An abort
\* that comes between the preparation and #newTurn is heard by nobody.
AbandonPreparation(s, i) ==
  LET closed == CloseLane(s, i, FALSE)
  IN IF s.at # i THEN s ELSE IF s.lanes[i].prep = "asking" THEN Answer(closed, i, FALSE) ELSE closed

Abort(t) ==
  /\ ~turns[t].aborted /\ turns[t].life \in {"preparing", "prepared", "active"}
  /\ \E sent \in BOOLEAN :
       LET s == [S EXCEPT !.turns[t].aborted = TRUE]
           i == turns[t].lane
       IN Becomes(
            CASE turns[t].life = "active"   -> CancelTurn(s, t, sent)
              [] turns[t].life = "prepared" -> s
              [] OTHER -> AbandonPreparation([s EXCEPT !.turns[t].life = "cancelled"], i))

Cancel ==
  /\ at # 0 /\ Live(S, at)
  /\ \E sent \in BOOLEAN : Becomes(CancelTurn(S, lanes[at].turn, sent))

\* #sendInput opens the turn to events; what cannot be sent costs the lane.
TakesInput(t) == turns[t].life = "active" /\ ~turns[t].aborted /\ "finished" \notin turns[t].heard
SendInput(t) ==
  /\ TakesInput(t)
  /\ \E sent \in BOOLEAN :
       LET i == turns[t].lane
           opened == [S EXCEPT !.turns[t].heard = @ \cup {"open"}]
       IN Becomes(IF lanes[i].turn # t \/ ~Usable(lanes[i]) THEN S
                  ELSE IF sent THEN opened ELSE Drop(opened, i))

\* The last chunk is padded and sent, or lost with its lane as above.
InputEnds(t) ==
  /\ TakesInput(t)
  /\ Becomes([S EXCEPT !.turns[t].heard = @ \cup {"open", "finished"}])

\* A translated transcript or its audio, perhaps the final transcript or the last
\* audio.
ProviderEvent(i) ==
  /\ Hears(i) /\ Live(S, i)
  /\ LET t == lanes[i].turn IN
     /\ "open" \in turns[t].heard
     /\ \E id \in Ids, final \in {{}, {"target"}, {"audio"}} :
          /\ id \notin ToSet(lanes[i].retired)   \* a tombstone
          /\ Becomes(
               IF id \notin turns[t].ids /\ Cardinality(turns[t].ids) >= MaxTurnIds
               THEN Drop(S, i)
               ELSE [S EXCEPT !.turns[t].ids = @ \cup {id}, !.turns[t].heard = @ \cup final])

\* #maybeComplete and, when the settle timer fires, #completeTurn
CompleteTurn(t) ==
  /\ turns[t].life = "active" /\ {"finished", "target", "audio"} \subseteq turns[t].heard
  /\ Becomes(EndTurn(S, t, "completed"))

\* The hard timer of the turn, or an error that the provider reports.
TurnFails(t) ==
  /\ turns[t].life = "active"
  /\ Becomes(FailTurn(S, t))

\* The connection ends, or brings what cannot be read.
ConnectionLost(i) ==
  /\ Hears(i)
  /\ Becomes(Drop(S, i))

CloseSession ==
  /\ at # 0 /\ ~over
  /\ Becomes(CloseLane([S EXCEPT !.over = TRUE], at, TRUE))

CloseEnds(i) ==
  /\ lanes[i].closing
  /\ Becomes(CloseNow(S, i))

LaneNext(i) ==
  \/ SocketOpens(i) \/ ConnectFails(i) \/ AskTask(i) \/ CurrentTask(i) \/ PrepareError(i)
  \/ ReadinessTimeout(i) \/ StrayTimeout(i) \/ ProviderEvent(i) \/ ConnectionLost(i) \/ CloseEnds(i)
TurnNext(t) ==
  StartTurn(t) \/ Abort(t) \/ SendInput(t) \/ InputEnds(t) \/ CompleteTurn(t) \/ TurnFails(t)

Next ==
  \/ Prepare \/ Translate \/ Cancel \/ CloseSession
  \/ \E i \in DOMAIN lanes : LaneNext(i)
  \/ \E t \in DOMAIN turns : TurnNext(t)

\* Timers fire and the adapter's own tasks go on.
TimersFire ==
  \/ \E i \in DOMAIN lanes : ConnectFails(i) \/ ReadinessTimeout(i) \/ CloseEnds(i)
  \/ \E t \in DOMAIN turns : TurnFails(t)
TasksGoOn ==
  \/ \E i \in DOMAIN lanes : AskTask(i)
  \/ \E t \in DOMAIN turns : StartTurn(t)

Fairness == WF_vars(TimersFire) /\ WF_vars(TasksGoOn)

Spec == Init /\ [][Next]_vars /\ Fairness
-----------------------------------------------------------------------------
\* The ids that the turns of a lane used from one turn on and before another.
Since(t, u) == UNION {turns[v].ids : v \in {w \in t..(u - 1) : turns[w].lane = turns[t].lane}}

\* A provider id belongs to one turn of a connection as long as the lane remembers
\* what was used since: what arrives late for a turn that was cut, failed or
\* completed is not taken for the speech of the next.
LateIdsStayOut ==
  \A t, u \in DOMAIN turns :
    t < u /\ turns[t].lane = turns[u].lane /\ Cardinality(Since(t, u)) <= MaxRetired
      => turns[t].ids \cap turns[u].ids = {}

\* Whatever happens to the lane, every turn is brought to an end and every
\* preparation that the relay awaits is answered.
TurnsEnd ==
  LET Awaited == call # 0 \/ \E t \in DOMAIN turns : ~Over(t)
  IN Awaited ~> ~Awaited

\* One lane's connection may fail without harm to the others
\* (tests/palabra-adapter.test.ts:1225).  A rejection that nobody handles ends the
\* process and every session in it.
FailureStaysInLane == ~orphan
=============================================================================
