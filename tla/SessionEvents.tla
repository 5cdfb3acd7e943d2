---------------------------- MODULE SessionEvents ----------------------------
(***************************************************************************)
(* The events of one session of the relay (src/core/relay.ts): admission   *)
(* of evidence operations by class, the cursor-ordered tail on which an    *)
(* event is persisted before it is published, raw records beside it, the   *)
(* failure of the evidence with its alert that jumps the tail, the bounded *)
(* history, the subscribers with their bounded queues, and the end.        *)
(*                                                                         *)
(* RelaySession says what the events do to the session; here an event is   *)
(* its kind and its cursor.  Timers race with what they bound.             *)
(***************************************************************************)
EXTENDS Sequences, SequencesExt, Integers

CONSTANTS
  Subscriber,
  HistoryLimit,  \* eventHistoryLimit, also the capacity of a subscriber
  NormalLimit    \* MAX_NORMAL_EVIDENCE_OPERATIONS

ASSUME EventsAssumption == HistoryLimit \in Nat \ {0} /\ NormalLimit \in Nat \ {0}

PriorityLimit == NormalLimit + 2
WithdrawalLimit == PriorityLimit + 1
TerminalLimit == WithdrawalLimit + 3

Kind == {"event", "control", "cut", "receipt", "closing", "end_cut", "closed", "session_closed"}

LimitOf(kind) ==
  CASE kind = "event" -> NormalLimit
    [] kind \in {"control", "cut", "session_closed"} -> PriorityLimit
    [] kind = "receipt" -> WithdrawalLimit
    [] kind \in {"closing", "end_cut", "closed"} -> TerminalLimit

VARIABLES
  tail,      \* evidenceOperationTail: the events not settled, the first in flight
  inflight,  \* cursor of the event that is being persisted, or 0
  records,   \* evidenceRecordTail: number of raw records not settled
  failed,    \* evidenceFailureStarted
  refused,   \* kinds of events that were refused for want of a slot
  cursor,    \* runtime.cursor
  published, \* every published event; the history is its end
  durable,   \* the events in the evidence store
  closed,    \* runtime.status = "closed"
  withdrawn, \* whether runtime.withdrawalReservation was set, and before the end
  end,       \* the await at which finishEnd is
  sealed,    \* the store sealed the session
  subs       \* the subscribers

evidence == <<tail, inflight, records, failed, refused, durable>>
stream == <<cursor, published, subs>>
ending == <<closed, withdrawn, end, sealed>>
vars == <<evidence, stream, ending>>

EndStage == {"none", "closing", "closed", "drain", "finalizing", "announce", "done"}
Event == [kind : Kind \cup {"failure"}, cursor : Nat]
SubState == {"off", "live", "draining", "overflow", "error", "gap", "done"}
Sub == [state : SubState, queue : Seq(Nat), last : Nat, got : Nat, waiting : BOOLEAN, late : BOOLEAN]

TypeOK ==
  /\ tail \in Seq(Kind) /\ records \in Nat /\ Len(tail) + records <= TerminalLimit
  /\ inflight \in Nat /\ cursor \in Nat
  /\ failed \in BOOLEAN /\ closed \in BOOLEAN /\ withdrawn \in {"no", "first", "late"} /\ sealed \in BOOLEAN
  /\ refused \in SUBSET Kind
  /\ published \in Seq(Event) /\ durable \in Seq(Event)
  /\ end \in EndStage
  /\ subs \in [Subscriber -> Sub]
  /\ \A s \in Subscriber : Len(subs[s].queue) <= HistoryLimit

Init ==
  /\ tail = <<>> /\ inflight = 0 /\ records = 0 /\ failed = FALSE /\ refused = {}
  /\ cursor = 0 /\ published = <<>> /\ durable = <<>>
  /\ closed = FALSE /\ withdrawn = "no" /\ end = "none" /\ sealed = FALSE
  /\ subs = [s \in Subscriber |->
       [state |-> "off", queue |-> <<>>, last |-> 0, got |-> 0, waiting |-> FALSE, late |-> FALSE]]

-----------------------------------------------------------------------------
(***************************************************************************)
(* Publication.                                                            *)
(***************************************************************************)

\* The subscriber gets event c.
Given(sub, c) == [sub EXCEPT !.last = c, !.got = @ + 1]

\* A waiting subscriber gets the event at once; one with a full queue loses the
\* queue and is told so.
Offered(sub, c) ==
  IF sub.state # "live" THEN sub
  ELSE IF sub.waiting THEN [Given(sub, c) EXCEPT !.waiting = FALSE]
  ELSE IF Len(sub.queue) < HistoryLimit THEN [sub EXCEPT !.queue = Append(@, c)]
  ELSE [sub EXCEPT !.state = "overflow", !.queue = <<>>]

OfferedAll(c) == [s \in Subscriber |-> Offered(subs[s], c)]

Publish(kind, c) ==
  /\ cursor' = c
  /\ published' = Append(published, [kind |-> kind, cursor |-> c])
  /\ subs' = OfferedAll(c)

History ==
  SubSeq(published,
         IF Len(published) > HistoryLimit THEN Len(published) - HistoryLimit + 1 ELSE 1,
         Len(published))

\* Mutant of Closed: a waiter is not settled.
ClosedOnly(sub) == IF sub.state = "live" THEN [sub EXCEPT !.state = "draining"] ELSE sub

\* The queue of a subscriber is closed: it is told after what it holds.
Closed(sub) ==
  IF sub.state # "live" THEN sub
  ELSE IF sub.waiting THEN [sub EXCEPT !.waiting = FALSE, !.state = "done"]
  ELSE [sub EXCEPT !.state = "draining"]

-----------------------------------------------------------------------------
(***************************************************************************)
(* Admission.  A handler emits its events one after the other, without an  *)
(* await between them; it may be refused in the middle, which fails the    *)
(* evidence and begins the end there.  What it has done so far is a record.*)
(***************************************************************************)
Now == [tail |-> tail, failed |-> failed, refused |-> refused, end |-> end]

Fits(q, kind) == Len(q.tail) + records < LimitOf(kind)

Admit(q, kind) ==
  IF Fits(q, kind) THEN [q EXCEPT !.tail = Append(@, kind)]
  ELSE [q EXCEPT !.refused = @ \cup {kind}, !.failed = TRUE]

\* #end up to the first await of finishEnd: closing, unless the evidence failed,
\* which closes without an event, and the cut of both lanes.
BeginEnd(q) ==
  IF q.end # "none" THEN q
  ELSE LET r == [q EXCEPT !.end = "closing"]
           c == IF r.failed THEN r ELSE Admit(r, "closing")
       IN Admit(Admit(c, "end_cut"), "end_cut")

\* #emit, with #failEvidence when it is refused.
Emit(q, kind) == LET r == Admit(q, kind) IN IF r.failed THEN BeginEnd(r) ELSE r

Fail(q) == BeginEnd([q EXCEPT !.failed = TRUE])

\* The state after q, but for the records, the store and the subscribers: a
\* failure that just happened publishes its alert before anything else.
Become(q) ==
  /\ tail' = q.tail /\ failed' = q.failed /\ refused' = q.refused /\ end' = q.end
  /\ IF q.failed /\ ~failed
     THEN Publish("failure", cursor + 1)
     ELSE UNCHANGED stream

\* The session is closing or closed, as far as commands can see.
Terminating == failed \/ \E i \in DOMAIN published : published[i].kind = "closing"

\* What handlers emit: anything, a pause, a barge-in, and a resume, which may
\* come after an end was begun.
Emissions ==
  {Emit(Now, "event")}
  \cup (IF end # "none" THEN {}
        ELSE {Emit(Emit(Emit(Now, "control"), "cut"), "cut"),
              Emit(Emit(Emit(Emit(Now, "event"), "cut"), "event"), "event")})
  \cup (IF Terminating THEN {} ELSE {Emit(Emit(Emit(Now, "cut"), "cut"), "control")})

Handle ==
  /\ \E q \in Emissions : Become(q)
  /\ UNCHANGED <<inflight, records, durable, closed, withdrawn, sealed>>

End ==
  /\ end = "none"
  /\ Become(BeginEnd(Now))
  /\ UNCHANGED <<inflight, records, durable, closed, withdrawn, sealed>>

\* The receipt of a withdrawal, which may come after an end was begun.
Withdraw ==
  /\ withdrawn = "no" /\ ~Terminating
  /\ withdrawn' = IF end = "none" THEN "first" ELSE "late"
  /\ Become(BeginEnd(Emit(Now, "receipt")))
  /\ UNCHANGED <<inflight, records, durable, closed, sealed>>

\* A raw record: persistEvidence.
Record ==
  /\ ~failed
  /\ IF Fits(Now, "event")
     THEN records' = records + 1 /\ UNCHANGED <<tail, failed, refused, end, stream>>
     ELSE UNCHANGED records /\ Become(Fail([Now EXCEPT !.refused = @ \cup {"event"}]))
  /\ UNCHANGED <<inflight, durable, closed, withdrawn, sealed>>

-----------------------------------------------------------------------------
(***************************************************************************)
(* The tail.                                                               *)
(***************************************************************************)

\* Mutant of Begin: the event is published while the store may yet refuse it.
BeginEarly ==
  /\ tail # <<>> /\ inflight = 0
  /\ tail' = Tail(tail)
  /\ IF failed THEN UNCHANGED stream ELSE Publish(Head(tail), cursor + 1)
  /\ UNCHANGED <<inflight, records, failed, refused, durable, ending>>

\* The operation at the head begins.  After a failure it settles at once; the
\* end of the session is published without being persisted.
Begin ==
  /\ tail # <<>> /\ inflight = 0
  /\ IF Head(tail) = "session_closed"
     THEN tail' = Tail(tail) /\ Publish("session_closed", cursor + 1) /\ UNCHANGED inflight
     ELSE IF failed
     THEN tail' = Tail(tail) /\ UNCHANGED <<inflight, stream>>
     ELSE inflight' = cursor + 1 /\ UNCHANGED <<tail, stream>>
  /\ UNCHANGED <<records, failed, refused, durable, ending>>

\* The store has the event.  It is published unless the evidence failed
\* meanwhile; the store refuses what comes after its seal.
Persisted ==
  /\ inflight # 0
  /\ ~sealed
  /\ durable' = Append(durable, [kind |-> Head(tail), cursor |-> inflight])
  /\ inflight' = 0 /\ tail' = Tail(tail)
  /\ IF failed THEN UNCHANGED <<stream, closed>>
     ELSE Publish(Head(tail), inflight) /\ closed' = (closed \/ Head(tail) = "closed")
  /\ UNCHANGED <<records, failed, refused, withdrawn, end, sealed>>

\* The failure is handled while the operation still counts.
PersistFails ==
  /\ inflight # 0
  /\ LET q == Fail(Now) IN Become([q EXCEPT !.tail = Tail(@)])
  /\ inflight' = 0
  /\ UNCHANGED <<records, durable, closed, withdrawn, sealed>>

RecordSettles ==
  /\ records > 0
  /\ records' = records - 1
  /\ \/ UNCHANGED <<tail, failed, refused, end, stream>>
     \/ LET q == Fail(Now) IN Become(q)
  /\ UNCHANGED <<inflight, durable, closed, withdrawn, sealed>>

\* An operation is not settled in time.
TimesOut ==
  /\ ~failed
  /\ tail # <<>> \/ records > 0
  /\ Become(Fail(Now))
  /\ UNCHANGED <<inflight, records, durable, closed, withdrawn, sealed>>

-----------------------------------------------------------------------------
(***************************************************************************)
(* finishEnd after its adapters were closed.                               *)
(***************************************************************************)
Settled(kind) == failed \/ ~Contains(tail, kind)

EndClosing ==
  /\ end = "closing" /\ Settled("closing")
  /\ IF failed
     THEN /\ closed' = TRUE /\ end' = "drain"
          /\ UNCHANGED <<tail, failed, refused, stream>>
     ELSE /\ Become([Admit(Now, "closed") EXCEPT !.end = "closed"])
          /\ UNCHANGED closed
  /\ UNCHANGED <<inflight, records, durable, withdrawn, sealed>>

EndClosed ==
  /\ end = "closed" /\ Settled("closed")
  /\ closed' = (closed \/ failed) /\ end' = "drain"
  /\ UNCHANGED <<evidence, stream, withdrawn, sealed>>

\* Both tails settled, or the bound on that passed.
EndDrained ==
  /\ end = "drain"
  /\ IF tail = <<>> /\ records = 0
     THEN end' = "finalizing" /\ UNCHANGED <<tail, failed, refused, stream>>
     ELSE Become([Now EXCEPT !.failed = TRUE, !.end = "finalizing"])
  /\ UNCHANGED <<inflight, records, durable, closed, withdrawn, sealed>>

\* The store seals or not.  The last event is queued, or published at once
\* when the evidence failed, and then every subscriber is closed.
Finalize ==
  /\ end = "finalizing"
  /\ sealed' \in BOOLEAN
  /\ IF failed
     THEN /\ end' = "done" /\ cursor' = cursor + 1
          /\ published' = Append(published, [kind |-> "session_closed", cursor |-> cursor + 1])
          /\ subs' = [s \in Subscriber |-> Closed(Offered(subs[s], cursor + 1))]
          /\ UNCHANGED <<tail, failed, refused>>
     ELSE Become([Admit(Now, "session_closed") EXCEPT !.end = "announce"])
  /\ UNCHANGED <<inflight, records, durable, closed, withdrawn>>

EndAnnounced ==
  /\ end = "announce" /\ Settled("session_closed")
  /\ end' = "done"
  /\ subs' = [s \in Subscriber |-> Closed(subs[s])]
  /\ UNCHANGED <<evidence, cursor, published, closed, withdrawn, sealed>>

EndNext == End \/ Withdraw \/ EndClosing \/ EndClosed \/ EndDrained \/ Finalize \/ EndAnnounced

-----------------------------------------------------------------------------
(***************************************************************************)
(* Subscribers.  One that was cut off comes back with the last cursor it   *)
(* got (web/app.js).                                                       *)
(***************************************************************************)
Others == UNCHANGED <<evidence, cursor, published, ending>>

\* The cursors of the retained events behind a cursor; the history is in order.
Behind(c) ==
  LET first == CHOOSE i \in 1 .. Len(History) + 1 :
                 \A j \in DOMAIN History : j >= i <=> History[j].cursor > c
  IN [i \in 1 .. Len(History) + 1 - first |-> History[first + i - 1].cursor]

\* Mutant of Subscribe: the event of the cursor is replayed.
SubscribeAgain(s) ==
  /\ subs[s].state \in {"off", "error"}
  /\ subs' = [subs EXCEPT ![s].state = "live", ![s].queue = Behind(subs[s].last - 1)]
  /\ Others

\* events() and the first next(): refused behind a gap, else the retained
\* events after the cursor, and those to come unless the session is closed.
Subscribe(s) ==
  /\ subs[s].state \in {"off", "error"}
  /\ subs' = [subs EXCEPT ![s] =
       IF History # <<>> /\ subs[s].last < Head(History).cursor - 1
       THEN [subs[s] EXCEPT !.state = "gap"]
       ELSE [subs[s] EXCEPT !.state = IF closed THEN "draining" ELSE "live",
                            !.queue = Behind(subs[s].last),
                            !.late = closed]]
  /\ Others

\* next() of the stream.
NextEvent(s) ==
  /\ subs[s].state \in {"live", "draining", "overflow"} /\ ~subs[s].waiting
  /\ LET sub == subs[s] IN
       subs' = [subs EXCEPT ![s] =
         CASE sub.queue # <<>> -> [Given(sub, Head(sub.queue)) EXCEPT !.queue = Tail(@)]
           [] sub.state = "overflow" -> [sub EXCEPT !.state = "error"]
           [] sub.queue = <<>> /\ sub.state = "draining" -> [sub EXCEPT !.state = "done"]
           [] sub.queue = <<>> /\ sub.state = "live" -> [sub EXCEPT !.waiting = TRUE]]
  /\ Others

\* The socket behind the stream closes, or its signal is aborted.
Unsubscribe(s) ==
  /\ subs[s].state \in {"live", "draining", "overflow"}
  /\ subs' = [subs EXCEPT ![s] = [@ EXCEPT !.state = "off", !.queue = <<>>, !.waiting = FALSE]]
  /\ Others

SubscriberNext == \E s \in Subscriber : Subscribe(s) \/ NextEvent(s) \/ Unsubscribe(s)

TailNext == Begin \/ Persisted \/ PersistFails \/ RecordSettles \/ TimesOut

Next == Handle \/ Record \/ TailNext \/ EndNext \/ SubscriberNext

Spec == Init /\ [][Next]_vars

\* Operations settle or time out, and finishEnd bounds its awaits.
Fairness ==
  /\ WF_vars(Begin) /\ WF_vars(Persisted \/ PersistFails) /\ WF_vars(RecordSettles)
  /\ WF_vars(EndClosing) /\ WF_vars(EndClosed) /\ WF_vars(EndDrained)
  /\ WF_vars(Finalize) /\ WF_vars(EndAnnounced)

-----------------------------------------------------------------------------
(***************************************************************************)
(* Properties.                                                             *)
(***************************************************************************)

\* A subscriber gets every cursor from the first on, in order and once, over
\* overflows, reconnects and failures; what it cannot get is an error: the
\* number of the events it got is the cursor of the last.
NoGap == \A s \in Subscriber : subs[s].got = subs[s].last

\* What was published, the store has under the same cursor, but for the alert of
\* a failure and the last event; a sealed store has nothing else.
EvidenceMatchesStream ==
  /\ \A i \in DOMAIN published :
       published[i].kind \in {"failure", "session_closed"} \/ Contains(durable, published[i])
  /\ sealed /\ ~failed => \A i \in DOMAIN durable : Contains(published, durable[i])

\* Nothing durable is published after the alert of a failure, although an event
\* may be in flight to the store when the failure jumps the tail.
FailureIsLast ==
  \A i, j \in DOMAIN published :
    i < j /\ published[i].kind = "failure" => published[j].kind = "session_closed"

\* relay.ts:165-168: terminal transitions keep their slots, whatever handlers,
\* withdrawals and records filled before, and so does the withdrawal that comes
\* before the end.
TerminalIsAdmitted ==
  /\ refused \cap {"closing", "end_cut", "closed"} = {}
  /\ withdrawn = "first" => "receipt" \notin refused

\* A subscriber that is not behind its bound could come back with its cursor.
LiveIsRetained ==
  \A s \in Subscriber :
    subs[s].state = "live" /\ History # <<>> => subs[s].last >= Head(History).cursor - 1

\* A stream that ends without an error ends behind the last event of the
\* session or the alert of its failure, unless it began when the session was
\* already closed.
DoneMeansEnd ==
  \A s \in Subscriber : subs[s].state = "done" /\ ~subs[s].late =>
    \E i \in DOMAIN published :
      published[i].kind \in {"failure", "session_closed"} /\ published[i].cursor <= subs[s].last

\* The stream of a subscriber has no gap, keeps what a subscriber that is not
\* behind could ask for again, and ends behind the last event.
StreamHolds == TypeOK /\ NoGap /\ LiveIsRetained /\ DoneMeansEnd

\* The evidence has what was published, nothing is published over a failure of
\* it, and the transitions of the end are never refused.
EvidenceHolds == EvidenceMatchesStream /\ FailureIsLast /\ TerminalIsAdmitted

\* Nobody waits for ever for an event of a session that was told to end.
WaitEnds ==
  \A s \in Subscriber : subs[s].waiting /\ end # "none" ~> ~subs[s].waiting

=============================================================================
