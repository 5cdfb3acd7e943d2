---------------------------- MODULE EventDelivery ----------------------------
(***************************************************************************)
(* The events of one session on their way to one page: the event sockets   *)
(* of the server with their places and their budget (src/server/app.ts),   *)
(* and the page that follows the stream by its cursor, reconnects, resyncs *)
(* from a snapshot and is reloaded (web/app.js).  What the relay retains   *)
(* and how it fills a subscription is the subject of SessionEvents.        *)
(***************************************************************************)
EXTENDS Integers, Sequences, SequencesExt, FiniteSets

CONSTANTS
    Slots,      \* event sockets of a session that may stream at a time
    History,    \* events the relay retains, and a subscription may await
    Budget,     \* messages a socket may have unflushed
    MaxEvents, MaxTrouble   \* bounds: events, and lost sockets and reloads

(* Assumed of the constants where this module is instantiated. *)
DeliveryAssumption == MaxEvents \in Nat

Sockets == 1 .. 2
Kinds == {"joined", "left", "sample", "withdrawal", "closed"}

VARIABLES
    role,       \* whose page it is
    log,        \* kinds of the events the relay published; cursors are indices
    socket,     \* the two sockets between the page and the server
    used,       \* places taken by streams
    page,       \* the page
    trouble     \* sockets lost, snapshots refused and reloads

vars == <<role, log, socket, used, page, trouble>>

Joined == LET last == SelectLastInSeq(log, LAMBDA k : k \in {"joined", "left"})
          IN  last # 0 /\ log[last] = "joined"
IsClosed == log # <<>> /\ Last(log) = "closed"
Room(upTo) == IF \E i \in 1 .. upTo : log[i] \in {"withdrawal", "closed"} THEN "closed" ELSE "open"

(* A participant sees its own comings and goings and the state of the      *)
(* session, and none of the telemetry.                                     *)
IsVisible(kind) == role = "operator" \/ kind # "sample"

NoSocket == [st |-> "none", next |-> 0, cut |-> 0, wire |-> <<>>, slot |-> FALSE, shut |-> FALSE]
NoAnswer == [cursor |-> 0, room |-> "open"]
NewPage == [socket |-> 0, cursor |-> 0, asked |-> 0, closed |-> FALSE, timer |-> FALSE,
            resync |-> "no", answer |-> NoAnswer, base |-> 0, seen |-> {}, joined |-> FALSE,
            room |-> "open", note |-> "none"]
(* An operator's page begins with a snapshot, a participant's at once. *)
Opened == IF role = "operator" THEN [NewPage EXCEPT !.resync = "asked"]
                               ELSE [NewPage EXCEPT !.timer = TRUE]

Init ==
    /\ role \in {"operator", "participant"}
    /\ log = <<>> /\ used = 0 /\ trouble = 0
    /\ socket = [s \in Sockets |-> NoSocket]
    /\ page = Opened

Message(kind, cursor) == [kind |-> kind, cursor |-> cursor]

----------------------------------------------------------------------------
(* The relay publishes; a subscription that awaits as much as it may is    *)
(* cut off, and fails once what it holds is delivered.                     *)
Publish(kind) ==
    /\ Len(log) < MaxEvents /\ ~IsClosed
    /\ log # <<>> /\ Last(log) = "withdrawal" => kind = "closed"
    /\ kind = "joined" => ~Joined
    /\ kind = "left" => Joined
    /\ log' = Append(log, kind)
    /\ socket' = [s \in Sockets |->
           IF /\ socket[s].st = "streaming" /\ socket[s].cut = 0
              /\ Len(log) - socket[s].next >= History
           THEN [socket[s] EXCEPT !.cut = Len(log)] ELSE socket[s]]
    /\ UNCHANGED <<role, used, page, trouble>>

FirstRetained == IF Len(log) > History THEN Len(log) - History + 1 ELSE 1

(* A stream that stops has no use for its place in the log; what it sent   *)
(* is still on the way, unless the connection is gone.                     *)
Stopping(s) == [socket[s] EXCEPT !.st = "stopping", !.shut = TRUE, !.next = 0, !.cut = 0]
Gone(s) == [Stopping(s) EXCEPT !.slot = FALSE, !.wire = <<>>]

(* /ws/events: no place, a cursor whose history is gone, or a stream. *)
Accept(s) ==
    /\ socket[s].st = "asked"
    /\ LET after == socket[s].next
       IN  \/ /\ used >= Slots
              /\ socket' = [socket EXCEPT ![s] = [NoSocket EXCEPT !.st = "ended", !.shut = TRUE]]
              /\ UNCHANGED used
           \/ /\ used < Slots /\ after < FirstRetained - 1
              /\ socket' = [socket EXCEPT ![s] = [Stopping(s) EXCEPT
                                !.slot = TRUE, !.wire = <<Message("gap", 0)>>]]
              /\ used' = used + 1
           \/ /\ used < Slots /\ after >= FirstRetained - 1
              /\ socket' = [socket EXCEPT ![s].st = "streaming", ![s].slot = TRUE]
              /\ used' = used + 1
    /\ UNCHANGED <<role, log, page, trouble>>

\* Mutant of Deliver: a send over the budget drops the event.
DeliverSome(s) ==
    /\ socket[s].st = "streaming" /\ socket[s].next < Len(log)
    /\ LET next == socket[s].next + 1
       IN  socket' = [socket EXCEPT ![s].next = next,
               ![s].wire = IF IsVisible(log[next]) /\ Len(@) < Budget
                           THEN Append(@, Message(log[next], next)) ELSE @]
    /\ UNCHANGED <<role, log, used, page, trouble>>

(* streamEventSocket: the next event is skipped, or sent, or finds the     *)
(* peer behind its budget, which closes it.                                *)
Deliver(s) ==
    /\ socket[s].st = "streaming" /\ socket[s].next < Len(log)
    /\ socket[s].cut = 0 \/ socket[s].next < socket[s].cut
    /\ LET next == socket[s].next + 1
           kind == log[next]
       IN  \/ /\ ~IsVisible(kind)
              /\ socket' = [socket EXCEPT ![s].next = next]
           \/ /\ IsVisible(kind) /\ Len(socket[s].wire) < Budget
              /\ socket' = [socket EXCEPT ![s].next = next,
                                ![s].wire = Append(@, Message(kind, next))]
           \/ /\ IsVisible(kind) /\ Len(socket[s].wire) >= Budget
              /\ socket' = [socket EXCEPT ![s] = Stopping(s)]
    /\ UNCHANGED <<role, log, used, page, trouble>>

(* The subscription failed: the page is told, and the socket is closed. *)
Fail(s) ==
    /\ socket[s].st = "streaming" /\ socket[s].cut # 0 /\ socket[s].next = socket[s].cut
    /\ socket' = [socket EXCEPT ![s] = [Stopping(s) EXCEPT
                      !.wire = Append(@, Message("overflow", 0))]]
    /\ UNCHANGED <<role, log, used, page, trouble>>

(* The session is over and the stream at its end: the socket is            *)
(* terminated, which may cost what it has not flushed.                     *)
Finish(s) ==
    /\ socket[s].st = "streaming" /\ socket[s].next = Len(log) /\ IsClosed /\ socket[s].cut = 0
    /\ \/ socket' = [socket EXCEPT ![s] = Stopping(s)] /\ UNCHANGED trouble
       \/ /\ trouble < MaxTrouble /\ trouble' = trouble + 1
          /\ socket' = [socket EXCEPT ![s] = [Stopping(s) EXCEPT !.wire = <<>>]]
    /\ UNCHANGED <<role, log, used, page>>

(* A place is given back once. *)
Release(s) == used' = IF socket[s].slot THEN used - 1 ELSE used

(* The close or error of a socket the page has left, or the network lost. *)
HearClose(s) ==
    /\ socket[s].st = "streaming" /\ page.socket # s
    /\ socket' = [socket EXCEPT ![s] = Gone(s)]
    /\ Release(s)
    /\ UNCHANGED <<role, log, page, trouble>>

Lose(s) ==
    /\ socket[s].st = "streaming" /\ trouble < MaxTrouble
    /\ socket' = [socket EXCEPT ![s] = Gone(s)]
    /\ trouble' = trouble + 1 /\ Release(s)
    /\ UNCHANGED <<role, log, page>>

(* finally: the subscription is returned, and the place. *)
End(s) ==
    /\ socket[s].st = "stopping"
    /\ socket' = [socket EXCEPT ![s] = [NoSocket EXCEPT !.st = "ended", !.shut = TRUE,
                      !.wire = IF page.socket = s THEN socket[s].wire ELSE <<>>]]
    /\ Release(s)
    /\ UNCHANGED <<role, log, page, trouble>>

----------------------------------------------------------------------------
(* The page.                                                               *)

Ask(p, s) == [NoSocket EXCEPT !.st = "asked", !.next = p.cursor]

(* connectEventStream, on a socket that is free. *)
ConnectAs(p) ==
    \E s \in Sockets :
        /\ s # page.socket /\ socket[s].st \in {"none", "ended"}
        /\ socket' = [socket EXCEPT ![s] = Ask(p, s)]
        /\ page' = [p EXCEPT !.socket = s, !.asked = p.cursor, !.closed = FALSE, !.timer = FALSE]

\* Mutant of Reconnect: a page that has lost its socket waits for good.
ReconnectNever == FALSE /\ UNCHANGED vars

(* The timer of a reconnection. *)
Reconnect ==
    /\ page.timer
    /\ \/ page.closed /\ page' = [page EXCEPT !.timer = FALSE] /\ UNCHANGED socket
       \/ ~page.closed /\ ConnectAs(page)
    /\ UNCHANGED <<role, log, used, trouble>>

(* The socket of the page closes. *)
SeeClose(s) ==
    /\ page.socket = s /\ socket[s].shut /\ socket[s].wire = <<>>
    /\ page' = [page EXCEPT !.socket = 0, !.timer = ~page.closed]
    /\ UNCHANGED <<role, log, socket, used, trouble>>

(* recoverFromEventHistoryGap: an operator forgets what it has and asks    *)
(* for a snapshot; a participant stops.                                    *)
Recover(p, kind) ==
    IF role = "operator"
    THEN [p EXCEPT !.socket = 0, !.timer = FALSE, !.cursor = 0, !.base = 0, !.seen = {},
                   !.joined = FALSE, !.room = "open", !.resync = "asked"]
    ELSE [p EXCEPT !.socket = 0, !.timer = FALSE, !.closed = TRUE, !.note = kind]

(* handleEvent, for an event that is newer than the cursor. *)
Apply(p, m) ==
    [p EXCEPT !.cursor = m.cursor, !.seen = @ \cup {m.cursor},
              !.joined = CASE m.kind = "joined" -> TRUE [] m.kind = "left" -> FALSE [] OTHER -> @,
              !.room = IF m.kind \in {"withdrawal", "closed"} THEN "closed" ELSE @,
              !.closed = @ \/ m.kind \in {"withdrawal", "closed"}]

(* parseEventMessage: a page that is closed takes the finalization only. *)
Receive(s) ==
    /\ page.socket = s /\ socket[s].wire # <<>>
    /\ LET m == Head(socket[s].wire)
           ignored == page.closed /\ ~(role = "operator" /\ m.kind = "closed")
       IN  page' = CASE ignored -> page
                     [] ~ignored /\ m.kind \in {"gap", "overflow"} -> Recover(page, m.kind)
                     [] ~ignored /\ m.kind \in Kinds /\ m.cursor <= page.cursor -> page
                     [] ~ignored /\ m.kind \in Kinds /\ m.cursor > page.cursor -> Apply(page, m)
    /\ socket' = [socket EXCEPT ![s].wire = Tail(@)]
    /\ UNCHANGED <<role, log, used, trouble>>

(* GET /api/sessions/:sessionId. *)
Snapshot ==
    /\ page.resync = "asked"
    /\ \/ /\ page' = [page EXCEPT !.resync = "answered",
                          !.answer = [cursor |-> Len(log), room |-> Room(Len(log))]]
          /\ UNCHANGED trouble
       \/ /\ trouble < MaxTrouble /\ trouble' = trouble + 1
          /\ page' = [page EXCEPT !.resync = "no", !.closed = TRUE, !.note = "unavailable"]
    /\ UNCHANGED <<role, log, socket, used>>

(* showOperatorSession: the page takes over the cursor and the state of    *)
(* the snapshot, which does not tell who is connected, and connects.       *)
ShowSnapshot ==
    /\ page.resync = "answered"
    /\ ConnectAs([page EXCEPT !.resync = "no", !.cursor = page.answer.cursor,
                              !.base = page.answer.cursor, !.room = page.answer.room,
                              !.answer = NoAnswer])
    /\ UNCHANGED <<role, log, used, trouble>>

(* The user reloads the page: its socket is left behind. *)
Reload ==
    /\ trouble < MaxTrouble /\ trouble' = trouble + 1
    /\ page' = Opened
    /\ UNCHANGED <<role, log, socket, used>>

ServerStep(s) == Accept(s) \/ Deliver(s) \/ Fail(s) \/ Finish(s) \/ HearClose(s) \/ End(s)
PageHears(s) == SeeClose(s) \/ Receive(s)
PageStep == Reconnect \/ Snapshot \/ ShowSnapshot

Next ==
    \/ \E kind \in Kinds : Publish(kind)
    \/ \E s \in Sockets : ServerStep(s) \/ PageHears(s) \/ Lose(s)
    \/ PageStep \/ Reload

(* The handlers of the server and of the page run, and the network         *)
(* delivers what is sent on a socket it has not lost.                      *)
Fairness ==
    /\ \A s \in Sockets : WF_vars(ServerStep(s)) /\ WF_vars(PageHears(s))
    /\ WF_vars(PageStep)

Spec == Init /\ [][Next]_vars /\ Fairness

----------------------------------------------------------------------------
TypeOK ==
    /\ role \in {"operator", "participant"} /\ log \in Seq(Kinds) /\ used \in Nat
    /\ \A s \in Sockets : socket[s].st \in {"none", "asked", "streaming", "stopping", "ended"}
    /\ page.socket \in {0} \cup Sockets /\ page.cursor \in 0 .. MaxEvents
    /\ page.resync \in {"no", "asked", "answered"} /\ page.seen \subseteq 1 .. MaxEvents
    /\ page.note \in {"none", "gap", "overflow", "unavailable"}

(* Over reconnections, overruns and resyncs a page has applied each event  *)
(* it may see, from where it started up to its cursor, and no other        *)
(* (streamEventSocket, connectEventStream, handleEvent,                    *)
(* showOperatorSession).                                                   *)
NothingIsSkipped ==
    page.seen = {i \in 1 .. page.cursor : i > page.base /\ IsVisible(log[i])}

(* The places taken are those of the streams that run, whichever of the    *)
(* close of the socket, its error and the end of the stream come, so a     *)
(* session never runs out of places for good (reserveEventSubscription,    *)
(* releaseSubscription).                                                   *)
PlacesAreReturned == used = Cardinality({s \in Sockets : socket[s].slot})

(* When the session is closed, its page comes to show it, or shows that    *)
(* its history is gone: no lost socket, refused place, overrun or reload   *)
(* leaves it with a session that looks alive (web/app.js, 1844-1929).      *)
CloseIsShown == <>[](IsClosed => page.room = "closed" \/ page.note # "none")

(* A participant that reloads its page, as the page asks it to, is not     *)
(* told to reload again (web/app.js, 1592-1602).                           *)
ReloadHelps == page.note = "gap" => page.asked # 0

(* A page that follows the stream to its end knows who is connected        *)
(* (showOperatorSession).                                                  *)
JoinedIsKnown ==
    role = "operator" /\ page.socket # 0 /\ page.cursor = Len(log) => page.joined = Joined
=============================================================================
