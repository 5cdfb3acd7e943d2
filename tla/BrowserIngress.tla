--------------------------- MODULE BrowserIngress ---------------------------
(***************************************************************************)
(* The sockets of the two participants and the one bounded queue through   *)
(* which the browser media adapter tells the relay about them              *)
(* (src/adapters/media/browser-websocket.ts).  What says that something    *)
(* ended may evict what does not; when even that finds no place it waits   *)
(* beside the queue, behind the event it has to follow.  The relay reads   *)
(* one event at a time and refuses a participant state that is older than  *)
(* the last one it accepted (src/core/relay.ts).                           *)
(***************************************************************************)
EXTENDS Integers, Sequences, SequencesExt, Filters

CONSTANTS
    QueueCapacity,
    Controls,       \* kinds of messages, of those below, that browsers send
    MaxSockets      \* bound on the sockets of a participant

IngressAssumption ==
    /\ QueueCapacity \in Nat /\ MaxSockets \in Nat
    /\ Controls \subseteq {"audio", "sample", "speech", "alert", "ready", "stopped", "cleared"}

Side == {"A", "B"}

VARIABLES
    port,   \* the session in the adapter, with its reader
    relay   \* what the relay believes of the participants

vars == <<port, relay>>

(* An event is named by its kind, its side and the socket it is about,     *)
(* which stands for its timestamp; last marks those of a detachment.       *)
NoEvent == [kind |-> "none", side |-> "A", at |-> 0, last |-> FALSE]
Event(kind, s, at) == [kind |-> kind, side |-> s, at |-> at, last |-> FALSE]
Terminal(e) == e.kind \in {"gone", "stopped"}

Init ==
    /\ port = [queue |-> <<>>, closed |-> FALSE,
               socket |-> [s \in Side |-> 0], used |-> [s \in Side |-> 0],
               ready |-> [s \in Side |-> FALSE],
               anchors |-> [s \in Side |-> NoEvent], pending |-> <<>>,
               flush |-> <<>>, todo |-> <<>>, reader |-> "idle",
               hand |-> NoEvent, value |-> NoEvent, ok |-> TRUE]
    /\ relay = [connected |-> [s \in Side |-> FALSE], at |-> [s \in Side |-> 0],
                since |-> [s \in Side |-> 0], ready |-> [s \in Side |-> FALSE]]

----------------------------------------------------------------------------
(* Admission to the queue.                                                 *)

(* May e take the place of c? *)
Evictable(e, c) ==
    \/ c.kind = "audio"
    \/ Terminal(e) /\ ~Terminal(c)
    \/ e.kind = "connected" /\ c.kind # "gone" /\ (c.kind = "stopped" => c.side = e.side)
    \/ e.kind \in {"cleared", "ready"} /\ c.kind \in {"speech", "sample", "alert"}
    \/ e.kind = "alert" /\ c.kind \in {"sample", "alert"}

(* A reader that waits gets the event.  Audio never evicts anything. *)
Offer(m, e) ==
    LET victims == {i \in DOMAIN m.queue : Evictable(e, m.queue[i])}
        victim == CHOOSE i \in victims : \A j \in victims : i <= j
        put(q) == [m EXCEPT !.queue = Append(q, e), !.ok = TRUE]
    IN  CASE m.closed -> [m EXCEPT !.ok = FALSE]
          [] ~m.closed /\ m.reader = "waiting" ->
                 [m EXCEPT !.reader = "handling", !.hand = e, !.value = e, !.ok = TRUE]
          [] ~m.closed /\ m.reader # "waiting" /\ Len(m.queue) < QueueCapacity -> put(m.queue)
          [] OTHER -> IF e.kind # "audio" /\ victims # {} THEN put(RemoveAt(m.queue, victim))
                      ELSE [m EXCEPT !.ok = FALSE]

Reject(m, s) == Offer(m, Event("alert", s, m.socket[s]))

(* What finds no place waits beside the queue, one of a kind for a side,   *)
(* behind the event of the same detachment that did find one.              *)
Beside(m, e, accepted) ==
    LET same == {i \in DOMAIN m.pending : m.pending[i].side = e.side /\ m.pending[i].kind = e.kind}
    IN  [m EXCEPT !.pending = IF same = {} THEN Append(@, e)
                              ELSE [i \in DOMAIN @ |-> IF i \in same THEN e ELSE @[i]],
                  !.anchors[e.side] = IF @ = NoEvent THEN accepted ELSE @]

OfferTerminal(m, e, accepted) ==
    LET o == Offer(m, e) IN IF o.ok THEN o ELSE Beside(o, e, accepted)

Ended(kind, s, at) == [Event(kind, s, at) EXCEPT !.last = TRUE]

\* Mutant of Detached: what finds no place in the queue is dropped.
DetachedOffering(m, s) ==
    LET at == m.socket[s]
        stop == IF m.ready[s] THEN Offer(m, Ended("stopped", s, at)) ELSE m
        gone == Offer(stop, Ended("gone", s, at))
    IN  [gone EXCEPT !.socket[s] = 0, !.ready[s] = FALSE]

(* A later connection has made what still waited for this side stale. *)
Detached(m, s) ==
    LET at == m.socket[s]
        m0 == IF Contains(m.flush, s)
              THEN [m EXCEPT !.pending = Without(@, {e \in ToSet(@) : e.side = s}),
                             !.flush = Without(@, {s})]
              ELSE m
        stop == IF m.ready[s] THEN OfferTerminal(m0, Ended("stopped", s, at), NoEvent) ELSE m0
        said == IF m.ready[s] /\ ~Contains(stop.pending, Ended("stopped", s, at))
                THEN Ended("stopped", s, at) ELSE NoEvent
        gone == OfferTerminal(stop, Ended("gone", s, at), said)
    IN  [gone EXCEPT !.socket[s] = 0, !.ready[s] = FALSE]

----------------------------------------------------------------------------
(* Sockets.                                                                *)

(* A connection that cannot be told is taken back. *)
Attach(s) ==
    /\ ~port.closed /\ port.socket[s] = 0 /\ port.used[s] < MaxSockets
    /\ LET at == port.used[s] + 1
           m == Offer([port EXCEPT !.used[s] = at, !.socket[s] = at], Event("connected", s, at))
       IN  port' = IF ~m.ok THEN Detached(m, s)
                   ELSE IF m.anchors[s] # NoEvent /\ m.pending # <<>>
                   THEN [m EXCEPT !.anchors[s] = NoEvent,
                                  !.flush = IF Contains(@, s) THEN @ ELSE Append(@, s)]
                   ELSE m
    /\ UNCHANGED relay

(* The socket closed, or was given up. *)
Detach(s) ==
    /\ port.socket[s] # 0
    /\ port' = Detached(port, s)
    /\ UNCHANGED relay

CloseSession ==
    /\ ~port.closed
    /\ LET a == IF port.socket["A"] # 0 THEN Detached(port, "A") ELSE port
           b == IF a.socket["B"] # 0 THEN Detached(a, "B") ELSE a
       IN  port' = [b EXCEPT !.closed = TRUE,
                             !.reader = IF @ = "waiting" THEN "idle" ELSE @]
    /\ UNCHANGED relay

----------------------------------------------------------------------------
(* Messages of a browser.                                                  *)

(* An alert stands for a message that is refused; cleared for the answer   *)
(* to the outstanding clear, which stays outstanding unless it finds a     *)
(* place.                                                                  *)
Received(kind, s) ==
    LET m == Offer(port, Event(kind, s, port.socket[s])) IN
    CASE kind \in {"audio", "sample"} -> IF m.ok THEN m ELSE Reject(m, s)
      [] kind = "speech" -> m
      [] kind = "alert" -> Reject(port, s)
      [] kind = "ready" /\ port.ready[s] -> port
      [] kind = "ready" /\ ~port.ready[s] ->
             IF m.ok THEN [m EXCEPT !.ready[s] = TRUE] ELSE Detached(Reject(m, s), s)
      [] kind = "stopped" /\ ~port.ready[s] -> port
      [] kind = "stopped" /\ port.ready[s] ->
             IF m.ok THEN [m EXCEPT !.ready[s] = FALSE] ELSE Reject(m, s)
      [] kind = "cleared" -> IF m.ok THEN m ELSE Detached(Reject(m, s), s)

Receive(kind, s) ==
    /\ port.socket[s] # 0
    /\ port' = Received(kind, s)
    /\ UNCHANGED relay

----------------------------------------------------------------------------
(* The reader of the queue.                                                *)

FirstPending(m, s) == SelectInSeq(m.pending, LAMBDA e : e.side = s)
HasPending(m, sides) == \E i \in DOMAIN sides : FirstPending(m, sides[i]) # 0

Hand(m, e) == [m EXCEPT !.reader = "handling", !.hand = e]
HandPending(m, i) == Hand([m EXCEPT !.pending = RemoveAt(@, i)], m.pending[i])

(* What waits for the first of these sides that has something waiting. *)
HandOf(m, sides) ==
    LET i == SelectInSeq(sides, LAMBDA s : FirstPending(m, s) # 0)
    IN  HandPending([m EXCEPT !.todo = SubSeq(sides, i, Len(sides))], FirstPending(m, sides[i]))

(* The event that was handed over last may be what others had to follow. *)
Anchored(m) ==
    LET s == {t \in Side : m.value # NoEvent /\ m.anchors[t] = m.value}
    IN  IF s = {} THEN [m EXCEPT !.value = NoEvent]
        ELSE LET t == CHOOSE t \in s : TRUE
             IN  [m EXCEPT !.value = NoEvent, !.anchors[t] = NoEvent, !.todo = <<t>>]

Pull ==
    /\ port.reader = "idle"
    /\ LET a == Anchored(port)
           m == [a EXCEPT !.todo = <<>>, !.flush = <<>>]
       IN  port' =
             CASE HasPending(a, a.todo) -> HandOf(a, a.todo)
               [] ~HasPending(a, a.todo) /\ HasPending(a, a.flush) -> HandOf(m, a.flush)
               [] OTHER ->
                    IF m.pending # <<>> /\ m.queue = <<>> /\ \A s \in Side : m.anchors[s] = NoEvent
                    THEN HandPending(m, 1)
                    ELSE IF m.queue # <<>>
                    THEN Hand([m EXCEPT !.queue = Tail(@), !.value = Head(m.queue)], Head(m.queue))
                    ELSE IF ~m.closed THEN [m EXCEPT !.reader = "waiting"]
                    ELSE IF m.pending # <<>> THEN HandPending(m, 1)
                    ELSE [m EXCEPT !.reader = "done"]
    /\ UNCHANGED relay

(* A state that changes the connection forgets the readiness; readiness    *)
(* counts only while connected and since the connection.                   *)
Believes(r, e) ==
    LET s == e.side
        connected == e.kind = "connected"
    IN  CASE e.kind \in {"connected", "gone"} /\ e.at < r.at[s] -> r
          [] e.kind \in {"connected", "gone"} /\ e.at >= r.at[s] ->
                 IF connected = r.connected[s] THEN [r EXCEPT !.at[s] = e.at]
                 ELSE [r EXCEPT !.at[s] = e.at, !.connected[s] = connected,
                                !.since[s] = IF connected THEN e.at ELSE 0, !.ready[s] = FALSE]
          [] e.kind \in {"ready", "stopped"} ->
                 IF r.connected[s] /\ e.at >= r.since[s]
                 THEN [r EXCEPT !.ready[s] = e.kind = "ready"] ELSE r
          [] OTHER -> r

Handle ==
    /\ port.reader = "handling"
    /\ relay' = Believes(relay, port.hand)
    /\ port' = [port EXCEPT !.reader = "idle", !.hand = NoEvent]

----------------------------------------------------------------------------
Next ==
    \/ \E s \in Side : Attach(s) \/ Detach(s) \/ \E k \in Controls : Receive(k, s)
    \/ CloseSession \/ Pull \/ Handle

Spec == Init /\ [][Next]_vars

----------------------------------------------------------------------------
(* Properties.                                                             *)

OnTheWay == ToSet(port.queue) \cup ToSet(port.pending)
            \cup (IF port.reader = "handling" THEN {port.hand} ELSE {})

(* A relay that believes a participant connected or capturing whose socket *)
(* is gone will still be told so: nothing the queue evicts, refuses or     *)
(* reorders loses the news of an end.                                      *)
LossIsOnTheWay ==
    \A s \in Side : port.socket[s] = 0 =>
        /\ relay.connected[s] =>
               \E e \in OnTheWay : e.side = s /\ e.kind = "gone" /\ e.at >= relay.at[s]
        /\ relay.ready[s] =>
               \E e \in OnTheWay : e.side = s /\ Terminal(e) /\ e.at >= relay.since[s]

(* A readiness the relay holds is of the socket that is attached, once     *)
(* everything was told: a reconnection is not qualified by what an earlier *)
(* connection reported.                                                    *)
ReadinessIsFresh ==
    \A s \in Side :
        relay.ready[s] /\ port.socket[s] # 0 /\ port.reader = "waiting" => port.ready[s]
=============================================================================
