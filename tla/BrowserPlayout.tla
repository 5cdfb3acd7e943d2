--------------------------- MODULE BrowserPlayout ---------------------------
(***************************************************************************)
(* Translated audio and its clears on their way to one participant: the    *)
(* media adapter with the frames it awaits an answer for and the clear it  *)
(* has no answer to (src/adapters/media/browser-websocket.ts), the socket  *)
(* and its supervisor, the page that remembers which clears it owes an     *)
(* answer (web/app.js), and the worklet that plays, drops and fences       *)
(* frames (web/public/playout-worklet.js).  Sockets break and reconnect.   *)
(***************************************************************************)
EXTENDS Integers, Sequences, SequencesExt, FiniteSets

CONSTANTS
    QueueCapacity,  \* frames that may await an answer
    WorkletFrames,  \* frames the worklet keeps before it trims
    MaxFrames, MaxCuts, MaxSockets      \* bounds

ASSUME PlayoutAssumption ==
    /\ QueueCapacity \in Nat /\ WorkletFrames \in Nat
    /\ MaxFrames \in Nat /\ MaxCuts \in Nat /\ MaxSockets \in Nat

Generation == 0 .. MaxCuts
NoFrame == [gen |-> -1, n |-> 0]

VARIABLES
    relay,      \* generation and status, frames made, the answer it was told
    srv,        \* socket, pending frames, held frame and clear of the adapter
    down, up,   \* messages on the connection
    page,       \* socket of the page, clears it owes an answer, clears it answered
    work,       \* the worklet
    toWork, fromWork    \* messages on the port of the worklet

vars == <<relay, srv, down, up, page, work, toWork, fromWork>>
browser == <<page, work, toWork, fromWork>>

Msg(kind, gen, n) == [kind |-> kind, gen |-> gen, n |-> n]
Of(kind, f) == Msg(kind, f.gen, f.n)
FrameOf(m) == [gen |-> m.gen, n |-> m.n]
Close == Msg("close", 0, 0)

NewWork == [gen |-> -1, queue |-> <<>>, playing |-> NoFrame, fence |-> FALSE, receipts |-> {}]
NoClears == [g \in Generation |-> 0]
NewPage == [running |-> TRUE, socket |-> 0, pending |-> NoClears, answered |-> NoClears]

Init ==
    /\ relay = [gen |-> 0, status |-> "active", made |-> 0, told |-> 0]
    /\ srv = [socket |-> 0, used |-> 0, pending |-> {}, held |-> NoFrame,
              clear |-> 0, acked |-> TRUE, gone |-> FALSE]
    /\ down = <<>> /\ up = <<>> /\ toWork = <<>> /\ fromWork = <<>>
    /\ page = [NewPage EXCEPT !.running = FALSE] /\ work = NewWork

(* What is sent on a connection that is lost or left does not arrive. *)
Lost(queue) == page.socket # srv.socket \/ page.socket = 0 \/ Contains(queue, Close)
Down(m) == IF Lost(down) THEN down ELSE Append(down, m)
Up(m) == IF Lost(up) THEN up ELSE Append(up, m)

(* Every socket that may yet be lost keeps a cut for itself. *)
MoreSockets == srv.used < MaxSockets
MoreCuts == relay.gen + MaxSockets <= MaxCuts

----------------------------------------------------------------------------
(* The adapter and the relay behind it.                                    *)

(* A detachment forgets the pending frames, wakes the player, which drops  *)
(* the frame it holds, and will be told to the relay.                      *)
Detached(s) == [s EXCEPT !.socket = 0, !.pending = {}, !.held = NoFrame, !.gone = TRUE]

SendFrame(f) ==
    /\ srv' = [srv EXCEPT !.pending = @ \cup {f}, !.held = NoFrame]
    /\ down' = Down(Of("frame", f))

HasRoom == Cardinality(srv.pending) < QueueCapacity

(* play: the next frame of the lane finds nobody, or goes out, or meets a  *)
(* congested socket, or is held until there is room.                       *)
PlayFrame ==
    /\ relay.status = "active" /\ relay.made < MaxFrames /\ srv.held = NoFrame
    /\ relay' = [relay EXCEPT !.made = @ + 1]
    /\ LET f == [gen |-> relay.gen, n |-> relay.made + 1]
       IN  \/ (srv.socket = 0 \/ HasRoom) /\ UNCHANGED <<srv, down>>
           \/ srv.socket # 0 /\ HasRoom /\ SendFrame(f)
           \/ srv.socket # 0 /\ ~HasRoom /\ srv' = [srv EXCEPT !.held = f] /\ UNCHANGED down
    /\ UNCHANGED <<up, browser>>

(* A frame that is no longer pending wakes the player. *)
ReleaseFrame ==
    /\ srv.held # NoFrame /\ HasRoom
    /\ SendFrame(srv.held)
    /\ UNCHANGED <<relay, up, browser>>

(* The answer to the oldest frame did not come in time. *)
ExpireFrame ==
    /\ \E f \in srv.pending :
           /\ \A g \in srv.pending : f.n <= g.n
           /\ srv' = [srv EXCEPT !.pending = @ \ {f}]
    /\ UNCHANGED <<relay, down, up, browser>>

(* clear: older pending frames are forgotten; the clear is outstanding     *)
(* until it is answered, and is sent when a browser is there.  One that    *)
(* cannot be sent costs the browser its socket and ends the session.       *)
Cut(status) ==
    /\ LET g == relay.gen + 1
           s == [srv EXCEPT !.clear = g, !.acked = FALSE,
                            !.pending = {f \in @ : f.gen >= g}, !.gone = FALSE]
       IN  \/ /\ relay' = [relay EXCEPT !.gen = g, !.status = status]
              /\ srv' = s
              /\ down' = IF srv.socket # 0 THEN Down(Msg("clear", g, 0)) ELSE down
           \/ /\ srv.socket # 0
              /\ relay' = [relay EXCEPT !.gen = g, !.status = "ended"]
              /\ srv' = Detached(s) /\ down' = Down(Close)
    /\ UNCHANGED <<up, browser>>

(* The relay cuts the lane at an interruption, a pause and a resume, and   *)
(* when a participant leaves an active session; not when one leaves a      *)
(* session that waits or is paused, and not at a start.                    *)
BargeIn == relay.status = "active" /\ ~srv.gone /\ MoreCuts /\ Cut("active")
Pause == relay.status = "active" /\ ~srv.gone /\ MoreCuts /\ Cut("paused")
Resume == relay.status = "paused" /\ ~srv.gone /\ MoreCuts /\ Cut("active")

HearGone ==
    /\ srv.gone /\ relay.status # "ended"
    /\ IF relay.status = "active" THEN Cut("waiting")
       ELSE /\ relay' = [relay EXCEPT !.status = "waiting"]
            /\ srv' = [srv EXCEPT !.gone = FALSE]
            /\ UNCHANGED <<down, up, browser>>

Start ==
    /\ relay.status = "waiting" /\ ~srv.gone /\ srv.socket # 0
    /\ relay' = [relay EXCEPT !.status = "active"]
    /\ UNCHANGED <<srv, down, up, browser>>

(* A message of the browser.  An answer that matches the outstanding clear *)
(* but finds no place in the ingress costs the browser its socket, and the *)
(* clear stays outstanding; any other answer is refused.                   *)
ReceiveUp ==
    /\ srv.socket # 0 /\ up # <<>>
    /\ LET m == Head(up)
           answers == m.kind = "applied" /\ ~srv.acked /\ m.gen = srv.clear
       IN  \/ /\ m = Close
              /\ srv' = Detached(srv) /\ up' = <<>> /\ UNCHANGED <<relay, down>>
           \/ /\ m.kind \in {"started", "dropped"}
              /\ srv' = [srv EXCEPT !.pending = @ \ {FrameOf(m)}]
              /\ up' = Tail(up) /\ UNCHANGED <<relay, down>>
           \/ /\ answers
              /\ srv' = [srv EXCEPT !.acked = TRUE]
              /\ relay' = [relay EXCEPT !.told = m.gen]
              /\ up' = Tail(up) /\ UNCHANGED down
           \/ /\ answers /\ MoreSockets
              /\ srv' = Detached(srv) /\ up' = <<>> /\ down' = Down(Close)
              /\ UNCHANGED relay
           \/ /\ m.kind = "applied" /\ ~answers
              /\ up' = Tail(up) /\ UNCHANGED <<srv, relay, down>>
    /\ UNCHANGED browser

----------------------------------------------------------------------------
(* The socket, its supervisor and the page.                                *)

Clears(S) == [i \in 1 .. Cardinality(S) |->
                 Msg("clear", CHOOSE g \in S : Cardinality({h \in S : h < g}) = i - 1, 0)]

(* A page that started or whose socket closed connects, once the adapter   *)
(* has let the old socket go.  The adapter replays the clear it has no     *)
(* answer to; the page posts the clears it owes an answer once more.       *)
Connect ==
    /\ page.running /\ page.socket = 0 /\ srv.socket = 0 /\ MoreSockets
    /\ LET n == srv.used + 1
       IN  /\ srv' = [srv EXCEPT !.socket = n, !.used = n]
           /\ page' = [page EXCEPT !.socket = n,
                           !.pending = [g \in Generation |-> IF @[g] # 0 THEN n ELSE 0]]
    /\ down' = IF srv.acked THEN <<>> ELSE <<Msg("clear", srv.clear, 0)>>
    /\ up' = <<>>
    /\ toWork' = toWork \o Clears({g \in Generation : page.pending[g] # 0})
    /\ UNCHANGED <<relay, work, fromWork>>

(* The connection is lost with what is on its way. *)
Break ==
    /\ page.socket # 0 /\ srv.socket = page.socket /\ MoreSockets
    /\ down' = <<Close>> /\ up' = <<Close>>
    /\ UNCHANGED <<relay, srv, browser>>

StartPage ==
    /\ ~page.running
    /\ page' = NewPage
    /\ UNCHANGED <<relay, srv, down, up, work, toWork, fromWork>>

(* The page stops: its worklet and what it knew of clears are gone. *)
StopPage ==
    /\ page.running /\ MoreSockets
    /\ page' = [NewPage EXCEPT !.running = FALSE]
    /\ work' = NewWork /\ toWork' = <<>> /\ fromWork' = <<>>
    /\ up' = Up(Close) /\ down' = <<>>
    /\ UNCHANGED <<relay, srv>>

\* Mutant of TakeClear: a clear that was answered on any socket is answered.
TakeClearOnce(g) ==
    IF page.answered[g] # 0 \/ page.pending[g] = page.socket
    THEN UNCHANGED <<page, toWork>>
    ELSE /\ page' = [page EXCEPT !.pending[g] = page.socket]
         /\ toWork' = Append(toWork, Msg("clear", g, 0))

(* A clear that was posted, or answered, on this socket is not posted      *)
(* again; one that was answered on an earlier socket is owed once more.    *)
TakeClear(g) ==
    IF page.pending[g] = page.socket \/ page.answered[g] = page.socket
    THEN UNCHANGED <<page, toWork>>
    ELSE /\ page' = [page EXCEPT !.pending[g] = page.socket, !.answered[g] = 0]
         /\ toWork' = Append(toWork, Msg("clear", g, 0))

(* When the socket closes, the worklet is fenced until it is cleared. *)
ReceiveDown ==
    /\ page.socket # 0 /\ down # <<>>
    /\ LET m == Head(down)
       IN  \/ m.kind = "clear" /\ TakeClear(m.gen)
           \/ /\ m.kind = "frame" /\ toWork' = Append(toWork, [m EXCEPT !.kind = "push"])
              /\ UNCHANGED page
           \/ /\ m = Close
              /\ page' = [page EXCEPT !.socket = 0]
              /\ toWork' = Append(toWork, Msg("reset", 0, 0))
    /\ down' = Tail(down)
    /\ UNCHANGED <<relay, srv, up, work, fromWork>>

(* The page forwards what the worklet reports.  The answer to a clear goes *)
(* out only on the socket the clear was last delivered on.                 *)
Forward ==
    /\ page.running /\ fromWork # <<>>
    /\ LET m == Head(fromWork)
       IN  \/ /\ m.kind = "applied" /\ (page.socket = 0 \/ page.pending[m.gen] # page.socket)
              /\ UNCHANGED <<page, up>>
           \/ /\ m.kind = "applied" /\ page.socket # 0 /\ page.pending[m.gen] = page.socket
              /\ page' = [page EXCEPT !.pending[m.gen] = 0, !.answered[m.gen] = page.socket]
              /\ up' = Up(m)
           \/ m.kind \in {"started", "dropped"} /\ up' = Up(m) /\ UNCHANGED page
    /\ fromWork' = Tail(fromWork)
    /\ UNCHANGED <<relay, srv, down, work, toWork>>

----------------------------------------------------------------------------
(* The worklet.                                                            *)

Advanced(g) == [work EXCEPT !.gen = g, !.queue = <<>>, !.playing = NoFrame, !.fence = FALSE]

(* A clear that was applied before is answered again, and lifts the fence  *)
(* of its generation; one that is older than the worklet is ignored.       *)
WorkClear(g) ==
    IF g \notin work.receipts /\ g < work.gen THEN UNCHANGED <<work, fromWork>>
    ELSE /\ work' = IF g \in work.receipts THEN [work EXCEPT !.fence = @ /\ work.gen # g]
                    ELSE [(IF g > work.gen THEN Advanced(g) ELSE work) EXCEPT
                              !.fence = FALSE, !.receipts = @ \cup {g}]
         /\ fromWork' = Append(fromWork, Msg("applied", g, 0))

(* Too much audio: what plays goes first, then the oldest, down to 7/12. *)
Kept == (7 * WorkletFrames) \div 12
Trimmed(w) ==
    LET depth == Len(w.queue) + IF w.playing = NoFrame THEN 0 ELSE 1
        cut == IF Len(w.queue) > Kept THEN Len(w.queue) - (IF Kept > 0 THEN Kept ELSE 1) ELSE 0
    IN  IF depth <= WorkletFrames THEN [w |-> w, dropped |-> <<>>]
        ELSE [w |-> [w EXCEPT !.playing = NoFrame, !.queue = SubSeq(@, cut + 1, Len(@))],
              dropped |-> (IF w.playing = NoFrame THEN <<>> ELSE <<w.playing>>)
                          \o SubSeq(w.queue, 1, cut)]

\* Mutant of WorkPush: a frame of an older generation takes the worklet back.
PushAny(f) ==
    LET t == Trimmed([(IF f.gen # work.gen THEN Advanced(f.gen) ELSE work) EXCEPT
                          !.queue = Append(@, f)])
    IN  /\ work' = t.w
        /\ fromWork' = fromWork \o [i \in DOMAIN t.dropped |-> Of("dropped", t.dropped[i])]

(* A frame of an older generation is dropped, as is one behind the fence;  *)
(* a newer generation replaces what is queued.                             *)
WorkPush(f) ==
    IF f.gen < work.gen \/ (f.gen = work.gen /\ work.fence)
    THEN UNCHANGED <<work, fromWork>>
    ELSE LET t == Trimmed([(IF f.gen > work.gen THEN Advanced(f.gen) ELSE work) EXCEPT
                               !.queue = Append(@, f)])
         IN  /\ work' = t.w
             /\ fromWork' = fromWork \o [i \in DOMAIN t.dropped |-> Of("dropped", t.dropped[i])]

WorkReset == /\ work' = [work EXCEPT !.queue = <<>>, !.playing = NoFrame, !.fence = TRUE]
             /\ UNCHANGED fromWork

WorkReceive ==
    /\ toWork # <<>>
    /\ LET m == Head(toWork)
       IN  \/ m.kind = "clear" /\ WorkClear(m.gen)
           \/ m.kind = "push" /\ WorkPush(FrameOf(m))
           \/ m.kind = "reset" /\ WorkReset
    /\ toWork' = Tail(toWork)
    /\ UNCHANGED <<relay, srv, down, up, page>>

(* The next chunk starts, or the last one has been played. *)
WorkPlay ==
    /\ \/ /\ work.queue # <<>>
          /\ work' = [work EXCEPT !.playing = Head(work.queue), !.queue = Tail(@)]
          /\ fromWork' = Append(fromWork, Of("started", Head(work.queue)))
       \/ /\ work.queue = <<>> /\ work.playing # NoFrame
          /\ work' = [work EXCEPT !.playing = NoFrame] /\ UNCHANGED fromWork
    /\ UNCHANGED <<relay, srv, down, up, page, toWork>>

----------------------------------------------------------------------------
Next ==
    \/ PlayFrame \/ ReleaseFrame \/ ExpireFrame \/ BargeIn \/ Pause \/ Resume
    \/ HearGone \/ Start \/ ReceiveUp
    \/ Connect \/ Break \/ StartPage \/ StopPage \/ ReceiveDown \/ Forward
    \/ WorkReceive \/ WorkPlay

(* Messages on a connection and on the port of the worklet arrive, timers  *)
(* fire, the supervisor retries and the relay reads its ingress.           *)
Progress ==
    \/ ReceiveUp \/ ReceiveDown \/ Forward \/ WorkReceive \/ Connect \/ HearGone
    \/ ReleaseFrame \/ ExpireFrame

Fairness == WF_vars(Progress)

Spec == Init /\ [][Next]_vars /\ Fairness

----------------------------------------------------------------------------
(* Properties.                                                             *)

(* Once the relay was told that a clear was applied, nothing of an older   *)
(* generation is queued or plays on the participant's device.              *)
ClearedIsSilent ==
    \A f \in ToSet(work.queue) \cup ({work.playing} \ {NoFrame}) : f.gen >= relay.told

(* Once no further cut comes, the outstanding clear is answered while the  *)
(* page runs, whatever sockets break between it, its replay and its answer.*)
ClearSettles ==
    ~srv.acked /\ page.running ~> srv.acked \/ ~page.running \/ relay.status = "ended"

(* A worklet that a reconnection fenced plays again while its session is   *)
(* active and its socket stays.                                            *)
FenceLifts ==
    work.fence /\ relay.status = "active" /\ page.socket # 0 ~>
        ~work.fence \/ relay.status # "active" \/ page.socket = 0
=============================================================================
