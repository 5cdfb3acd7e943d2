---------------------------- MODULE BrowserCapture ----------------------------
(***************************************************************************)
(* The microphone of a participant's page (web/app.js): a start that waits *)
(* for the consent, the microphone, the worklets, the media socket and the *)
(* audio context, a stop that comes at any of these points, and what the   *)
(* page tells the server of its capture over mutes, pauses, suspensions    *)
(* and lost sockets.                                                       *)
(***************************************************************************)
EXTENDS Integers, FiniteSets

CONSTANTS
    Keyboard,   \* the start button answers to the keyboard, too
    MaxStarts, MaxUpsets    \* bounds: starts, and mutes, suspensions, lost sockets

Starts == 1 .. MaxStarts
UnderWay == {"consent", "mic", "worklets", "socket", "resume", "wake"}

VARIABLES
    page,   \* the room as the page knows it, its audio and its start button
    start,  \* every start with what it holds
    upsets

vars == <<page, start, upsets>>

NoStart == [at |-> "new", epoch |-> 0, track |-> "none", enabled |-> TRUE, muted |-> FALSE,
            running |-> FALSE, ready |-> FALSE, connected |-> FALSE, told |-> "nothing",
            desired |-> FALSE, stop |-> "no"]

Init ==
    /\ page = [room |-> "waiting", over |-> FALSE, consent |-> FALSE, audio |-> 0, epoch |-> 0,
               starting |-> 0, button |-> TRUE]
    /\ start = [a \in Starts |-> NoStart]
    /\ upsets = 0

(* participantAudioStartAllowed *)
Allowed(p) == ~p.over /\ p.room \notin {"closing", "closed"}
(* updateParticipantConsentControls *)
CanStart(p) == ~p.over /\ p.audio = 0
Current(a) == page.epoch = start[a].epoch /\ Allowed(page)

Captures(p, s) == s.running /\ s.track = "live" /\ ~s.muted /\ s.enabled /\ p.room # "paused"

(* sendParticipantReadiness and sendParticipantStoppedReadiness *)
Tell(s) == IF ~s.connected THEN s
           ELSE [s EXCEPT !.told = IF s.ready THEN "active" ELSE "stopped"]

(* updateParticipantCaptureReadiness, of the audio the page has. *)
Update(p, a, s, active) ==
    IF p.audio # a \/ p.epoch # s.epoch THEN s
    ELSE Tell([s EXCEPT !.ready = active /\ Captures(p, s)])

----------------------------------------------------------------------------
(* stopParticipantAudio: an audio is told of as stopped, taken from the    *)
(* page and disconnected; its tracks follow once the wake lock is          *)
(* released.  Without an audio, the socket of a start that waits for it is *)
(* given up.                                                               *)
Stopped(p) == [p EXCEPT !.audio = 0, !.starting = 0, !.epoch = @ + 1, !.button = CanStart([p EXCEPT !.audio = 0])]
StoppedStart(p, a) ==
    CASE p.audio = a -> [start[a] EXCEPT !.told = "stopped", !.ready = FALSE, !.connected = FALSE,
                             !.desired = FALSE, !.stop = "asked"]
      [] p.audio = 0 /\ p.starting = a -> [start[a] EXCEPT !.desired = FALSE]
      [] OTHER -> start[a]

StopAs(p) ==
    /\ page' = Stopped(p)
    /\ start' = [a \in Starts |-> StoppedStart(p, a)]

ReleaseTracks(a) ==
    /\ start[a].stop = "asked"
    /\ start' = [start EXCEPT ![a].stop = "done", ![a].track = "stopped", ![a].running = FALSE]
    /\ UNCHANGED <<page, upsets>>

(* A start that fails releases what it holds. *)
Fail(a) ==
    /\ page' = [page EXCEPT !.audio = 0, !.starting = 0, !.button = CanStart([page EXCEPT !.audio = 0])]
    /\ start' = [start EXCEPT ![a] = [NoStart EXCEPT !.at = "failed", !.epoch = start[a].epoch,
                     !.stop = start[a].stop,
                     !.track = IF start[a].track = "none" THEN "none" ELSE "stopped"]]

(* startParticipantAudio, from the click.  A button that is loading takes  *)
(* no click of the pointer (web/styles.css, 550-553).                      *)
Click(a) ==
    /\ start[a].at = "new" /\ \A b \in Starts : b < a => start[b].at # "new"
    /\ page.button /\ page.audio = 0 /\ Allowed(page)
    /\ Keyboard \/ \A b \in Starts : start[b].at \notin UnderWay
    /\ start' = [start EXCEPT ![a].at = "consent", ![a].epoch = page.epoch]
    /\ page' = [page EXCEPT !.button = FALSE]
    /\ UNCHANGED upsets

(* Every wait may fail, and may find that the session has closed. *)
WaitFails(a) ==
    /\ start[a].at \in {"consent", "mic", "worklets", "socket", "resume"}
    /\ upsets < MaxUpsets /\ upsets' = upsets + 1
    /\ Fail(a)

Consented(a) ==
    /\ start[a].at = "consent"
    /\ IF Current(a) THEN /\ start' = [start EXCEPT ![a].at = "mic"]
                          /\ page' = [page EXCEPT !.consent = TRUE, !.button = FALSE]
                     ELSE Fail(a)
    /\ UNCHANGED upsets

MicrophoneOpens(a) ==
    /\ start[a].at = "mic"
    /\ IF Current(a) THEN /\ start' = [start EXCEPT ![a].at = "worklets", ![a].track = "live"]
                          /\ UNCHANGED page
                     ELSE Fail(a)
    /\ UNCHANGED upsets

WorkletsLoad(a) ==
    /\ start[a].at = "worklets"
    /\ start' = [start EXCEPT ![a].at = "socket", ![a].desired = TRUE]
    /\ page' = [page EXCEPT !.starting = a]
    /\ UNCHANGED upsets

\* Mutant of SocketOpens: the session is not looked at again.
SocketOpensLate(a) ==
    /\ start[a].at = "socket"
    /\ start' = [start EXCEPT ![a].at = "resume", ![a].epoch = page.epoch + 1, ![a].connected = TRUE,
                              ![a].running = TRUE]
    /\ page' = [page EXCEPT !.epoch = @ + 1, !.audio = a, !.starting = 0]
    /\ UNCHANGED upsets

(* The socket is there, unless it was given up: the audio is the page's. *)
SocketOpens(a) ==
    /\ start[a].at = "socket"
    /\ IF Current(a) /\ start[a].desired
       THEN /\ start' = [start EXCEPT ![a].at = "resume", ![a].epoch = page.epoch + 1,
                                      ![a].connected = TRUE, ![a].running = TRUE]
            /\ page' = [page EXCEPT !.epoch = @ + 1, !.audio = a, !.starting = 0]
       ELSE Fail(a)
    /\ UNCHANGED upsets

(* The context runs; an audio that does not capture is no audio. *)
Resumes(a) ==
    /\ start[a].at = "resume"
    /\ LET s == Update(page, a, start[a], TRUE)
       IN  IF s.ready THEN /\ start' = [start EXCEPT ![a] = [s EXCEPT !.at = "wake"]]
                           /\ UNCHANGED page
                      ELSE Fail(a)
    /\ UNCHANGED upsets

(* The wake lock is optional. *)
WakeLocks(a) ==
    /\ start[a].at = "wake"
    /\ start' = [start EXCEPT ![a].at = "done"]
    /\ page' = [page EXCEPT !.button = TRUE]
    /\ UNCHANGED upsets

UserStops ==
    /\ page.audio # 0 /\ start[page.audio].at = "done"
    /\ StopAs(page) /\ UNCHANGED upsets

----------------------------------------------------------------------------
(* The event stream: the consent, and the state of the session.            *)
HearConsent ==
    /\ page.consent
    /\ page' = [page EXCEPT !.button = CanStart(page)]
    /\ UNCHANGED <<start, upsets>>

Follows == [waiting |-> {"ready", "closing"}, ready |-> {"waiting", "active", "closing"},
            active |-> {"paused", "waiting", "closing"}, paused |-> {"active", "waiting", "closing"},
            closing |-> {"closed"}, closed |-> {}]

(* updateRoomState: a pause disables the track and a resume enables it;    *)
(* the end of the session stops the audio.                                 *)
HearRoom(room) ==
    /\ room \in Follows[page.room] /\ ~page.over
    /\ LET p == [page EXCEPT !.room = room, !.over = room = "closed"]
           a == page.audio
       IN  CASE room \in {"closing", "closed"} -> StopAs(p)
             [] room = "active" /\ page.room = "paused" /\ a # 0 ->
                    /\ page' = p
                    /\ start' = [start EXCEPT ![a] = Update(p, a, [@ EXCEPT !.enabled = TRUE], TRUE)]
             [] room = "paused" /\ a # 0 ->
                    /\ page' = p
                    /\ start' = [start EXCEPT ![a] = Update(p, a, [@ EXCEPT !.enabled = FALSE], FALSE)]
             [] OTHER -> page' = p /\ UNCHANGED start
    /\ UNCHANGED upsets

(* A withdrawal that is accepted ends the session on the page. *)
Withdraw ==
    /\ page.consent /\ ~page.over
    /\ StopAs([page EXCEPT !.consent = FALSE, !.room = "closed", !.over = TRUE])
    /\ UNCHANGED upsets

(* recoverFromEventHistoryGap *)
HistoryGap ==
    /\ ~page.over
    /\ StopAs([page EXCEPT !.over = TRUE]) /\ UNCHANGED upsets

\* Mutant of Mute: only the end of a track is listened to.
MuteUnheard(a) ==
    /\ start[a].track = "live" /\ ~start[a].muted /\ upsets < MaxUpsets
    /\ start' = [start EXCEPT ![a].muted = TRUE]
    /\ upsets' = upsets + 1 /\ UNCHANGED page

(* The listeners of the audio: the microphone, and the context. *)
Mute(a) ==
    /\ page.audio = a /\ ~start[a].muted /\ upsets < MaxUpsets
    /\ start' = [start EXCEPT ![a] = Update(page, a, [@ EXCEPT !.muted = TRUE], FALSE)]
    /\ upsets' = upsets + 1 /\ UNCHANGED page

Unmute(a) ==
    /\ page.audio = a /\ start[a].muted
    /\ start' = [start EXCEPT ![a] = Update(page, a, [@ EXCEPT !.muted = FALSE], TRUE)]
    /\ UNCHANGED <<page, upsets>>

Suspend(a) ==
    /\ page.audio = a /\ start[a].running /\ upsets < MaxUpsets
    /\ start' = [start EXCEPT ![a] = Update(page, a, [@ EXCEPT !.running = FALSE], FALSE)]
    /\ upsets' = upsets + 1 /\ UNCHANGED page

Run(a) ==
    /\ page.audio = a /\ ~start[a].running
    /\ start' = [start EXCEPT ![a] = Update(page, a, [@ EXCEPT !.running = TRUE], TRUE)]
    /\ UNCHANGED <<page, upsets>>

LoseSocket(a) ==
    /\ page.audio = a /\ start[a].connected /\ upsets < MaxUpsets
    /\ start' = [start EXCEPT ![a].connected = FALSE, ![a].told = "nothing"]
    /\ upsets' = upsets + 1 /\ UNCHANGED page

(* onOpen of the supervisor *)
SocketReopens(a) ==
    /\ page.audio = a /\ ~start[a].connected
    /\ start' = [start EXCEPT ![a] = Tell([@ EXCEPT !.connected = TRUE])]
    /\ UNCHANGED <<page, upsets>>

Proceed(a) ==
    \/ Consented(a) \/ MicrophoneOpens(a) \/ WorkletsLoad(a) \/ SocketOpens(a)
    \/ Resumes(a) \/ WakeLocks(a) \/ ReleaseTracks(a)

Next ==
    \/ \E a \in Starts :
           \/ Click(a) \/ WaitFails(a) \/ Proceed(a)
           \/ Mute(a) \/ Unmute(a) \/ Suspend(a) \/ Run(a) \/ LoseSocket(a) \/ SocketReopens(a)
    \/ UserStops \/ HearConsent \/ Withdraw \/ HistoryGap
    \/ \E room \in DOMAIN Follows : HearRoom(room)

(* The browser answers what a start waits for, and the wake lock is        *)
(* released.                                                               *)
Fairness == WF_vars(\E a \in Starts : Proceed(a))

Spec == Init /\ [][Next]_vars /\ Fairness

----------------------------------------------------------------------------
TypeOK ==
    /\ page.audio \in {0} \cup Starts /\ page.room \in DOMAIN Follows
    /\ \A a \in Starts : /\ start[a].at \in UnderWay \cup {"new", "done", "failed"}
                         /\ start[a].track \in {"none", "live", "stopped"}
                         /\ start[a].told \in {"nothing", "active", "stopped"}

(* The server is told of an active capture only while the microphone of    *)
(* the page is live, not muted, enabled, in a context that runs, in a      *)
(* session that is not paused, whatever of these changed while the socket  *)
(* was away (updateParticipantCaptureReadiness, onOpen).                   *)
ReadinessIsTrue ==
    \A a \in Starts : page.audio = a /\ start[a].told = "active" => Captures(page, start[a])

(* Once the session is over for the page, by its close, a withdrawal or a  *)
(* gap, no microphone stays on, at whatever point of a start that comes    *)
(* (startParticipantAudio, stopParticipantAudio).                          *)
MicrophoneGoesOff == <>[](page.over => \A a \in Starts : start[a].track # "live")

(* A microphone that is on belongs to the audio of the page, which a stop  *)
(* finds, or to a start or a stop that is under way (web/app.js,           *)
(* 2921-2933).                                                             *)
MicrophoneIsOwned ==
    \A a \in Starts : start[a].track = "live" =>
        page.audio = a \/ start[a].stop = "asked" \/ (start[a].at \in UnderWay /\ start[a].stop = "no")

(* A capture that a pause has stopped goes on when the session is no       *)
(* longer paused (updateRoomState).                                        *)
CaptureComesBack ==
    \A a \in Starts :
        page.audio = a /\ start[a].at = "done" /\ page.room \notin {"paused", "closing", "closed"}
            /\ start[a].track = "live" /\ ~start[a].muted /\ start[a].running
            => start[a].ready
=============================================================================
