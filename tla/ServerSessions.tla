--------------------------- MODULE ServerSessions ---------------------------
(***************************************************************************)
(* The sessions a server admits and the glossary version they pin: the     *)
(* request that opens a session, the managed relay with its slots, its     *)
(* observers and its shutdown (src/composition.ts), the leases the server  *)
(* keeps for its sessions (src/server/app.ts), and the repository that     *)
(* counts leases in memory and deletes a version in durable steps          *)
(* (src/adapters/glossary/file-repository.ts).  The process may crash.     *)
(***************************************************************************)
EXTENDS Integers, FiniteSets

CONSTANTS
    Session,        \* one request to open a session for each
    Command,        \* deletion commands of the retention owner
    MaxActive,      \* slots of the managed relay
    MaxCrashes      \* bound

VARIABLES
    stage,      \* of the process: starting, up, relay, drain, leases, root, down
    request,    \* of a session: where its request stands
    status,     \* of a session in the relay: none, open or closed
    managed,    \* the managed relay
    lease,      \* of a session: none, held by its request, attached or released
    releasing,  \* of a session: who is releasing its lease
    disk,       \* the version and its deletion receipt
    memory,     \* leases counted, deletion under way, import under way
    ghost       \* deletions answered, sessions a shutdown has to end, crashes

vars == <<stage, request, status, managed, lease, releasing, disk, memory, ghost>>
relayVars == <<status, managed>>
leaseVars == <<lease, releasing>>

NoCommand == "none"
Receipt(s, c) == [status |-> s, command |-> c]
NoSlots == [active |-> {}, opening |-> {}, ending |-> {}, watched |-> {},
            closing |-> "no", failed |-> FALSE]
NoMemory == [count |-> 0, step |-> "idle", by |-> NoCommand, import |-> "none"]

Init ==
    /\ stage = "up"
    /\ request = [s \in Session |-> "idle"] /\ status = [s \in Session |-> "none"]
    /\ managed = NoSlots
    /\ lease = [s \in Session |-> "none"] /\ releasing = [s \in Session |-> {}]
    /\ disk = [file |-> TRUE, receipt |-> Receipt("none", NoCommand)]
    /\ memory = NoMemory
    /\ ghost = [answered |-> {}, due |-> {}, crashes |-> 0]

(* The listener closes between the two hooks of a shutdown. *)
Listening == stage \in {"up", "relay"}

(* Every operation on the version waits for the one under way. *)
Unlocked == memory.step = "idle"
Count(n) == memory' = [memory EXCEPT !.count = @ + n]

----------------------------------------------------------------------------
(* The repository.                                                         *)

Deleted == disk.receipt.status # "none"

(* import: a version that has a deletion receipt is not written again. *)
Import ==
    /\ Listening /\ Unlocked /\ memory.import = "none" /\ ~Deleted
    /\ disk' = [disk EXCEPT !.file = TRUE]
    /\ memory' = [memory EXCEPT !.import = "written"]
    /\ UNCHANGED <<stage, request, relayVars, leaseVars, ghost>>

(* The registry reads what it imported through a lease of its own. *)
ImportRead ==
    /\ Unlocked
    /\ \/ /\ memory.import = "written"
          /\ memory' = IF Deleted THEN [memory EXCEPT !.import = "none"]
                       ELSE [memory EXCEPT !.import = "leased", !.count = @ + 1]
       \/ /\ memory.import = "leased"
          /\ memory' = [memory EXCEPT !.import = "none", !.count = @ - 1]
    /\ UNCHANGED <<stage, request, relayVars, leaseVars, disk, ghost>>

(* delete: a leased version stays; the receipt goes first.  A command that *)
(* comes again takes its own deletion further, another one conflicts.      *)
DeleteVersion(c) ==
    /\ Listening /\ Unlocked
    /\ \/ /\ ~Deleted /\ disk.file /\ memory.count = 0
          /\ disk' = [disk EXCEPT !.receipt = Receipt("pending", c)]
       \/ disk.receipt = Receipt("pending", c) /\ UNCHANGED disk
    /\ memory' = [memory EXCEPT !.step = "remove", !.by = c]
    /\ UNCHANGED <<stage, request, relayVars, leaseVars, ghost>>

(* completePendingDeletion; either of its two writes may fail. *)
RemoveArtifact ==
    /\ memory.step = "remove"
    /\ disk' = [disk EXCEPT !.file = FALSE]
    /\ memory' = [memory EXCEPT !.step = "complete"]
    /\ UNCHANGED <<stage, request, relayVars, leaseVars, ghost>>

CompleteReceipt ==
    /\ memory.step = "complete"
    /\ disk' = [disk EXCEPT !.receipt.status = "completed"]
    /\ memory' = [memory EXCEPT !.step = "idle", !.by = NoCommand]
    /\ ghost' = [ghost EXCEPT !.answered = @ \cup ({memory.by} \ {NoCommand})]
    /\ UNCHANGED <<stage, request, relayVars, leaseVars>>

(* A deletion that fails while the server starts keeps it from starting.   *)
DeletionFails ==
    /\ ~Unlocked
    /\ stage' = IF stage = "starting" THEN "down" ELSE stage
    /\ memory' = [memory EXCEPT !.step = "idle", !.by = NoCommand]
    /\ UNCHANGED <<request, relayVars, leaseVars, disk, ghost>>

----------------------------------------------------------------------------
(* A request to open a session.                                            *)

(* acquire: under the lock of the version, a receipt or no file is a 404.  *)
Acquire(s) ==
    /\ Listening /\ request[s] = "idle" /\ Unlocked
    /\ \/ /\ disk.file /\ ~Deleted
          /\ Count(1)
          /\ lease' = [lease EXCEPT ![s] = "request"]
          /\ request' = [request EXCEPT ![s] = "leased"]
       \/ /\ ~disk.file \/ Deleted
          /\ request' = [request EXCEPT ![s] = "refused"] /\ UNCHANGED <<memory, lease>>
    /\ UNCHANGED <<stage, relayVars, releasing, disk, ghost>>

(* open: behind a shutdown that is under way, and if a slot is free. *)
Reserve(s) ==
    /\ request[s] = "leased" /\ managed.closing = "no"
    /\ \/ /\ Cardinality(managed.active) + Cardinality(managed.opening) < MaxActive
          /\ managed' = [managed EXCEPT !.opening = @ \cup {s}]
          /\ request' = [request EXCEPT ![s] = "opening"]
       \/ /\ Cardinality(managed.active) + Cardinality(managed.opening) >= MaxActive
          /\ request' = [request EXCEPT ![s] = "returning"] /\ UNCHANGED managed
    /\ UNCHANGED <<stage, status, leaseVars, disk, memory, ghost>>

(* The relay behind it opens the session, opens one that its evidence      *)
(* closed at once, or does not open it.                                    *)
Open(s) ==
    /\ request[s] = "opening"
    /\ \/ /\ status' = [status EXCEPT ![s] = "open"]
          /\ managed' = [managed EXCEPT !.opening = @ \ {s}, !.active = @ \cup {s},
                                        !.watched = @ \cup {s}]
          /\ request' = [request EXCEPT ![s] = "opened"]
       \/ /\ status' = [status EXCEPT ![s] = "closed"]
          /\ managed' = [managed EXCEPT !.opening = @ \ {s}]
          /\ request' = [request EXCEPT ![s] = "opened"]
       \/ /\ managed' = [managed EXCEPT !.opening = @ \ {s}]
          /\ request' = [request EXCEPT ![s] = "returning"] /\ UNCHANGED status
    /\ UNCHANGED <<stage, leaseVars, disk, memory, ghost>>

(* A session that was not opened gives its lease back. *)
ReturnLease(s) ==
    /\ request[s] = "returning" /\ Unlocked
    /\ Count(-1)
    /\ lease' = [lease EXCEPT ![s] = "released"]
    /\ request' = [request EXCEPT ![s] = "refused"]
    /\ UNCHANGED <<stage, relayVars, releasing, disk, ghost>>

AttachLease(s) ==
    /\ request[s] = "opened"
    /\ lease' = [lease EXCEPT ![s] = "attached"]
    /\ request' = [request EXCEPT ![s] = "done"]
    /\ UNCHANGED <<stage, relayVars, releasing, disk, memory, ghost>>

----------------------------------------------------------------------------
(* A session ends.                                                         *)

(* On its own: consent withdrawn, evidence or media failed. *)
CloseItself(s) ==
    /\ status[s] = "open"
    /\ status' = [status EXCEPT ![s] = "closed"]
    /\ UNCHANGED <<stage, request, managed, leaseVars, disk, memory, ghost>>

(* The observer of the managed relay returns the slot. *)
ObserveClosed(s) ==
    /\ s \in managed.watched /\ status[s] = "closed"
    /\ managed' = [managed EXCEPT !.active = @ \ {s}, !.watched = @ \ {s}]
    /\ UNCHANGED <<stage, request, status, leaseVars, disk, memory, ghost>>

(* An end of the operator; another one joins the one under way. *)
EndCommand(s) ==
    /\ Listening /\ request[s] = "done" /\ s \notin managed.ending
    /\ managed' = [managed EXCEPT !.ending = @ \cup {s}]
    /\ UNCHANGED <<stage, request, status, leaseVars, disk, memory, ghost>>

\* Mutant of EndResolves: the slot is left to an observer that is stopped.
EndResolvesSlotless(s) ==
    /\ s \in managed.ending
    /\ status' = [status EXCEPT ![s] = "closed"]
    /\ managed' = [managed EXCEPT !.ending = @ \ {s}, !.watched = @ \ {s}]
    /\ UNCHANGED <<stage, request, leaseVars, disk, memory, ghost>>

EndResolves(s) ==
    /\ s \in managed.ending
    /\ status' = [status EXCEPT ![s] = "closed"]
    /\ managed' = [managed EXCEPT !.ending = @ \ {s}, !.active = @ \ {s}, !.watched = @ \ {s}]
    /\ UNCHANGED <<stage, request, leaseVars, disk, memory, ghost>>

EndFails(s) ==
    /\ s \in managed.ending /\ status[s] = "open"
    /\ managed' = [managed EXCEPT !.ending = @ \ {s}, !.failed = @ \/ managed.closing = "ends"]
    /\ UNCHANGED <<stage, request, status, leaseVars, disk, memory, ghost>>

(* The watcher of the lease, an event socket and the command that ended    *)
(* the session each release the lease once they saw the session closed.    *)
StartRelease(s, who) ==
    /\ lease[s] = "attached" /\ status[s] = "closed"
    /\ releasing' = [releasing EXCEPT ![s] = @ \cup {who}]
    /\ releasing' # releasing
    /\ UNCHANGED <<stage, request, relayVars, lease, disk, memory, ghost>>

\* Mutant of FinishRelease: a lease counts down for everybody who releases it.
FinishReleaseAgain(s, who) ==
    /\ who \in releasing[s] /\ Unlocked
    /\ Count(-1)
    /\ lease' = [lease EXCEPT ![s] = "released"]
    /\ releasing' = [releasing EXCEPT ![s] = @ \ {who}]
    /\ UNCHANGED <<stage, request, relayVars, disk, ghost>>

(* release of a lease: once, under the lock of the version. *)
FinishRelease(s, who) ==
    /\ who \in releasing[s] /\ Unlocked
    /\ IF lease[s] = "released" THEN UNCHANGED memory ELSE Count(-1)
    /\ lease' = [lease EXCEPT ![s] = "released"]
    /\ releasing' = [releasing EXCEPT ![s] = @ \ {who}]
    /\ UNCHANGED <<stage, request, relayVars, disk, ghost>>

----------------------------------------------------------------------------
(* Shutdown, crash and restart.                                            *)

(* The hooks run in the reverse order of their registration: the managed   *)
(* relay, the listener with its requests, the leases and the root.         *)
Stop ==
    /\ stage = "up"
    /\ stage' = "relay"
    /\ managed' = [managed EXCEPT !.closing = "openings"]
    /\ ghost' = [ghost EXCEPT !.due = managed.active \cup managed.opening]
    /\ UNCHANGED <<request, status, leaseVars, disk, memory>>

\* Mutant of CloseOpenings: what is just opening is not waited for.
CloseAtOnce ==
    /\ managed.closing = "openings"
    /\ managed' = [managed EXCEPT !.closing = "ends", !.failed = FALSE,
                                  !.ending = @ \cup managed.active]
    /\ UNCHANGED <<stage, request, status, leaseVars, disk, memory, ghost>>

(* closeSessions: what was just opening is waited for, then every active   *)
(* session is ended and every end waited for.                              *)
CloseOpenings ==
    /\ managed.closing = "openings" /\ managed.opening = {}
    /\ managed' = [managed EXCEPT !.closing = "ends", !.failed = FALSE,
                                  !.ending = @ \cup managed.active]
    /\ UNCHANGED <<stage, request, status, leaseVars, disk, memory, ghost>>

(* A close that failed refuses the requests that wait for it. *)
CloseEnds ==
    /\ managed.closing = "ends" /\ managed.ending = {}
    /\ managed' = [managed EXCEPT !.closing = "no"]
    /\ stage' = "drain"
    /\ \E refused \in SUBSET {s \in Session : managed.failed /\ request[s] = "leased"} :
           request' = [s \in Session |-> IF s \in refused THEN "returning" ELSE request[s]]
    /\ UNCHANGED <<status, leaseVars, disk, memory, ghost>>

(* The listener is closed and its requests are over. *)
Drained ==
    /\ stage = "drain" /\ managed.ending = {} /\ Unlocked /\ memory.import = "none"
    /\ \A s \in Session : request[s] \in {"idle", "done", "refused"}
    /\ stage' = "leases"
    /\ UNCHANGED <<request, relayVars, leaseVars, disk, memory, ghost>>

(* releaseAllGlossaryLeases, then the root, which stays leased with a      *)
(* version that is.                                                        *)
ReleaseAll ==
    /\ stage = "leases"
    /\ releasing' = [s \in Session |-> IF lease[s] = "attached" THEN releasing[s] \cup {"stop"}
                                       ELSE releasing[s]]
    /\ stage' = "root"
    /\ UNCHANGED <<request, relayVars, lease, disk, memory, ghost>>

ReleaseRoot ==
    /\ stage = "root" /\ \A s \in Session : "stop" \notin releasing[s]
    /\ memory.count = 0
    /\ stage' = "down"
    /\ UNCHANGED <<request, relayVars, leaseVars, disk, memory, ghost>>

Forgotten ==
    /\ request' = [s \in Session |-> IF request[s] = "idle" THEN "idle" ELSE "refused"]
    /\ status' = [s \in Session |-> "none"]
    /\ managed' = NoSlots
    /\ lease' = [s \in Session |-> "none"] /\ releasing' = [s \in Session |-> {}]

Crash ==
    /\ stage # "down" /\ ghost.crashes < MaxCrashes
    /\ stage' = "down" /\ Forgotten /\ memory' = NoMemory
    /\ ghost' = [ghost EXCEPT !.crashes = @ + 1, !.due = {}]
    /\ UNCHANGED disk

(* The root is leased again, and a pending deletion is completed before    *)
(* the server listens.                                                     *)
Restart ==
    /\ stage = "down"
    /\ stage' = "starting"
    /\ Forgotten
    /\ memory' = [NoMemory EXCEPT
                      !.step = IF disk.receipt.status = "pending" THEN "remove" ELSE "idle"]
    /\ ghost' = [ghost EXCEPT !.due = {}]
    /\ UNCHANGED disk

Listen ==
    /\ stage = "starting" /\ Unlocked
    /\ stage' = "up"
    /\ UNCHANGED <<request, relayVars, leaseVars, disk, memory, ghost>>

----------------------------------------------------------------------------
Releaser == {"watcher", "command", "stop"}

Next ==
    \/ Import \/ ImportRead \/ RemoveArtifact \/ CompleteReceipt \/ DeletionFails
    \/ \E c \in Command : DeleteVersion(c)
    \/ \E s \in Session :
          \/ Acquire(s) \/ Reserve(s) \/ Open(s) \/ ReturnLease(s) \/ AttachLease(s)
          \/ CloseItself(s) \/ ObserveClosed(s)
          \/ EndCommand(s) \/ EndResolves(s) \/ EndFails(s)
          \/ \E who \in {"watcher", "command"} : StartRelease(s, who)
          \/ \E who \in Releaser : FinishRelease(s, who)
    \/ Stop \/ CloseOpenings \/ CloseEnds \/ Drained \/ ReleaseAll \/ ReleaseRoot
    \/ Crash \/ Restart \/ Listen

(* The event loop runs what is ready: requests that were begun, observers  *)
(* of an event stream and what waits for the lock of the version.          *)
Progress ==
    \E s \in Session :
        \/ Reserve(s) \/ ReturnLease(s) \/ AttachLease(s)
        \/ ObserveClosed(s) \/ StartRelease(s, "watcher")
        \/ \E who \in Releaser : FinishRelease(s, who)

Fairness == WF_vars(Progress)

Spec == Init /\ [][Next]_vars /\ Fairness

----------------------------------------------------------------------------
(* Properties.                                                             *)

Request == {"idle", "leased", "opening", "opened", "returning", "done", "refused"}

TypeOK ==
    /\ stage \in {"starting", "up", "relay", "drain", "leases", "root", "down"}
    /\ request \in [Session -> Request]
    /\ status \in [Session -> {"none", "open", "closed"}]
    /\ managed \in [active : SUBSET Session, opening : SUBSET Session,
                    ending : SUBSET Session, watched : SUBSET Session,
                    closing : {"no", "openings", "ends"}, failed : BOOLEAN]
    /\ lease \in [Session -> {"none", "request", "attached", "released"}]
    /\ releasing \in [Session -> SUBSET Releaser]
    /\ disk \in [file : BOOLEAN, receipt : [status : {"none", "pending", "completed"},
                                           command : Command \cup {NoCommand}]]
    /\ memory \in [count : Nat, step : {"idle", "remove", "complete"},
                   by : Command \cup {NoCommand}, import : {"none", "written", "leased"}]
    /\ ghost \in [answered : SUBSET Command, due : SUBSET Session, crashes : Nat]

(* The version a session was opened with is there, and no deletion of it   *)
(* has begun, for as long as the session is open.                          *)
PinnedIsKept == \A s \in Session : status[s] = "open" => disk.file /\ ~Deleted

(* A deletion that was answered is one command's, and final: no import, no *)
(* crash between its writes and no other command brings the version back.  *)
DeletedStaysGone ==
    disk.receipt.status = "completed" \/ ghost.answered # {} =>
        /\ ~disk.file /\ disk.receipt.status = "completed"
        /\ ghost.answered \subseteq {disk.receipt.command}

(* What a session pinned is kept, and what was deleted stays gone. *)
VersionHolds == TypeOK /\ PinnedIsKept /\ DeletedStaysGone

(* When the managed relay reported no failure, every session it had opened *)
(* or was opening when the shutdown began has ended.                       *)
ShutdownEnds ==
    stage \in {"drain", "leases", "root"} /\ ~managed.failed =>
        \A s \in ghost.due : status[s] # "open"

(* A session that closed, however it did, gives back its slot and its      *)
(* lease, unless the process stops first.                                  *)
ClosedReturns ==
    \A s \in Session :
        status[s] = "closed" ~>
            \/ s \notin managed.active \cup managed.opening
               /\ lease[s] \notin {"request", "attached"}
            \/ stage = "down"
=============================================================================
