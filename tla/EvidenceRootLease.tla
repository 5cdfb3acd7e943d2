------------------------- MODULE EvidenceRootLease -------------------------
(***************************************************************************)
(* The lease of a process on the roots of the evidence store.  A lease is  *)
(* a marker file that is linked into place whole.  The marker of a dead    *)
(* process is reclaimed under a claim, itself a marker, whose name is made *)
(* from the exact marker it is for; claims of dead processes are reclaimed *)
(* the same way.  Under its lease a process runs operations, and gives the *)
(* lease back once they have drained.                                      *)
(* (src/adapters/evidence/session-artifact-store.ts)                       *)
(***************************************************************************)
EXTENDS Integers, Sequences, SequencesExt

CONSTANTS
    Processes,
    MaxMarkers,     \* bound on the markers that are ever made
    MaxOperations,  \* bound on the operations a process has open
    MaxReclaims     \* how often the takeover of a claim may be repeated

VARIABLES
    alive,          \* processes that the operating system knows
    files,          \* marker at each path, a partial function
    made,           \* markers made so far
    proc            \* what each process is doing

vars == <<alive, files, made, proc>>

NoMarker == [owner |-> "none", n |-> 0]

(* The lease is at the empty path; a claim for the marker m at path s is   *)
(* at Append(s, m).                                                        *)
LeasePath == <<>>

At(path) == IF path \in DOMAIN files THEN files[path] ELSE NoMarker
Put(path, m) == [s \in DOMAIN files \cup {path} |-> IF s = path THEN m ELSE files[s]]
Without(path) == [s \in DOMAIN files \ {path} |-> files[s]]

(* A process that tries to take the lease, with its place in the recursion *)
(* of the reclaim: the calls above it and the marker it looked at.         *)
Free == [pc |-> "free", again |-> FALSE, path |-> LeasePath, snap |-> NoMarker,
         claim |-> NoMarker, callers |-> <<>>, depth |-> 0, taken |-> FALSE,
         lock |-> NoMarker, closing |-> FALSE, entering |-> 0, running |-> 0]

Init ==
    /\ alive = Processes
    /\ files = [s \in {} |-> NoMarker]
    /\ made = 0
    /\ proc = [p \in Processes |-> Free]

Stale(m) == m.owner \notin alive

Step(p, from) == p \in alive /\ proc[p].pc = from
Becomes(p, r) == proc' = [proc EXCEPT ![p] = r]
Goto(p, pc) == proc' = [proc EXCEPT ![p].pc = pc]

New(p) == [owner |-> p, n |-> made + 1]
CanMake == made < MaxMarkers /\ made' = made + 1

(* A marker is removed only by the process that made it. *)
RemoveOwn(path, m) == files' = IF At(path) = m THEN Without(path) ELSE files

----------------------------------------------------------------------------
(* Acquisition.                                                            *)

(* Nothing is touched while the lease of a live process can be read. *)
Acquire(p) ==
    /\ Step(p, "free")
    /\ At(LeasePath) = NoMarker \/ Stale(At(LeasePath))
    /\ Becomes(p, [Free EXCEPT !.pc = "create"])
    /\ UNCHANGED <<alive, files, made>>

(* The marker is linked, which fails when there is one already; only the   *)
(* first attempt tries to reclaim.                                         *)
CreateLease(p) ==
    /\ Step(p, "create")
    /\ IF At(LeasePath) = NoMarker
       THEN /\ CanMake
            /\ files' = Put(LeasePath, New(p))
            /\ proc' = [proc EXCEPT ![p].pc = "sync", ![p].lock = New(p)]
       ELSE /\ Goto(p, IF proc[p].again THEN "free" ELSE "snapshot")
            /\ UNCHANGED <<files, made>>
    /\ UNCHANGED alive

(* The link becomes durable and the lease is held, or it is taken back. *)
SyncLease(p) ==
    /\ Step(p, "sync")
    /\ \/ Becomes(p, [Free EXCEPT !.pc = "held", !.lock = proc[p].lock]) /\ UNCHANGED files
       \/ RemoveOwn(LeasePath, proc[p].lock) /\ Becomes(p, Free)
    /\ UNCHANGED <<alive, made>>

----------------------------------------------------------------------------
(* Reclaim of the marker of a dead process.                                *)

(* A call returns: a claim that was taken over is tried again, and the     *)
(* outermost call lets the process try to create its lease once more.      *)
Return(p, result) ==
    LET r == proc[p]
    IN  IF r.callers = <<>>
        THEN Becomes(p, IF result THEN [Free EXCEPT !.pc = "create", !.again = TRUE] ELSE Free)
        ELSE IF result
        THEN Becomes(p, [r EXCEPT !.pc = "snapshot", !.path = Last(r.callers).path,
                                  !.depth = Last(r.callers).depth, !.callers = Front(@)])
        ELSE Becomes(p, Free)

ReadSnapshot(p) ==
    /\ Step(p, "snapshot")
    /\ LET m == At(proc[p].path)
       IN  CASE m = NoMarker -> Return(p, TRUE)
             [] m # NoMarker /\ ~Stale(m) -> Return(p, FALSE)
             [] OTHER -> proc' = [proc EXCEPT ![p].pc = "claim", ![p].snap = m]
    /\ UNCHANGED <<alive, files, made>>

ClaimPath(p) == Append(proc[p].path, proc[p].snap)

(* The claim is made, or that of a dead reclaimer is reclaimed first. *)
ClaimMarker(p) ==
    /\ Step(p, "claim")
    /\ IF At(ClaimPath(p)) = NoMarker
       THEN /\ CanMake
            /\ files' = Put(ClaimPath(p), New(p))
            /\ proc' = [proc EXCEPT ![p].pc = "recheck", ![p].claim = New(p)]
       ELSE /\ UNCHANGED <<files, made>>
            /\ IF proc[p].depth >= MaxReclaims
               THEN Return(p, FALSE)
               ELSE proc' = [proc EXCEPT ![p].pc = "snapshot", ![p].path = ClaimPath(p),
                                 ![p].depth = @ + 1,
                                 ![p].callers = Append(@, [path |-> proc[p].path,
                                                           depth |-> proc[p].depth + 1])]
    /\ UNCHANGED alive

(* Under the claim the marker is read again; only the same one is removed. *)
RecheckMarker(p) ==
    /\ Step(p, "recheck")
    /\ LET m == At(proc[p].path)
       IN  proc' = [proc EXCEPT ![p].taken = m = NoMarker,
                        ![p].pc = IF m = proc[p].snap THEN "unlink" ELSE "release"]
    /\ UNCHANGED <<alive, files, made>>

(* Whatever is at the path by now is removed. *)
UnlinkMarker(p) ==
    /\ Step(p, "unlink")
    /\ files' = Without(proc[p].path)
    /\ proc' = [proc EXCEPT ![p].taken = TRUE, ![p].pc = "release"]
    /\ UNCHANGED <<alive, made>>

ReleaseClaim(p) ==
    /\ Step(p, "release")
    /\ RemoveOwn(ClaimPath(p), proc[p].claim)
    /\ Return(p, proc[p].taken)
    /\ UNCHANGED <<alive, made>>

----------------------------------------------------------------------------
(* Operations under the lease, and its release.                            *)

(* An operation is counted before its admission can yield. *)
BeginOperation(p) ==
    /\ Step(p, "held") /\ ~proc[p].closing
    /\ proc[p].entering + proc[p].running < MaxOperations
    /\ proc' = [proc EXCEPT ![p].entering = @ + 1]
    /\ UNCHANGED <<alive, files, made>>

(* It is admitted when the marker is the one of this lease. *)
VerifyOperation(p) ==
    /\ p \in alive /\ proc[p].entering > 0
    /\ LET admitted == At(LeasePath) = proc[p].lock /\ ~proc[p].closing
       IN  proc' = [proc EXCEPT ![p].entering = @ - 1,
                        ![p].running = IF admitted THEN @ + 1 ELSE @]
    /\ UNCHANGED <<alive, files, made>>

EndOperation(p) ==
    /\ p \in alive /\ proc[p].running > 0
    /\ proc' = [proc EXCEPT ![p].running = @ - 1]
    /\ UNCHANGED <<alive, files, made>>

(* From here no operation is admitted any more. *)
ReleaseLease(p) ==
    /\ Step(p, "held") /\ ~proc[p].closing
    /\ proc' = [proc EXCEPT ![p].closing = TRUE]
    /\ UNCHANGED <<alive, files, made>>

\* Mutant of DrainLease: the timeout of the drain removes the marker.
DrainUndrained(p) ==
    /\ Step(p, "held") /\ proc[p].closing
    /\ RemoveOwn(LeasePath, proc[p].lock)
    /\ Goto(p, "removed")
    /\ UNCHANGED <<alive, made>>

(* The marker goes when every operation has left.  A drain that times out  *)
(* leaves the lease closed and in place, to be released by a later call.   *)
DrainLease(p) ==
    /\ Step(p, "held") /\ proc[p].closing
    /\ proc[p].entering + proc[p].running = 0
    /\ RemoveOwn(LeasePath, proc[p].lock)
    /\ Goto(p, "removed")
    /\ UNCHANGED <<alive, made>>

ForgetLease(p) ==
    /\ Step(p, "removed") /\ Becomes(p, Free)
    /\ UNCHANGED <<alive, files, made>>

Crash(p) ==
    /\ p \in alive /\ proc[p] # Free
    /\ alive' = alive \ {p} /\ Becomes(p, Free)
    /\ UNCHANGED <<files, made>>

----------------------------------------------------------------------------
Next == \E p \in Processes :
    \/ Acquire(p) \/ CreateLease(p) \/ SyncLease(p)
    \/ ReadSnapshot(p) \/ ClaimMarker(p) \/ RecheckMarker(p) \/ UnlinkMarker(p)
    \/ ReleaseClaim(p)
    \/ BeginOperation(p) \/ VerifyOperation(p) \/ EndOperation(p)
    \/ ReleaseLease(p) \/ DrainLease(p) \/ ForgetLease(p) \/ Crash(p)

Spec == Init /\ [][Next]_vars

----------------------------------------------------------------------------
(* Properties.                                                             *)

Marker == [owner : Processes \cup {"none"}, n : Nat]
Place == {"free", "create", "sync", "held", "removed",
          "snapshot", "claim", "recheck", "unlink", "release"}

(* Markers are found at paths of markers, and a process is at one place. *)
TypeOK ==
    /\ alive \subseteq Processes /\ made \in Nat
    /\ \A path \in DOMAIN files : path \in Seq(Marker) /\ files[path] \in Marker
    /\ proc \in [Processes ->
            [pc : Place, again : BOOLEAN, path : Seq(Marker), snap : Marker, claim : Marker,
             callers : Seq([path : Seq(Marker), depth : Nat]), depth : Nat, taken : BOOLEAN,
             lock : Marker, closing : BOOLEAN, entering : Nat, running : Nat]]

(* Operations of two processes never touch the roots together, whatever    *)
(* reclaimers, releases and crashes overlap.                               *)
RootsExclusive ==
    \A p, q \in alive : proc[p].running > 0 /\ proc[q].running > 0 => p = q

(* The marker of a live process that holds the lease is not taken from it. *)
LeaseIsMarked ==
    \A p \in alive : proc[p].pc = "held" => At(LeasePath) = proc[p].lock

(* The lease as the operations of a store rely on it.                      *)
LeaseHolds == TypeOK /\ RootsExclusive /\ LeaseIsMarked
=============================================================================
