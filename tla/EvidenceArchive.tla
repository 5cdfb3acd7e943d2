-------------------------- MODULE EvidenceArchive --------------------------
(***************************************************************************)
(* The encrypted archive of one session in the evidence store: its spool,  *)
(* its archive file, its key sidecar and its deletion receipt, each        *)
(* changed by one durable step at a time, and the memory that a crash      *)
(* forgets.  Records are persisted by one serial tail; finalization,       *)
(* recovery and deletion hold the lock of the archive one after another,   *)
(* while a record may still be on its way to the spool.                    *)
(* (src/adapters/evidence/session-artifact-store.ts)                       *)
(***************************************************************************)
EXTENDS Integers, Sequences, SequencesExt

CONSTANTS MaxRecords, MaxPending, MaxFaults, MaxCrashes

ASSUME ArchiveAssumption ==
    /\ MaxRecords \in Nat /\ MaxPending \in Nat
    /\ MaxFaults \in Nat /\ MaxCrashes \in Nat

VARIABLES
    process,    \* "serving", "down" or "recovering"
    spool,      \* lines of the spool; <<>> when there is no such file
    archive,    \* lines of the archive; <<>> when there is no such file
    side,       \* metadata in the key sidecar, or NoSide when it is erased
    receipt,    \* deletion receipt: "none", "pending" or "completed"
    mem,        \* runtime state of the archive, or NoState
    entering,   \* a record between its tombstone check and the tail, or 0
    landing,    \* a fenced append has settled and cleans up behind itself
    op,         \* the operation that holds the lock of the archive
    next,       \* the next record of the session
    acked,      \* records whose persist resolved
    before,     \* records that had resolved when finalization was asked for
    aborted,    \* the abort signal of the finalization
    answer,     \* what finalize answered
    faults, crashes

disk == <<spool, archive, side, receipt>>
calls == <<entering, landing, next, acked>>
vars == <<process, spool, archive, side, receipt, mem, entering, landing, op,
          next, acked, before, aborted, answer, faults, crashes>>

NoSide == [phase |-> "none", ready |-> FALSE, kept |-> "none",
           rebuilt |-> FALSE, audited |-> FALSE]
Fresh == [NoSide EXCEPT !.phase = "active"]
NoState == [stage |-> "none", side |-> NoSide, count |-> 0, queue |-> <<>>,
            appending |-> FALSE, closed |-> FALSE, failure |-> FALSE,
            fenced |-> FALSE]
NoOp == [kind |-> "none", pc |-> "none", again |-> FALSE]

Record(i) == [kind |-> "record", n |-> i]
Manifest(n) == [kind |-> "manifest", n |-> n]
Seal(n) == [kind |-> "seal", n |-> n]
Torn == [kind |-> "torn", n |-> 0]

IsRecord(line) == line.kind = "record"

(* How many records a ledger begins with, and these records. *)
RecordCount(file) ==
    CHOOSE n \in 0..Len(file) :
        /\ \A i \in 1..n : IsRecord(file[i])
        /\ n < Len(file) => ~IsRecord(file[n + 1])
Records(file) == SubSeq(file, 1, RecordCount(file))

Ids(file) == {line.n : line \in {l \in Range(file) : IsRecord(l)}}

(* A ledger whose records can be read up to its terminal lines. *)
Readable(file) ==
    /\ file # <<>>
    /\ Torn \notin Range(file)
    /\ \A i, j \in DOMAIN file :
           i < j /\ IsRecord(file[j]) => IsRecord(file[i])

\* Mutant of Verified: the manifest is not compared with the records.
Terminated(file) == file # <<>> /\ Last(file).kind = "seal"

(* Records, then the manifest that counts them, then its seal. *)
Verified(file) ==
    LET recs == Records(file)
    IN  /\ Readable(file)
        /\ file = recs \o <<Manifest(Len(recs)), Seal(Len(recs))>>

(* What an append that did not come to its end leaves of its line. *)
Remains(file, line) == {file, Append(file, line), Append(file, Torn)}

Init ==
    /\ process = "serving"
    /\ spool = <<>> /\ archive = <<>> /\ side = NoSide /\ receipt = "none"
    /\ mem = NoState /\ entering = 0 /\ landing = FALSE /\ op = NoOp
    /\ next = 1 /\ acked = {} /\ before = {} /\ aborted = FALSE
    /\ answer = "none" /\ faults = 0 /\ crashes = 0

FirstLife == process = "serving" /\ crashes = 0
Fault == faults < MaxFaults /\ faults' = faults + 1

----------------------------------------------------------------------------
(* The runtime state of an archive. *)

(* A state for the archive: the known one or one that has to initialize. *)
StateForSession ==
    IF mem # NoState THEN mem
    ELSE [NoState EXCEPT !.stage = "initializing", !.side = Fresh]

(* What the sidecar says, with the append cursor found in the spool. *)
Loaded ==
    [NoState EXCEPT !.stage = "ready", !.side = side,
                    !.closed = side.phase # "active",
                    !.count = IF side.phase = "active" THEN Len(spool) ELSE 0]

(* An active spool is read strictly when its append cursor is restored. *)
Loadable ==
    /\ side # NoSide
    /\ side.phase = "active" /\ spool # <<>> =>
           Readable(spool) /\ Records(spool) = spool

(* A state initializes from the sidecar, or writes the first sidecar of    *)
(* the archive, but never one of an archive that was deleted.              *)
InitializeState ==
    /\ mem.stage = "initializing"
    /\ IF side # NoSide
       THEN /\ mem' = IF Loadable THEN [Loaded EXCEPT !.queue = mem.queue]
                                  ELSE NoState
            /\ side' = side
       ELSE IF receipt # "none"
       THEN mem' = NoState /\ side' = side
       ELSE mem' = [mem EXCEPT !.stage = "ready"] /\ side' = Fresh
    /\ UNCHANGED <<process, spool, archive, receipt, calls, op, before, aborted,
                   answer, faults, crashes>>

(* A terminal state is forgotten when the last append has settled. *)
EvictState ==
    /\ mem.stage = "ready" /\ mem.queue = <<>>
    /\ mem.side.phase # "active"
    /\ op.kind \notin {"finalize", "recover"}
    /\ mem' = NoState
    /\ UNCHANGED <<process, disk, calls, op, before, aborted, answer, faults, crashes>>

----------------------------------------------------------------------------
(* Records. *)

(* persist looks for a deletion receipt before it looks for the state. *)
Persist ==
    /\ FirstLife /\ entering = 0 /\ next <= MaxRecords
    /\ entering' = IF receipt = "none" THEN next ELSE 0
    /\ next' = next + 1
    /\ UNCHANGED <<process, disk, mem, landing, op, acked, before, aborted,
                   answer, faults, crashes>>

(* The record joins the tail of its state unless too many are pending. *)
EnqueuePersist ==
    /\ entering # 0
    /\ mem' = IF Len(mem.queue) >= MaxPending THEN mem
              ELSE [StateForSession EXCEPT !.queue = Append(@, entering)]
    /\ entering' = 0
    /\ UNCHANGED <<process, disk, landing, op, next, acked, before, aborted,
                   answer, faults, crashes>>

(* Records 2, 4, ... are audio, which needs a ready recorder; the others are *)
(* events, of which the first opens the session.                            *)
IsAudio(record) == record % 2 = 0

MayWrite ==
    /\ ~mem.failure /\ ~mem.fenced /\ ~mem.closed
    /\ mem.side.phase = "active"
    /\ IsAudio(Head(mem.queue)) => mem.side.ready

PersistTurn == mem.stage = "ready" /\ mem.queue # <<>> /\ ~mem.appending

BeginAppend ==
    /\ PersistTurn /\ MayWrite
    /\ mem' = [mem EXCEPT !.appending = TRUE]
    /\ UNCHANGED <<process, disk, calls, op, before, aborted, answer, faults, crashes>>

(* The first failure is kept: every later record of the state fails too. *)
RefuseRecord ==
    /\ PersistTurn /\ ~MayWrite
    /\ mem' = [mem EXCEPT !.queue = Tail(@), !.failure = TRUE]
    /\ landing' = (landing \/ mem.fenced)
    /\ UNCHANGED <<process, disk, entering, op, next, acked, before, aborted,
                   answer, faults, crashes>>

(* The line is in the spool and synced.  A record that was fenced meanwhile *)
(* is there as well, but its persist rejects and leaves the cursor alone.   *)
AppendLands ==
    /\ mem.appending
    /\ spool' = Append(spool, Record(Head(mem.queue)))
    /\ IF mem.fenced
       THEN /\ mem' = [mem EXCEPT !.queue = Tail(@), !.appending = FALSE,
                                  !.failure = TRUE]
            /\ landing' = TRUE /\ acked' = acked
       ELSE /\ mem' = [mem EXCEPT !.queue = Tail(@), !.appending = FALSE,
                                  !.count = @ + 1]
            /\ landing' = landing /\ acked' = acked \cup {Head(mem.queue)}
    /\ UNCHANGED <<process, archive, side, receipt, entering, op, next, before,
                   aborted, answer, faults, crashes>>

AppendFails ==
    /\ mem.appending /\ Fault
    /\ spool' \in Remains(spool, Record(Head(mem.queue)))
    /\ mem' = [mem EXCEPT !.queue = Tail(@), !.appending = FALSE, !.failure = TRUE]
    /\ landing' = (landing \/ mem.fenced)
    /\ UNCHANGED <<process, archive, side, receipt, entering, op, next, acked,
                   before, aborted, answer, crashes>>

\* Mutant of LateCleanup: the deletion is not looked for.
NoCleanup ==
    /\ landing /\ landing' = FALSE
    /\ UNCHANGED <<process, disk, mem, entering, op, next, acked, before, aborted,
                   answer, faults, crashes>>

(* An append that was fenced removes what it wrote behind a deletion. *)
LateCleanup ==
    /\ landing /\ landing' = FALSE
    /\ IF receipt # "none" THEN spool' = <<>> /\ archive' = <<>>
                           ELSE UNCHANGED <<spool, archive>>
    /\ UNCHANGED <<process, side, receipt, mem, entering, op, next, acked, before,
                   aborted, answer, faults, crashes>>

(* The recorder is ready once its probe and its sidecar are durable; when  *)
(* that write fails the memory already says ready.                         *)
PreflightRecorder ==
    /\ FirstLife /\ op = NoOp /\ receipt = "none"
    /\ mem.stage = "ready" /\ ~mem.closed /\ mem.side.phase = "active"
    /\ ~mem.side.ready /\ Readable(spool)
    /\ mem' = [mem EXCEPT !.side.ready = TRUE]
    /\ \/ side' = mem'.side /\ faults' = faults
       \/ side' = side /\ Fault
    /\ UNCHANGED <<process, spool, archive, receipt, calls, op, before, aborted,
                   answer, crashes>>

----------------------------------------------------------------------------
(* Finalization, and the recovery of one that a crash interrupted.         *)

Holds(kind, pc) == op.kind = kind /\ op.pc = pc
AtStep(pc) == op.kind \in {"finalize", "recover"} /\ op.pc = pc
Goto(pc) == op' = [op EXCEPT !.pc = pc]

(* A failed archive keeps its retention clock when its ledger or its       *)
(* sidecar tells what was recorded, and may be deleted at once when not.   *)
FailedSide(skipLedger) ==
    LET told == (~skipLedger /\ Readable(spool)) \/ mem.side.ready
    IN  [mem.side EXCEPT !.phase = "FINALIZATION_FAILED",
             !.kept = IF ~told THEN "immediate"
                      ELSE IF @ # "none" THEN @ ELSE "governed"]

(* The step went wrong.  An aborted finalization fences the tail and fails *)
(* without reading the ledger; one rebuild is tried otherwise.             *)
Rebuildable ==
    /\ ~op.again /\ ~mem.side.rebuilt
    /\ op.kind = "finalize" => mem.side.phase = "finalizing"

StepFails ==
    IF op.kind = "finalize" /\ ~op.again /\ aborted
    THEN /\ mem' = [mem EXCEPT !.closed = TRUE, !.fenced = TRUE,
                               !.side = FailedSide(TRUE)]
         /\ Goto("fail")
    ELSE IF Rebuildable
    THEN /\ mem' = [mem EXCEPT !.side.rebuilt = TRUE]
         /\ op' = [op EXCEPT !.pc = "rebuild", !.again = TRUE]
    ELSE /\ mem' = [mem EXCEPT !.closed = TRUE, !.side = FailedSide(FALSE)]
         /\ Goto("fail")

opVars == <<process, receipt, calls, before, answer, crashes>>
Cancelled == op.kind = "finalize" /\ aborted

(* The relay asks once, in the life of the process that recorded. *)
Finalize ==
    /\ FirstLife /\ op = NoOp /\ answer = "none" /\ receipt = "none" /\ next > 1
    /\ mem' = StateForSession
    /\ op' = [kind |-> "finalize", pc |-> "start", again |-> FALSE]
    /\ before' = acked
    /\ UNCHANGED <<process, disk, calls, aborted, answer, faults, crashes>>

Abort ==
    /\ op.kind = "finalize" /\ ~aborted
    /\ aborted' = TRUE
    /\ UNCHANGED <<process, disk, mem, calls, op, before, answer, faults, crashes>>

(* The request, with its retention clock, is put into the sidecar first. *)
FinalizeStart ==
    /\ Holds("finalize", "start") /\ mem.stage = "ready"
    /\ IF Cancelled \/ ~mem.side.ready
       THEN StepFails
       ELSE /\ mem' = [mem EXCEPT !.side.phase = "finalizing", !.side.kept = "governed"]
            /\ Goto("request")
    /\ UNCHANGED <<opVars, disk, aborted, faults>>

(* The sidecar is written with what memory already says. *)
SaveSide ==
    /\ \/ /\ AtStep("request") /\ Goto("tail") /\ UNCHANGED answer
       \/ /\ AtStep("rebuild") /\ Goto("rescan") /\ UNCHANGED answer
       \/ /\ AtStep("mark") /\ ~Cancelled /\ Goto("sealed") /\ UNCHANGED answer
       \/ /\ AtStep("fail") /\ op' = NoOp
          /\ answer' = IF op.kind = "finalize" THEN "failed" ELSE answer
    /\ side' = mem.side
    /\ process' = IF op' = NoOp THEN "serving" ELSE process
    /\ UNCHANGED <<spool, archive, receipt, mem, calls, before, aborted, faults, crashes>>

\* Mutant of FinalizeTail: the abort is seen after the tail only.
WaitForTail ==
    /\ Holds("finalize", "tail") /\ mem.queue = <<>>
    /\ IF aborted \/ mem.failure
       THEN StepFails
       ELSE mem' = [mem EXCEPT !.closed = TRUE] /\ Goto("manifest")
    /\ UNCHANGED <<opVars, disk, aborted, faults>>

(* Finalization waits for the records that are in the tail, or its abort. *)
FinalizeTail ==
    /\ Holds("finalize", "tail")
    /\ IF aborted \/ (mem.queue = <<>> /\ mem.failure)
       THEN StepFails
       ELSE /\ mem.queue = <<>>
            /\ mem' = [mem EXCEPT !.closed = TRUE]
            /\ Goto("manifest")
    /\ UNCHANGED <<opVars, disk, aborted, faults>>

(* A rebuild drops the terminal lines of the spool. *)
Rescan ==
    /\ AtStep("rescan")
    /\ IF Readable(spool)
       THEN /\ spool' = Records(spool)
            /\ mem' = [mem EXCEPT !.count = Len(Records(spool))]
            /\ Goto("manifest")
       ELSE spool' = spool /\ StepFails
    /\ UNCHANGED <<opVars, archive, side, aborted, faults>>

(* The manifest counts the records that were just read: at first the spool *)
(* must hold what the append cursor says and nothing else.                 *)
AppendManifest ==
    /\ AtStep("manifest")
    /\ IF Cancelled \/ (~op.again /\ (Records(spool) # spool \/ Len(spool) # mem.count))
       THEN spool' = spool /\ StepFails
       ELSE /\ spool' = Append(spool, Manifest(mem.count))
            /\ mem' = mem /\ Goto("seal")
    /\ UNCHANGED <<opVars, archive, side, aborted, faults>>

AppendSeal ==
    /\ AtStep("seal")
    /\ IF Cancelled
       THEN spool' = spool /\ StepFails
       ELSE /\ spool' = Append(spool, Seal(mem.count))
            /\ mem' = mem /\ Goto("promote")
    /\ UNCHANGED <<opVars, archive, side, aborted, faults>>

SealedSide == [mem.side EXCEPT !.phase = "sealed"]

(* The verified spool is renamed to the archive, unless that was done. *)
PromoteArchive ==
    /\ AtStep("promote")
    /\ LET ledger == IF archive # <<>> THEN archive ELSE spool
       IN  IF Cancelled \/ ~Verified(ledger)
           THEN UNCHANGED <<spool, archive>> /\ StepFails
           ELSE /\ archive' = ledger
                /\ spool' = IF archive # <<>> THEN spool ELSE <<>>
                /\ mem' = [mem EXCEPT !.side = SealedSide]
                /\ Goto("mark")
    /\ UNCHANGED <<opVars, side, aborted, faults>>

(* The abort fences the write of the sealed sidecar as well. *)
MarkCancelled ==
    /\ AtStep("mark") /\ Cancelled
    /\ StepFails
    /\ UNCHANGED <<opVars, disk, aborted, faults>>

(* The sealed sidecar is durable.  An abort after its rename still turns   *)
(* the archive into a failed one; one that comes later is too late.        *)
FinishSealed ==
    /\ AtStep("sealed")
    /\ \/ /\ op' = NoOp /\ mem' = mem
          /\ answer' = IF op.kind = "finalize" THEN "sealed" ELSE answer
          /\ process' = "serving"
       \/ Cancelled /\ StepFails /\ UNCHANGED <<answer, process>>
    /\ UNCHANGED <<disk, calls, before, aborted, faults, crashes>>

(* A write or a read of the step fails.  When the sidecar of the failure   *)
(* itself cannot be written the operation rejects.                         *)
StepFaults ==
    /\ op.kind \in {"finalize", "recover"} /\ op.pc \notin {"start", "sealed"}
    /\ Fault
    /\ spool' \in CASE op.pc = "manifest" -> Remains(spool, Manifest(mem.count))
                    [] op.pc = "seal" -> Remains(spool, Seal(mem.count))
                    [] OTHER -> {spool}
    /\ IF op.pc = "fail"
       THEN /\ op' = NoOp /\ mem' = mem
            /\ answer' = IF op.kind = "finalize" THEN "rejected" ELSE answer
            /\ process' = "serving"
       ELSE StepFails /\ UNCHANGED <<answer, process>>
    /\ UNCHANGED <<archive, side, receipt, calls, before, aborted, crashes>>

----------------------------------------------------------------------------
(* Deletion.                                                               *)

(* The owner or the sweep deletes a terminal archive: first the receipt.   *)
(* Its state is the one on disk, unless an append keeps the old one alive. *)
(* The owner's request is audited, which marks the sidecar; the sweep      *)
(* audits nothing before the erasure.                                      *)
BeginDeletion(byOwner) ==
    LET known == IF mem.stage = "ready" /\ mem.queue # <<>> THEN mem ELSE Loaded
        marked == [known.side EXCEPT !.audited = TRUE]
    IN  /\ process = "serving" /\ op = NoOp /\ receipt = "none"
        /\ mem.stage # "initializing"
        /\ known = mem \/ Loadable
        /\ known.side.phase \in {"sealed", "FINALIZATION_FAILED"}
        /\ receipt' = "pending"
        /\ IF byOwner
           THEN /\ side' = marked
                /\ mem' = [known EXCEPT !.closed = TRUE, !.side = marked]
           ELSE /\ side' = side
                /\ mem' = [known EXCEPT !.closed = TRUE]
        /\ op' = [kind |-> "delete", pc |-> "key", again |-> FALSE]
        /\ UNCHANGED <<process, spool, archive, calls, before, aborted, answer, faults, crashes>>

(* A pending receipt is taken up again by its owner or by the sweep. *)
ResumeDeletion ==
    /\ process = "serving" /\ op = NoOp /\ receipt = "pending"
    /\ op' = [kind |-> "delete", pc |-> "key", again |-> FALSE]
    /\ UNCHANGED <<process, disk, mem, calls, before, aborted, answer, faults, crashes>>

(* The key goes first; a fenced append is not waited for. *)
EraseKey ==
    /\ Holds("delete", "key")
    /\ mem.queue = <<>> \/ mem.fenced
    /\ side' = NoSide
    /\ Goto("files")
    /\ UNCHANGED <<process, spool, archive, receipt, mem, calls, before, aborted,
                   answer, faults, crashes>>

EraseFiles ==
    /\ Holds("delete", "files")
    /\ spool' = <<>> /\ archive' = <<>>
    /\ Goto("audit")
    /\ UNCHANGED <<process, side, receipt, mem, calls, before, aborted, answer, faults, crashes>>

(* The completion is audited, and the first audit entry of an archive      *)
(* marks its state: a state still in memory is saved, with its key.        *)
AuditDeletion ==
    /\ Holds("delete", "audit")
    /\ IF mem.stage = "ready" /\ ~mem.side.audited
       THEN /\ mem' = [mem EXCEPT !.side.audited = TRUE]
            /\ side' = mem'.side
       ELSE UNCHANGED <<mem, side>>
    /\ Goto("receipt")
    /\ UNCHANGED <<process, spool, archive, receipt, calls, before, aborted, answer,
                   faults, crashes>>

CompleteDeletion ==
    /\ Holds("delete", "receipt")
    /\ receipt' = "completed"
    /\ op' = NoOp
    /\ process' = "serving"
    /\ UNCHANGED <<spool, archive, side, mem, calls, before, aborted, answer, faults, crashes>>

(* A step of the deletion fails: its pending receipt stays. *)
DeletionFaults ==
    /\ op.kind = "delete" /\ op.pc # "audit" /\ Fault
    /\ op' = NoOp
    /\ process' = "serving"
    /\ UNCHANGED <<disk, mem, calls, before, aborted, answer, crashes>>

----------------------------------------------------------------------------
(* The process stops at any step, restarts and recovers before it serves.  *)

(* What the writes on their way leave in the spool: a rebuild does not wait *)
(* for the append of a record.                                             *)
InFlight ==
    LET behind(file) ==
            IF AtStep("manifest") THEN Remains(file, Manifest(mem.count))
            ELSE IF AtStep("seal") THEN Remains(file, Seal(mem.count)) ELSE {file}
    IN  IF mem.appending
        THEN UNION {behind(file) : file \in Remains(spool, Record(Head(mem.queue)))}
        ELSE behind(spool)

Crash ==
    /\ process # "down" /\ crashes < MaxCrashes
    /\ process' = "down" /\ crashes' = crashes + 1
    /\ spool' \in InFlight
    /\ mem' = NoState /\ op' = NoOp /\ entering' = 0 /\ landing' = FALSE
    /\ UNCHANGED <<archive, side, receipt, next, acked, before, aborted, answer, faults>>

RecoverWith(kind, pc, again, state) ==
    /\ process' = "recovering"
    /\ op' = [kind |-> kind, pc |-> pc, again |-> again]
    /\ mem' = state
    /\ UNCHANGED disk

\* Mutant of RecoveryPhase: a failed finalization is tried again.
RetriedPhase == IF side.phase = "FINALIZATION_FAILED" THEN "finalizing" ELSE side.phase

(* What recovery takes the archive for. *)
RecoveryPhase == side.phase

(* A pending deletion is completed; the files of a completed one are       *)
(* removed again; a finalization is taken up at its archive, its spool or  *)
(* its rebuild; an archive without a recorder is closed as failed, and its *)
(* append cursor is not restored.                                          *)
Recover ==
    /\ process = "down"
    /\ CASE receipt = "pending" -> RecoverWith("delete", "key", FALSE, NoState)
         [] receipt = "completed" ->
                /\ process' = "serving" /\ side' = NoSide
                /\ spool' = <<>> /\ archive' = <<>>
                /\ UNCHANGED <<receipt, mem, op>>
         [] receipt = "none" /\ RecoveryPhase = "finalizing" ->
                RecoverWith("recover", "promote", archive # <<>>, Loaded)
         [] receipt = "none" /\ RecoveryPhase = "active" ->
                LET told == Readable(spool) \/ side.ready
                IN  RecoverWith("recover", "fail", FALSE, [Loaded EXCEPT
                        !.closed = TRUE, !.count = 0,
                        !.side.phase = "FINALIZATION_FAILED",
                        !.side.kept = IF told THEN "governed" ELSE "immediate"])
         [] OTHER -> process' = "serving" /\ UNCHANGED <<disk, mem, op>>
    /\ UNCHANGED <<calls, before, aborted, answer, faults, crashes>>

----------------------------------------------------------------------------
Operations ==
    \/ FinalizeStart \/ SaveSide \/ FinalizeTail \/ Rescan \/ AppendManifest
    \/ AppendSeal \/ PromoteArchive \/ MarkCancelled \/ FinishSealed
    \/ EraseKey \/ EraseFiles \/ AuditDeletion \/ CompleteDeletion

Next ==
    \/ InitializeState \/ EvictState
    \/ Persist \/ EnqueuePersist \/ BeginAppend \/ RefuseRecord
    \/ AppendLands \/ AppendFails \/ LateCleanup \/ PreflightRecorder
    \/ Finalize \/ Abort \/ Operations \/ StepFaults
    \/ (\E byOwner \in BOOLEAN : BeginDeletion(byOwner)) \/ ResumeDeletion
    \/ DeletionFaults \/ Crash \/ Recover

(* File operations come to an end, except an append, which may hang; the   *)
(* process is started again after a crash and takes up what is pending.    *)
Progress == InitializeState \/ Operations \/ Recover \/ ResumeDeletion

Fairness == WF_vars(Progress)

Spec == Init /\ [][Next]_vars /\ Fairness

----------------------------------------------------------------------------
(* Properties.                                                             *)

Lines == [kind : {"record", "manifest", "seal", "torn"}, n : 0..MaxRecords]
Sides == [phase : {"none", "active", "finalizing", "sealed", "FINALIZATION_FAILED"},
          ready : BOOLEAN, kept : {"none", "governed", "immediate"},
          rebuilt : BOOLEAN, audited : BOOLEAN]

Memories == [stage : {"none", "initializing", "ready"}, side : Sides,
             count : 0..MaxRecords, queue : Seq(1..MaxRecords),
             appending : BOOLEAN, closed : BOOLEAN, failure : BOOLEAN,
             fenced : BOOLEAN]
Holders == [kind : {"none", "finalize", "recover", "delete"},
            pc : {"none", "start", "request", "tail", "manifest", "seal",
                  "promote", "mark", "sealed", "rebuild", "rescan", "fail",
                  "key", "files", "audit", "receipt"},
            again : BOOLEAN]

(* Every variable keeps to the values the store can give it. *)
TypeOK ==
    /\ process \in {"serving", "down", "recovering"}
    /\ spool \in Seq(Lines) /\ archive \in Seq(Lines)
    /\ side \in Sides /\ receipt \in {"none", "pending", "completed"}
    /\ mem \in Memories
    /\ entering \in 0..MaxRecords /\ landing \in BOOLEAN
    /\ op \in Holders
    /\ next \in 1..(MaxRecords + 1)
    /\ acked \subseteq 1..MaxRecords /\ before \subseteq 1..MaxRecords
    /\ aborted \in BOOLEAN /\ answer \in {"none", "sealed", "failed", "rejected"}
    /\ faults \in 0..MaxFaults /\ crashes \in 0..MaxCrashes

(* An archive whose sidecar says sealed is a verified ledger that holds    *)
(* every record that was durable when its finalization was asked for, each *)
(* once and in order, whatever rebuilds, aborts and crashes came between.  *)
SealedIsWhole ==
    side.phase = "sealed" /\ receipt = "none" =>
        /\ Len(archive) > 2 /\ before \subseteq Ids(archive)
        /\ \A i \in 1..(Len(archive) - 2) : IsRecord(archive[i])
        /\ \A i, j \in 1..(Len(archive) - 2) : i < j => archive[i].n < archive[j].n
        /\ archive[Len(archive) - 1] = Manifest(Len(archive) - 2)
        /\ archive[Len(archive)] = Seal(Len(archive) - 2)

(* Of a deleted archive no evidence is on disk once every append that was  *)
(* on its way has come to its end, although finalization did not wait for  *)
(* them and the deletion neither.                                          *)
CiphertextIsGone ==
    /\ receipt = "completed" /\ process = "serving"
    /\ ~mem.appending /\ mem.queue = <<>> /\ ~landing
    => spool = <<>> /\ archive = <<>>

(* A completed deletion leaves no key of the archive behind. *)
KeyIsGone == receipt = "completed" => side = NoSide

(* An archive that no process records any more is closed by the recovery   *)
(* of the next one, unless a fault kept it from that.                      *)
RecoveryCloses ==
    process = "serving" /\ crashes > 0 /\ faults = 0 =>
        side.phase \in {"none", "sealed", "FINALIZATION_FAILED"}

(* What a sealed archive holds and how a recovery leaves its archive. *)
ClosedIsWhole == TypeOK /\ SealedIsWhole /\ RecoveryCloses

(* An aborted finalization answers, or the process stops, even when the    *)
(* append it would have waited for hangs for ever.                         *)
AbortAnswers == (op.kind = "finalize" /\ aborted) ~> op.kind # "finalize"

(* What the evidence store promises of an archive, whatever its files do. *)
Governed == INSTANCE EvidenceGovernance WITH
    state <- IF receipt = "completed" THEN "erased"
             ELSE IF receipt = "pending" THEN "erasing"
             ELSE side.phase,
    verdict <- CASE answer = "sealed" -> "sealed"
                 [] answer = "failed" -> "FINALIZATION_FAILED"
                 [] OTHER -> "none"
ImplementsGovernance == Governed!Spec
=============================================================================
