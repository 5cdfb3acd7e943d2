------------------------- MODULE EvidenceRetention -------------------------
(***************************************************************************)
(* The governance of one closed archive of the evidence store: its         *)
(* retention deadline and the one extension of it, reviews, the managed    *)
(* plaintext export, and its deletion by the owner or by the sweep.  Every *)
(* decision is written to a detached audit journal whose length is kept in *)
(* a second file, the head.  An operation holds the lock of the archive    *)
(* from its begin to its answer; between two of its durable steps a write  *)
(* may fail, the process may stop, and time passes.                        *)
(* (src/adapters/evidence/session-artifact-store.ts)                       *)
(***************************************************************************)
EXTENDS Integers, Sequences, SequencesExt, FiniteSets

CONSTANTS
    Extensions,     \* command ids of the owner's extensions
    Exports,        \* command ids of the owner's exports
    FirstDeadline,  \* the deadline that finalization gave
    LastDeadline,   \* no extension goes beyond it
    MaxNow,         \* bound on the clock
    ReviewCap,      \* audit entries beyond which nobody reviews
    JournalCap,     \* audit entries of the journal
    Operations,     \* the operations that are asked for
    MaxFaults, MaxCrashes

(* Assumed of the constants where this module is instantiated. *)
RetentionAssumption ==
    /\ FirstDeadline \in Nat /\ LastDeadline \in Nat /\ MaxNow \in Nat
    /\ FirstDeadline <= LastDeadline
    /\ ReviewCap \in Nat /\ JournalCap \in Nat /\ ReviewCap < JournalCap
    /\ Operations \subseteq {"extend", "export", "review", "delete", "view"}
    /\ MaxFaults \in Nat /\ MaxCrashes \in Nat
    /\ (Extensions \cup Exports)
         \cap {"none", "owner", "sweep", "reviewer", "stranger", "recover"} = {}

VARIABLES
    process,    \* "up", "down" or "recovering"
    degraded,   \* the recovery of this process met something it could not mend
    now,
    side,       \* the key sidecar, or NoSide when it is erased
    journal,    \* audit entries that are durable
    head,       \* how many entries the head file vouches for
    receipt,    \* the deletion receipt
    files,      \* workspace of the plaintext export: "none", "partial", "whole"
    op,         \* the operation that holds the lock of the archive
    answer,     \* what the last operation answered
    faults, crashes

disk == <<side, journal, head, receipt, files>>
vars == <<process, degraded, now, disk, op, answer, faults, crashes>>

None == [id |-> "none", deadline |-> 0]
NoExport == [status |-> "none", id |-> "none"]
NoSide == [phase |-> "none", deadline |-> 0, used |-> FALSE, pending |-> None,
           export |-> NoExport, audited |-> FALSE, extended |-> None]
NoEntry == [action |-> "none", id |-> "none", outcome |-> "none", deadline |-> 0]
NoReceipt == [status |-> "none", disposition |-> "none", at |-> 0]
NoOp == [kind |-> "none", pc |-> "none", id |-> "none", deadline |-> 0,
         meta |-> NoSide, entry |-> NoEntry, then |-> "none", status |-> "none"]
NoAnswer == [kind |-> "none", status |-> "none", entry |-> NoEntry]

Entry(action, id, outcome) ==
    [NoEntry EXCEPT !.action = action, !.id = id, !.outcome = outcome]
Extension(id, deadline) ==
    [action |-> "extend", id |-> id, outcome |-> "completed", deadline |-> deadline]
Torn == Entry("torn", "none", "none")

Init ==
    /\ process = "up" /\ degraded = FALSE /\ now = 0
    /\ \E phase \in {"sealed", "FINALIZATION_FAILED"} :
           side = [NoSide EXCEPT !.phase = phase, !.deadline = FirstDeadline]
    /\ journal = <<>> /\ head = 0 /\ receipt = NoReceipt /\ files = "none"
    /\ op = NoOp /\ answer = NoAnswer /\ faults = 0 /\ crashes = 0

Fault == faults < MaxFaults /\ faults' = faults + 1
NoFault == faults' = faults

(* The journal is as long as its head says, or one entry longer: that one  *)
(* was synced when the head was not.  A torn line is never read again.     *)
Valid == Torn \notin Range(journal) /\ Len(journal) \in {head, head + 1}

Expired(meta) == now >= meta.deadline

----------------------------------------------------------------------------
(* Steps that the operations share.                                        *)

At(pc) == op.pc = pc
Deleting == op.kind \in {"delete", "sweep"}

Goto(pc) == op' = [op EXCEPT !.pc = pc]
Going == UNCHANGED <<process, degraded, answer>>

(* Append an entry to the audit, then go on. *)
Audit(entry, then) ==
    op' = [op EXCEPT !.pc = "audit", !.entry = entry, !.then = then]
AuditAnswer(status) ==
    op' = [op EXCEPT !.pc = "audit", !.entry = Entry(op.kind, op.id, status),
                     !.then = "answer", !.status = status]

Finish(status) ==
    /\ op' = NoOp
    /\ answer' = [kind |-> op.kind, status |-> status, entry |-> op.entry]
    /\ process' = "up"
    /\ degraded' = (degraded \/ (op.kind = "recover" /\ status # "done"))

(* Extensions, exports and reviews fail closed; the others throw. *)
Trouble(why) ==
    Finish(CASE op.kind = "extend" -> "rejected"
             [] op.kind = "review" /\ op.id = "stranger" -> "grant_denied"
             [] op.kind \in {"review", "export"} -> "audit_failed"
             [] OTHER -> why)

\* Mutant of AuditFails: the answer is given although its audit failed.
AuditFailsOpen(why) == Goto(op.then) /\ Going

(* A deletion goes on when its audit entry cannot be appended. *)
AuditFails(why) ==
    IF op.then \in {"erase", "receipt"} THEN Goto(op.then) /\ Going ELSE Trouble(why)

(* The sidecar is replaced by another; a write that fails may have done it. *)
Save(meta, pc) ==
    /\ NoFault /\ side' = meta
    /\ op' = [op EXCEPT !.meta = meta, !.pc = pc]
    /\ Going
SaveFails(meta) == Fault /\ side' \in {side, meta}

(* Commands are audited once; a review is audited each time. *)
Present(entry) == entry.action # "review" /\ entry \in Range(journal)

Remains == {journal, Append(journal, op.entry), Append(journal, Torn)}

Appendable == Valid /\ ~Present(op.entry) /\ Len(journal) < JournalCap

AppendAudit ==
    /\ At("audit")
    /\ CASE Valid /\ Present(op.entry) ->
               Goto("anchor") /\ Going /\ NoFault /\ UNCHANGED journal
         [] Appendable ->
               \/ journal' = Append(journal, op.entry) /\ Goto("head") /\ Going /\ NoFault
               \/ journal' \in Remains /\ AuditFails("faulted") /\ Fault
         [] OTHER -> AuditFails("threw") /\ NoFault /\ UNCHANGED journal
    /\ head' = IF Valid THEN Len(journal) ELSE head
    /\ UNCHANGED <<now, side, receipt, files, crashes>>

WriteHead ==
    /\ At("head")
    /\ \/ head' = Len(journal) /\ Goto("anchor") /\ Going /\ NoFault
       \/ head' \in {head, Len(journal)} /\ AuditFails("faulted") /\ Fault
    /\ UNCHANGED <<now, side, journal, receipt, files, crashes>>

(* The sidecar remembers that the archive has an audit.  A deletion that   *)
(* was resumed knows no sidecar any more.                                  *)
Anchor ==
    /\ At("anchor")
    /\ LET marked == [op.meta EXCEPT !.audited = TRUE]
       IN  IF op.meta = NoSide \/ op.meta.audited
           THEN Goto(op.then) /\ Going /\ NoFault /\ side' = side
           ELSE \/ Save(marked, op.then)
                \/ SaveFails(marked) /\ AuditFails("faulted")
    /\ UNCHANGED <<now, journal, head, receipt, files, crashes>>

GiveAnswer ==
    /\ At("answer") /\ Finish(op.status)
    /\ UNCHANGED <<now, disk, faults, crashes>>

----------------------------------------------------------------------------
(* Begin, and the reconciliation of an extension that was left pending.    *)

\* Mutant of FirstStep: the sweep trusts the deadline it finds.
SweepUnsettled(kind) ==
    IF side.pending # None /\ kind # "sweep" THEN "settle" ELSE "decide"

FirstStep(kind) == IF side.pending # None THEN "settle" ELSE "decide"

Load(kind, id, deadline) ==
    [NoOp EXCEPT !.kind = kind, !.id = id, !.deadline = deadline, !.meta = side,
                 !.pc = IF id = "stranger" THEN "decide" ELSE FirstStep(kind)]
Resume(kind, id) ==
    [NoOp EXCEPT !.kind = kind, !.id = id, !.pc = "erase"]

Idle == process = "up" /\ op = NoOp
Beginning == answer' = NoAnswer /\ UNCHANGED <<process, degraded, now, disk, faults, crashes>>

(* A tombstone refuses everything but the deletion itself. *)
Request(kind, id, deadline) ==
    /\ Idle /\ receipt.status = "none" /\ kind \in Operations
    /\ op' = Load(kind, id, deadline)
    /\ Beginning

Begin ==
    \/ \E id \in Extensions, d \in LastDeadline..(LastDeadline + 1) : Request("extend", id, d)
    \/ \E id \in Exports : Request("export", id, 0)
    \/ \E id \in {"reviewer", "stranger"} : Request("review", id, 0)
    \/ Request("view", "owner", 0)
    \/ Request("delete", "owner", 0)

ResumeDeletion ==
    /\ Idle /\ receipt.status = "pending" /\ "delete" \in Operations
    /\ receipt.disposition = "early"
    /\ op' = Resume("delete", "owner")
    /\ Beginning

\* Mutant of BeginSweep: a pending receipt is left to its owner.
SweepUnbegun ==
    /\ Idle /\ ~degraded /\ receipt.status = "none"
    /\ op' = Load("sweep", "sweep", 0)
    /\ Beginning

(* The hourly sweep, unless the recovery of the process was degraded. *)
BeginSweep ==
    /\ Idle /\ ~degraded /\ receipt.status # "completed"
    /\ op' = IF receipt.status = "none" THEN Load("sweep", "sweep", 0)
                                        ELSE Resume("sweep", "sweep")
    /\ Beginning

(* An extension that was audited is committed before anything else; one    *)
(* that was not audited is taken back.                                     *)
Settle ==
    /\ At("settle")
    /\ LET pending == op.meta.pending
           cleared == [op.meta EXCEPT !.pending = None]
       IN  IF ~Valid
           THEN Trouble("threw") /\ NoFault /\ UNCHANGED <<side, head>>
           ELSE /\ head' = Len(journal)
                /\ IF Extension(pending.id, pending.deadline) \in Range(journal)
                   THEN /\ op' = [op EXCEPT !.pc = "anchor", !.then = "commit"]
                        /\ Going /\ NoFault /\ side' = side
                   ELSE \/ Save(cleared, "decide")
                        \/ SaveFails(cleared) /\ Trouble("faulted")
    /\ UNCHANGED <<now, journal, receipt, files, crashes>>

CommitExtension ==
    /\ At("commit")
    /\ LET p == op.meta.pending
           new == [op.meta EXCEPT !.pending = None, !.deadline = p.deadline,
                                  !.used = TRUE, !.extended = p]
       IN  \/ /\ NoFault /\ side' = new
              /\ IF op.entry # NoEntry
                 THEN Finish("extended")
                 ELSE op' = [op EXCEPT !.meta = new, !.pc = "decide"] /\ Going
           \/ SaveFails(new) /\ Trouble("faulted")
    /\ UNCHANGED <<now, journal, head, receipt, files, crashes>>

----------------------------------------------------------------------------
(* Extension.                                                              *)

Deciding(kind) == op.kind = kind /\ At("decide")

Extendable ==
    /\ op.meta.phase = "sealed" /\ ~op.meta.used /\ ~Expired(op.meta)
    /\ op.meta.deadline < op.deadline /\ op.deadline <= LastDeadline

DecideExtension ==
    /\ Deciding("extend")
    /\ LET p == [id |-> op.id, deadline |-> op.deadline]
           new == [op.meta EXCEPT !.pending = p]
           done == Extension(op.id, op.deadline)
           entry(status) == [done EXCEPT !.outcome = status]
           refuse(status) ==
               op' = [op EXCEPT !.pc = "audit", !.entry = entry(status),
                                !.then = "answer", !.status = status]
       IN  CASE ~Valid -> Finish("rejected") /\ NoFault /\ side' = side
             [] Valid /\ op.meta.extended = p ->
                    /\ op' = [op EXCEPT !.pc = "answer", !.entry = done,
                                        !.status = "extended"]
                    /\ Going /\ NoFault /\ side' = side
             [] Valid /\ op.meta.extended # p /\ op.meta.extended.id = op.id ->
                    refuse("conflict") /\ Going /\ NoFault /\ side' = side
             [] Valid /\ op.meta.extended.id # op.id /\ ~Extendable ->
                    refuse("rejected") /\ Going /\ NoFault /\ side' = side
             [] OTHER ->
                    \/ /\ NoFault /\ side' = new /\ Going
                       /\ op' = [op EXCEPT !.meta = new, !.pc = "audit",
                                           !.entry = done, !.then = "commit"]
                    \/ SaveFails(new) /\ Finish("rejected")
    /\ UNCHANGED <<now, journal, head, receipt, files, crashes>>

----------------------------------------------------------------------------
(* Review.                                                                 *)

Quiet == NoFault /\ UNCHANGED <<now, disk, crashes>>

(* Reviewers leave the end of the journal to the owner. *)
DecideReview ==
    /\ Deciding("review")
    /\ CASE ~Valid \/ Len(journal) >= ReviewCap -> Finish("audit_failed")
         [] Valid /\ Len(journal) < ReviewCap ->
              IF op.id = "stranger" THEN AuditAnswer("grant_denied") /\ Going
              ELSE IF op.meta.phase # "sealed" THEN AuditAnswer("not_sealed") /\ Going
              ELSE IF Expired(op.meta) THEN AuditAnswer("expired") /\ Going
              ELSE Goto("callback") /\ Going
    /\ Quiet

(* The deadline may pass while the callback reads the archive. *)
ReviewCallback ==
    /\ op.kind = "review" /\ At("callback")
    /\ \/ Finish("threw")
       \/ AuditAnswer(IF Expired(op.meta) THEN "expired" ELSE "completed") /\ Going
    /\ Quiet

ViewRetention ==
    /\ Deciding("view") /\ Finish("done")
    /\ Quiet

----------------------------------------------------------------------------
(* Managed export.                                                         *)

Exported(status) == [op.meta EXCEPT !.export = [status |-> status, id |-> op.id]]
Completed == Entry("export", op.meta.export.id, "completed")

(* A new export is registered in the sidecar before it writes plaintext. *)
DecideNewExport ==
    /\ Deciding("export") /\ op.meta.export = NoExport
    /\ IF ~Valid \/ Len(journal) >= JournalCap
       THEN Finish("audit_failed") /\ NoFault /\ side' = side
       ELSE IF op.meta.phase # "sealed"
       THEN AuditAnswer("conflict") /\ Going /\ NoFault /\ side' = side
       ELSE IF Expired(op.meta)
       THEN AuditAnswer("expired") /\ Going /\ NoFault /\ side' = side
       ELSE \/ Save(Exported("pending"), "callback")
            \/ SaveFails(Exported("pending")) /\ Finish("threw")
    /\ UNCHANGED <<now, journal, head, receipt, files, crashes>>

(* A repeated export answers from its workspace, or finishes its audit. *)
DecideKnownExport ==
    /\ Deciding("export") /\ op.meta.export # NoExport
    /\ LET known == op.meta.export
       IN  IF known.id # op.id \/ known.status = "pending"
           THEN AuditAnswer("conflict") /\ Going
           ELSE IF Expired(op.meta) THEN AuditAnswer("expired") /\ Going
           ELSE IF ~Valid \/ files # "whole" THEN AuditAnswer("conflict") /\ Going
           ELSE IF known.status = "audit_pending" THEN Audit(Completed, "complete") /\ Going
           ELSE /\ op' = [op EXCEPT !.pc = "answer", !.entry = Completed,
                                    !.status = "completed"]
                /\ Going
    /\ Quiet

(* The workspace is made new and filled by the caller's transaction. *)
ExportCallback ==
    /\ op.kind = "export" /\ At("callback")
    /\ \/ files = "none" /\ files' = "whole" /\ Goto("verified")
       \/ /\ files' \in {files, "partial"}
          /\ op' = [op EXCEPT !.pc = "clear", !.status = "threw"]
    /\ Going /\ NoFault
    /\ UNCHANGED <<now, side, journal, head, receipt, crashes>>

ExportVerified ==
    /\ op.kind = "export" /\ At("verified")
    /\ LET new == Exported("audit_pending")
       IN  IF Expired(op.meta)
           THEN /\ op' = [op EXCEPT !.pc = "clear", !.status = "expired"]
                /\ Going /\ NoFault /\ side' = side
           ELSE \/ /\ NoFault /\ side' = new /\ Going
                   /\ op' = [op EXCEPT !.meta = new, !.pc = "audit", !.then = "complete",
                                       !.entry = Entry("export", op.id, "completed")]
                \/ SaveFails(new) /\ Finish("audit_failed")
    /\ UNCHANGED <<now, journal, head, receipt, files, crashes>>

CompleteExport ==
    /\ At("complete")
    /\ LET new == [op.meta EXCEPT !.export.status = "completed"]
       IN  IF op.kind = "recover" /\ Completed \notin Range(journal)
           THEN Finish("done") /\ NoFault /\ side' = side
           ELSE \/ /\ NoFault /\ side' = new
                   /\ IF op.kind = "recover" THEN Finish("done")
                      ELSE IF Expired(op.meta)
                      THEN AuditAnswer("expired") /\ Going
                      ELSE Finish("completed")
                \/ SaveFails(new) /\ Trouble("faulted")
    /\ UNCHANGED <<now, journal, head, receipt, files, crashes>>

(* The plaintext goes before its registration. *)
ClearExport ==
    /\ At("clear")
    /\ \/ files' = "none" /\ Goto("cleared") /\ Going /\ NoFault
       \/ files' = files /\ Finish("threw") /\ Fault
    /\ UNCHANGED <<now, side, journal, head, receipt, crashes>>

UnregisterExport ==
    /\ At("cleared")
    /\ LET new == [op.meta EXCEPT !.export = NoExport]
       IN  \/ /\ NoFault /\ side' = new
              /\ IF op.kind = "recover" THEN Finish("done")
                 ELSE IF op.status = "expired"
                 THEN /\ op' = [op EXCEPT !.meta = new, !.pc = "audit", !.then = "answer",
                                          !.entry = Entry("export", op.id, "expired")]
                      /\ Going
                 ELSE Finish("threw")
           \/ SaveFails(new) /\ Finish("threw")
    /\ UNCHANGED <<now, journal, head, receipt, files, crashes>>

----------------------------------------------------------------------------
(* Deletion.                                                               *)

WriteReceipt(disposition, then) ==
    LET new == [status |-> "pending", disposition |-> disposition, at |-> now]
    IN  \/ receipt' = new /\ then /\ Going /\ NoFault
        \/ receipt' \in {receipt, new} /\ Finish("faulted") /\ Fault

(* The owner deletes at once; an export in progress is left to recovery. *)
DecideDeletion ==
    /\ Deciding("delete")
    /\ IF op.meta.export.status = "pending"
       THEN Finish("pending") /\ NoFault /\ receipt' = receipt
       ELSE WriteReceipt("early", Audit(Entry("delete", "owner", "pending"), "erase"))
    /\ UNCHANGED <<now, side, journal, head, files, crashes>>

DecideSweep ==
    /\ Deciding("sweep")
    /\ IF op.meta.export.status = "pending" \/ ~Expired(op.meta)
       THEN Finish("done") /\ NoFault /\ receipt' = receipt
       ELSE WriteReceipt("scheduled", Goto("erase"))
    /\ UNCHANGED <<now, side, journal, head, files, crashes>>

(* The key and every file of the archive go; the completion is audited. *)
Erase ==
    /\ At("erase")
    /\ \/ /\ side' = NoSide /\ files' = "none" /\ Going /\ NoFault
          /\ Audit(Entry("delete", receipt.disposition, "completed"), "receipt")
       \/ /\ side' \in {side, NoSide} /\ files' = files
          /\ Finish("faulted") /\ Fault
    /\ UNCHANGED <<now, journal, head, receipt, crashes>>

CompleteReceipt ==
    /\ At("receipt")
    /\ \/ receipt' = [receipt EXCEPT !.status = "completed"]
          /\ Finish(IF op.kind = "recover" THEN "done" ELSE "completed") /\ NoFault
       \/ receipt' = receipt /\ Finish("faulted") /\ Fault
    /\ UNCHANGED <<now, side, journal, head, files, crashes>>

----------------------------------------------------------------------------
(* The process stops, restarts and recovers before it serves.              *)

Crash ==
    /\ process # "down" /\ crashes < MaxCrashes
    /\ process' = "down" /\ crashes' = crashes + 1
    /\ journal' \in IF At("audit") /\ Appendable THEN Remains ELSE {journal}
    /\ head' = IF journal' = journal THEN head ELSE Len(journal)
    /\ op' = NoOp /\ degraded' = FALSE /\ answer' = NoAnswer
    /\ UNCHANGED <<now, side, receipt, files, faults>>

(* Recovery reads the journal, finishes a deletion, reconciles a pending   *)
(* extension and takes an export back or to its end.                       *)
Recover ==
    /\ process = "down"
    /\ degraded' = ~Valid
    /\ head' = IF Valid THEN Len(journal) ELSE head
    /\ process' = IF receipt.status = "completed" THEN "up" ELSE "recovering"
    /\ op' = CASE receipt.status = "none" -> Load("recover", "recover", 0)
               [] receipt.status = "pending" -> Resume("recover", "recover")
               [] OTHER -> NoOp
    /\ IF receipt.status = "completed"
       THEN side' = NoSide /\ files' = "none"
       ELSE UNCHANGED <<side, files>>
    /\ UNCHANGED <<now, journal, receipt, answer, faults, crashes>>

DecideRecovery ==
    /\ Deciding("recover")
    /\ CASE op.meta.export.status = "pending" -> Goto("clear") /\ Going
         [] op.meta.export.status = "audit_pending" ->
              IF ~Valid \/ files # "whole" \/ journal = <<>> THEN Finish("threw")
              ELSE op' = [op EXCEPT !.pc = "anchor", !.then = "complete"] /\ Going
         [] OTHER -> Finish("done")
    /\ Quiet

Tick ==
    /\ now < MaxNow /\ now' = now + 1
    /\ UNCHANGED <<process, degraded, disk, op, answer, faults, crashes>>

----------------------------------------------------------------------------
Steps ==
    \/ AppendAudit \/ WriteHead \/ Anchor \/ GiveAnswer \/ Settle \/ CommitExtension
    \/ DecideExtension \/ DecideReview \/ ReviewCallback \/ ViewRetention
    \/ DecideNewExport \/ DecideKnownExport \/ ExportCallback \/ ExportVerified
    \/ CompleteExport \/ ClearExport \/ UnregisterExport
    \/ DecideDeletion \/ DecideSweep \/ Erase \/ CompleteReceipt \/ DecideRecovery

Next ==
    \/ Steps \/ Begin \/ ResumeDeletion \/ BeginSweep \/ Crash \/ Recover \/ Tick

(* An operation comes to its answer, the process is started again, and the *)
(* lock of the archive lets the hourly sweep have its turn.                *)
Progress == Steps \/ Recover

Fairness == WF_vars(Progress) /\ SF_vars(BeginSweep)

Spec == Init /\ [][Next]_vars /\ Fairness

----------------------------------------------------------------------------
(* Properties.                                                             *)

Ids == Extensions \cup Exports \cup {"none", "owner", "sweep", "reviewer", "stranger", "recover"}
Times == 0..(LastDeadline + 1)
Sides ==
    [phase : {"none", "sealed", "FINALIZATION_FAILED"}, deadline : Times,
     used : BOOLEAN, pending : [id : Ids, deadline : Times],
     export : [status : {"none", "pending", "audit_pending", "completed"}, id : Ids],
     audited : BOOLEAN, extended : [id : Ids, deadline : Times]]

(* The journal never outgrows its bound, its head runs at most one entry   *)
(* behind, and reviews leave the rest of it to the owner.                  *)
TypeOK ==
    /\ process \in {"up", "down", "recovering"} /\ degraded \in BOOLEAN
    /\ now \in 0..MaxNow
    /\ side \in Sides /\ op.meta \in Sides
    /\ files \in {"none", "partial", "whole"}
    /\ Len(journal) <= JournalCap /\ head \in {Len(journal) - 1, Len(journal)}
    /\ Cardinality({i \in DOMAIN journal : journal[i].action = "review"}) <= ReviewCap
    /\ faults \in 0..MaxFaults /\ crashes \in 0..MaxCrashes

(* An extension whose audit is durable is kept: whatever failed after it,  *)
(* no sweep deletes the archive before the deadline it granted.            *)
ExtendedHolds ==
    \A i \in DOMAIN journal :
        /\ journal[i].action = "extend" /\ journal[i].outcome = "completed"
        /\ receipt.disposition = "scheduled"
        => receipt.at >= journal[i].deadline

(* Nobody is told of an extension, an export or a review that is not in    *)
(* the part of the journal its head vouches for.                           *)
AnswersAreAudited ==
    /\ answer.kind \in {"extend", "export", "review"}
    /\ answer.status \in {"extended", "completed"}
    => \E i \in 1..head : journal[i] = answer.entry /\ answer.entry.outcome = "completed"

(* A decision of a command is audited once, however often it is retried    *)
(* over failed writes and restarts.                                        *)
AuditedOnce ==
    \A i, j \in DOMAIN journal :
        journal[i] = journal[j] /\ i # j => journal[i].action = "review"

(* Plaintext exists only under a registration that deletion and recovery   *)
(* will find, and a completed export is whole and in the journal.          *)
ExportIsRegistered ==
    /\ files # "none" => side.export.status # "none" \/ receipt.status = "pending"
    /\ side.export.status = "completed" /\ receipt.status = "none" =>
           /\ files = "whole"
           /\ Entry("export", side.export.id, "completed") \in Range(journal)

(* The owner can delete although the audit is corrupt. *)
DeletionContinues == ~(answer.kind = "delete" /\ answer.status = "threw")

(* What keeps the sweep from an archive: a torn audit, an export that was  *)
(* left pending, a recovery that was degraded.                             *)
Troubled == Torn \in Range(journal) \/ side.export.status = "pending" \/ degraded

(* An archive whose deadline has passed is erased, and an erasure that was *)
(* begun is completed.                                                     *)
DueIsErased ==
    (receipt.status = "pending" \/ (receipt.status = "none" /\ now >= side.deadline))
        ~> (receipt.status = "completed" \/ Troubled \/ now < side.deadline)
=============================================================================
