------------------------------ MODULE MCEvidence ------------------------------
(***************************************************************************)
(* Three parts of the evidence store, checked side by side in one run: a   *)
(* behaviour is one of the archive of a session, of the governance of a    *)
(* closed archive, or of the leases of its processes.  They share no       *)
(* variable here, and what is fair in a part is disabled where it begins.  *)
(***************************************************************************)
EXTENDS EvidenceArchive

CONSTANTS
  Extensions, Exports, FirstDeadline, LastDeadline, MaxNow,  \* the governance
  ReviewCap, JournalCap, OwnerOperations, GovernanceCrashes,
  Processes, MaxMarkers, MaxOperations, MaxReclaims          \* the leases

VARIABLES
  part,
  rprocess, degraded, now, rside, journal, head, rreceipt, rfiles, rop, ranswer,
  rfaults, rcrashes,
  alive, markers, made, proc

Retention == INSTANCE EvidenceRetention WITH
  Operations <- OwnerOperations, MaxCrashes <- GovernanceCrashes,
  process <- rprocess, side <- rside, receipt <- rreceipt, files <- rfiles,
  op <- rop, answer <- ranswer, faults <- rfaults, crashes <- rcrashes
Lease == INSTANCE EvidenceRootLease WITH files <- markers

ASSUME GovernanceAssumption == Retention!RetentionAssumption

retentionVars == <<rprocess, degraded, now, rside, journal, head, rreceipt, rfiles, rop,
                   ranswer, rfaults, rcrashes>>
leaseVars == <<alive, markers, made, proc>>

MCInit ==
  /\ part \in {"archive", "retention", "lease"}
  /\ Init /\ Retention!Init /\ Lease!Init
  /\ part # "retention" => rside.phase = "sealed"

allVars == <<part, vars, retentionVars, leaseVars>>

InArchive(A) == part = "archive" /\ A /\ UNCHANGED <<part, retentionVars, leaseVars>>
InRetention(A) == part = "retention" /\ A /\ UNCHANGED <<part, vars, leaseVars>>
InLease(A) == part = "lease" /\ A /\ UNCHANGED <<part, vars, retentionVars>>

MCNext == InArchive(Next) \/ InRetention(Retention!Next) \/ InLease(Lease!Next)

\* A behaviour stays in its part, so the fairness of an action of each part is
\* that of their disjunction.
MCFairness ==
  /\ WF_allVars(InArchive(Progress) \/ InRetention(Retention!Progress))
  /\ SF_allVars(InRetention(Retention!BeginSweep))

MCSpec == MCInit /\ [][MCNext]_allVars /\ MCFairness

-----------------------------------------------------------------------------
\* An extension that was audited holds against the sweep.
ExtendedHolds == Retention!ExtendedHolds

\* An answer is in the audit, once, and plaintext only where it is registered.
AuditHolds ==
  /\ part = "retention" => Retention!TypeOK
  /\ Retention!AnswersAreAudited /\ Retention!AuditedOnce /\ Retention!ExportIsRegistered

\* What is due is erased by the sweeps, or found open to an extension or broken.
DueIsErased == Retention!DueIsErased

\* Operations of two processes never touch the roots together, and the marker of
\* a live holder is not taken from it.
LeaseHolds == part = "lease" => Lease!LeaseHolds
=============================================================================
