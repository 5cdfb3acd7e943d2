---------------------------- MODULE EvidenceProofs ----------------------------
(***************************************************************************)
(* What holds of the governance of a closed archive and of the leases on   *)
(* the evidence roots, as MCEvidence composes them, for every set of       *)
(* commands, deadlines, caps and processes and whatever the bounds.        *)
(***************************************************************************)
EXTENDS MCEvidence, SequenceTheorems, FiniteSetTheorems, TLAPS

-----------------------------------------------------------------------------
(***************************************************************************)
(* The governance of a closed archive (EvidenceRetention): the invariant.  *)
(***************************************************************************)
Kinds == {"none", "extend", "export", "review", "view", "delete", "sweep", "recover"}
Places == {"none", "settle", "decide", "callback", "verified", "clear", "cleared",
           "audit", "head", "anchor", "commit", "complete", "answer", "erase", "receipt"}
Outcomes == {"none", "extended", "completed", "conflict", "rejected", "grant_denied",
             "not_sealed", "expired", "pending", "threw"}
Entries == [action : Kinds \cup {"torn"},
            id : Retention!Ids \cup {"early", "scheduled"}, outcome : Outcomes,
              deadline : Retention!Times]
Ops == [kind : Kinds, pc : Places, id : Retention!Ids, deadline : Retention!Times,
        meta : Retention!Sides,
        entry : Entries, then : Places, status : Outcomes]
Receipts == [status : {"none", "pending", "completed"},
             disposition : {"none", "early", "scheduled"}, at : Nat]

TypeInv ==
  /\ rprocess \in {"up", "down", "recovering"} /\ degraded \in BOOLEAN /\ now \in 0..MaxNow
  /\ rside \in Retention!Sides /\ journal \in Seq(Entries) /\ head \in Nat /\ rreceipt \in Receipts
  /\ rfiles \in {"none", "partial", "whole"} /\ rop \in Ops
  /\ rfaults \in 0..MaxFaults /\ rcrashes \in 0..GovernanceCrashes

\* What the journal holds, the part that its head vouches for, and its reviews.
Written == {journal[i] : i \in 1..Len(journal)}
Vouched == {journal[i] : i \in 1..head}
Reviews == {i \in 1..Len(journal) : journal[i].action = "review"}

JournalInv ==
  /\ Len(journal) <= JournalCap /\ head <= Len(journal) /\ Len(journal) <= head + 1
  /\ Cardinality(Reviews) <= ReviewCap
  /\ Retention!AuditedOnce

\* The extension that is pending in what the operation knows of the sidecar, and
\* the extensions that the journal grants.
Pending == Retention!Extension(rop.meta.pending.id, rop.meta.pending.deadline)
Granted(e) == e.action = "extend" /\ e.outcome = "completed"

\* An operation that claims its decision has it in its audit entry.
Claimed == rop.status \in {"extended", "completed"}

\* The entry that is to be appended is the one of the decision.
Entered ==
  \/ rop.then = "commit" /\ rop.kind = "extend" /\ rop.meta.pending # Retention!None
       /\ rop.entry = Pending
  \/ /\ rop.then = "complete" /\ rop.kind = "export" /\ rop.meta.export.status = "audit_pending"
     /\ rop.entry = Retention!Completed
  \/ /\ rop.then = "answer" /\ rop.kind \in {"extend", "export", "review"}
     /\ rop.entry.action = rop.kind
     /\ rop.kind = "extend" => ~Granted(rop.entry)
     /\ Claimed => rop.entry.outcome = "completed"

\* What the operation goes on with has its entry in the vouched journal.
Audited(then) ==
  \/ /\ then = "commit" /\ rop.meta.pending # Retention!None /\ Pending \in Vouched
     /\ rop.entry # Retention!NoEntry => rop.kind = "extend" /\ rop.entry = Pending
  \/ /\ then = "complete" /\ rop.meta.export.status = "audit_pending"
     /\ \/ rop.kind = "export" /\ rop.entry = Retention!Completed /\ Retention!Completed \in Vouched
        \/ rop.kind = "recover" /\ rop.entry = Retention!NoEntry /\ head = Len(journal)
  \/ /\ then = "answer" /\ rop.kind \in {"extend", "export", "review"}
     /\ Claimed => rop.entry.outcome = "completed" /\ rop.entry \in Vouched

\* Who operates; a recovery has read the whole journal, if it can be read.
Alert ==
  /\ rop.kind \in Kinds \ {"none"}
  /\ rop.kind = "extend" => rop.id \in Extensions
  /\ rop.kind = "recover" => (Retention!Valid => head = Len(journal))

\* An operation on an archive that nobody deletes.
Living ==
  /\ Alert /\ rop.pc \notin {"none", "erase", "receipt"}
  /\ rop.pc \in {"settle", "decide"} => rop.entry = Retention!NoEntry
  /\ rop.pc = "settle" => rop.meta.pending # Retention!None
  /\ rop.pc = "decide" => rop.meta.pending = Retention!None \/ rop.kind = "review"
  /\ rop.pc = "callback" =>
       rop.kind = "review" \/ (rop.kind = "export" /\ rop.meta.export.status = "pending")
  /\ rop.pc = "verified" =>
       rop.kind = "export" /\ rop.meta.export.status = "pending" /\ rfiles = "whole"
  /\ rop.pc \in {"clear", "cleared"} =>
       rop.kind \in {"export", "recover"} /\ rop.meta.export.status = "pending"
  /\ rop.pc = "cleared" => rfiles = "none"
  /\ rop.pc \in {"audit", "head"} => Entered
  /\ rop.pc = "head" => rop.entry \in Written
  /\ rop.pc = "anchor" => Audited(rop.then)
  /\ rop.pc \in {"commit", "complete", "answer"} => Audited(rop.pc)
  /\ rop.pc = "complete" => rop.meta.audited
  /\ rop.kind = "review" /\ rop.pc \in {"callback", "audit"} => Len(journal) < ReviewCap

\* It knows the sidecar as it is, unless it only has to answer.
Knows ==
  \/ rop.meta = rside
  \/ rop.pc \in {"audit", "head", "anchor"} /\ rop.then = "answer" /\ rop.meta.audited
  \/ rop.pc = "answer"

\* A deletion is on its way, and completes when the plaintext is gone.
Erasing ==
  /\ rop.kind \in {"delete", "sweep", "recover"}
  /\ \/ rop.pc = "erase"
     \/ rop.pc = "receipt" /\ rfiles = "none"
     \/ /\ rop.pc \in {"audit", "head", "anchor"} /\ rop.entry.action = "delete"
        /\ rop.then = "erase" \/ (rop.then = "receipt" /\ rfiles = "none")

OpInv ==
  \/ rop = Retention!NoOp /\ (rreceipt.status = "completed" => rfiles = "none")
  \/ rreceipt.status = "none" /\ Living /\ Knows
  \/ rreceipt.status = "pending" /\ Erasing

\* What was granted holds in the sidecar, or is pending there.
ExtensionInv ==
  /\ rreceipt.status = "none" =>
       /\ rreceipt.disposition = "none"
       /\ rside.pending # Retention!None => rside.deadline <= rside.pending.deadline
       /\ \A i \in 1..Len(journal) : Granted(journal[i]) =>
            \/ journal[i].deadline <= rside.deadline
            \/ journal[i] = Retention!Extension(rside.pending.id, rside.pending.deadline)
       /\ rside.extended # Retention!None =>
            Retention!Extension(rside.extended.id, rside.extended.deadline) \in Vouched
  /\ Retention!ExtendedHolds

ExportInv ==
  rreceipt.status = "none" =>
    /\ rfiles # "none" => rside.export.status # "none"
    /\ rside.export.status = "none" => rside.export = Retention!NoExport
    /\ rside.export.status \in {"audit_pending", "completed"} => rfiles = "whole"
    /\ rside.export.status = "completed"
         => Retention!Entry("export", rside.export.id, "completed") \in Vouched

AnswerInv ==
  ranswer.kind \in {"extend", "export", "review"} /\ ranswer.status \in {"extended", "completed"} =>
    ranswer.entry \in Vouched /\ ranswer.entry.outcome = "completed"

RetentionInv == TypeInv /\ JournalInv /\ OpInv /\ ExtensionInv /\ ExportInv /\ AnswerInv

-----------------------------------------------------------------------------
(***************************************************************************)
(* Types of the governance.                                                *)
(***************************************************************************)
LEMMA RecordTypes ==
  /\ Retention!NoSide \in Retention!Sides /\ Retention!NoEntry \in Entries
       /\ Retention!NoOp \in Ops /\ Retention!NoReceipt \in Receipts
  /\ Retention!None \in [id : Retention!Ids, deadline : Retention!Times]
  /\ Retention!Torn \in Entries
<1>1. 0 \in Retention!Times
        /\ {"none", "owner", "sweep", "reviewer", "stranger", "recover"} \subseteq Retention!Ids
  BY GovernanceAssumption DEF Retention!RetentionAssumption, Retention!Times, Retention!Ids
<1>2. Retention!None \in [id : Retention!Ids, deadline : Retention!Times]
  BY <1>1 DEF Retention!None
<1>3. Retention!NoSide \in Retention!Sides
  BY <1>1, <1>2 DEF Retention!NoSide, Retention!Sides, Retention!NoExport
<1>4. Retention!NoEntry \in Entries
  BY <1>1 DEF Retention!NoEntry, Entries, Kinds, Outcomes
<1>5. Retention!Torn \in Entries
  BY <1>1 DEF Retention!NoEntry, Entries, Kinds, Outcomes, Retention!Torn, Retention!Entry
<1>6. Retention!NoOp \in Ops
  BY <1>1, <1>3, <1>4 DEF Retention!NoOp, Ops, Kinds, Outcomes, Places
<1>7. Retention!NoReceipt \in Receipts
  BY DEF Retention!NoReceipt, Receipts
<1>. QED  BY <1>2, <1>3, <1>4, <1>5, <1>6, <1>7

LEMMA EntryType ==
  ASSUME NEW action \in Kinds, NEW id \in Retention!Ids \cup {"early", "scheduled"},
         NEW outcome \in Outcomes
  PROVE  /\ Retention!Entry(action, id, outcome) \in Entries
         /\ Retention!Entry(action, id, outcome).action = action
         /\ Retention!Entry(action, id, outcome).id = id
         /\ Retention!Entry(action, id, outcome).outcome = outcome
         /\ Retention!Entry(action, id, outcome).deadline = 0
BY RecordTypes DEF Retention!Entry, Entries, Retention!NoEntry

LEMMA OutcomeEdit ==
  ASSUME NEW e \in Entries, NEW s \in Outcomes
  PROVE  LET x == [e EXCEPT !.outcome = s] IN
         /\ x \in Entries /\ x.action = e.action /\ x.id = e.id /\ x.outcome = s
         /\ x.deadline = e.deadline
BY DEF Entries

LEMMA ExtensionType ==
  ASSUME NEW id \in Retention!Ids, NEW d \in Retention!Times
  PROVE  /\ Retention!Extension(id, d) \in Entries /\ Retention!Extension(id, d).action = "extend"
         /\ Retention!Extension(id, d).id = id /\ Retention!Extension(id, d).deadline = d
         /\ Retention!Extension(id, d).outcome = "completed"
BY DEF Retention!Extension, Entries, Kinds, Outcomes

\* The fields of an operation.
LEMMA OpFields ==
  ASSUME NEW o \in Ops
  PROVE  /\ o.kind \in Kinds /\ o.pc \in Places /\ o.id \in Retention!Ids
              /\ o.deadline \in Retention!Times
         /\ o.meta \in Retention!Sides /\ o.entry \in Entries /\ o.then \in Places
              /\ o.status \in Outcomes
         /\ o.meta.pending \in [id : Retention!Ids, deadline : Retention!Times]
              /\ o.meta.deadline \in Retention!Times
         /\ o.meta.export.id \in Retention!Ids
BY DEF Ops, Retention!Sides

\* An operation and a sidecar that change some fields.
LEMMA OpEdit ==
  ASSUME NEW o \in Ops
  PROVE  /\ \A p \in Places : [o EXCEPT !.pc = p] \in Ops
         /\ \A p \in Places, m \in Retention!Sides : [o EXCEPT !.meta = m, !.pc = p] \in Ops
         /\ \A p \in Places, t \in Places : [o EXCEPT !.pc = p, !.then = t] \in Ops
         /\ \A p \in Places, s \in Outcomes : [o EXCEPT !.pc = p, !.status = s] \in Ops
         /\ \A p \in Places, e \in Entries, t \in Places :
              [o EXCEPT !.pc = p, !.entry = e, !.then = t] \in Ops
         /\ \A p \in Places, e \in Entries, s \in Outcomes :
              [o EXCEPT !.pc = p, !.entry = e, !.status = s] \in Ops
         /\ \A p \in Places, e \in Entries, t \in Places, s \in Outcomes :
              [o EXCEPT !.pc = p, !.entry = e, !.then = t, !.status = s] \in Ops
         /\ \A p \in Places, e \in Entries, t \in Places, m \in Retention!Sides :
              /\ [o EXCEPT !.meta = m, !.pc = p, !.entry = e, !.then = t] \in Ops
              /\ [o EXCEPT !.meta = m, !.pc = p, !.then = t, !.entry = e] \in Ops
BY DEF Ops

LEMMA SideEdit ==
  ASSUME NEW m \in Retention!Sides
  PROVE  /\ [m EXCEPT !.audited = TRUE] \in Retention!Sides
         /\ \A p \in [id : Retention!Ids, deadline : Retention!Times] :
              /\ [m EXCEPT !.pending = p] \in Retention!Sides
              /\ [m EXCEPT !.pending = Retention!None, !.deadline = p.deadline, !.used = TRUE,
                           !.extended = p] \in Retention!Sides
         /\ \A i \in Retention!Ids, s \in {"none", "pending", "audit_pending", "completed"} :
              /\ [m EXCEPT !.export = [status |-> s, id |-> i]] \in Retention!Sides
              /\ [m EXCEPT !.export.status = s] \in Retention!Sides
         /\ [m EXCEPT !.export = Retention!NoExport] \in Retention!Sides
<1>1. "none" \in Retention!Ids
        /\ Retention!None \in [id : Retention!Ids, deadline : Retention!Times]
  BY RecordTypes DEF Retention!Ids
<1>2. [m EXCEPT !.audited = TRUE] \in Retention!Sides
  BY DEF Retention!Sides
<1>3. ASSUME NEW p \in [id : Retention!Ids, deadline : Retention!Times]
      PROVE  /\ [m EXCEPT !.pending = p] \in Retention!Sides
             /\ [m EXCEPT !.pending = Retention!None, !.deadline = p.deadline, !.used = TRUE,
                          !.extended = p] \in Retention!Sides
  BY <1>1 DEF Retention!Sides
<1>4. ASSUME NEW i \in Retention!Ids, NEW s \in {"none", "pending", "audit_pending", "completed"}
      PROVE  /\ [m EXCEPT !.export = [status |-> s, id |-> i]] \in Retention!Sides
             /\ [m EXCEPT !.export.status = s] \in Retention!Sides
  BY DEF Retention!Sides
<1>5. [m EXCEPT !.export = Retention!NoExport] \in Retention!Sides
  BY <1>1 DEF Retention!Sides, Retention!NoExport
<1>. QED  BY <1>2, <1>3, <1>4, <1>5

Typed == rop' \in Ops /\ rprocess' \in {"up", "down", "recovering"} /\ degraded' \in BOOLEAN

LEMMA FinishType ==
  ASSUME TypeInv, NEW s, Retention!Finish(s)
  PROVE  /\ Typed /\ rop' = Retention!NoOp /\ ranswer'.kind = rop.kind /\ ranswer'.status = s
         /\ ranswer'.entry = rop.entry
<1>1. rop' = Retention!NoOp /\ rprocess' = "up" /\ rop' \in Ops
  BY RecordTypes DEF Retention!Finish
<1>2. degraded' \in BOOLEAN
  BY DEF Retention!Finish
<1>3. ranswer'.kind = rop.kind /\ ranswer'.status = s /\ ranswer'.entry = rop.entry
  BY DEF Retention!Finish
<1>. QED  BY <1>1, <1>2, <1>3 DEF Typed

LEMMA GoingType == ASSUME TypeInv, Retention!Going, rop' \in Ops PROVE Typed
BY DEF TypeInv, Retention!Going, Typed

LEMMA GotoType ==
  ASSUME TypeInv, NEW p \in Places, Retention!Goto(p)
  PROVE  rop' \in Ops
BY OpEdit DEF TypeInv, Retention!Goto

LEMMA FaultType == ASSUME TypeInv, Retention!Fault
  \/ Retention!NoFault PROVE rfaults' \in 0..MaxFaults
BY GovernanceAssumption DEF TypeInv, Retention!Fault, Retention!NoFault,
   Retention!RetentionAssumption

LEMMA TroubleType ==
  ASSUME TypeInv, NEW why, Retention!Trouble(why)
  PROVE  /\ Typed /\ rop' = Retention!NoOp /\ ranswer'.kind = rop.kind
         /\ ranswer'.status \in {"rejected", "grant_denied", "audit_failed", why}
<1>1. PICK s \in {"rejected", "grant_denied", "audit_failed", why} : Retention!Finish(s)
  BY DEF Retention!Trouble
<1>. QED  BY <1>1, FinishType

LEMMA AuditFailsType ==
  ASSUME TypeInv, NEW why, Retention!AuditFails(why)
  PROVE  Typed
<1>1. CASE rop.then \in {"erase", "receipt"}
  BY <1>1, GotoType, GoingType, OpFields DEF TypeInv, Retention!AuditFails
<1>2. CASE rop.then \notin {"erase", "receipt"}
  BY <1>2, TroubleType DEF Retention!AuditFails
<1>. QED  BY <1>1, <1>2

LEMMA AuditType ==
  ASSUME TypeInv, NEW e \in Entries, NEW t \in Places, Retention!Audit(e, t)
  PROVE  rop' \in Ops
<1>1. rop \in Ops /\ "audit" \in Places
  BY DEF TypeInv, Places
<1>2. [rop EXCEPT !.pc = "audit", !.entry = e, !.then = t] \in Ops
  BY <1>1, OpEdit
<1>. QED  BY <1>2 DEF Retention!Audit

LEMMA AuditAnswerType ==
  ASSUME TypeInv, NEW s \in Outcomes, Retention!AuditAnswer(s)
  PROVE  rop' \in Ops
<1>1. Retention!Entry(rop.kind, rop.id, s) \in Entries
  BY EntryType, OpFields DEF TypeInv
<1>2. rop \in Ops /\ "audit" \in Places /\ "answer" \in Places
  BY DEF TypeInv, Places
<1>3. [rop EXCEPT !.pc = "audit", !.entry = Retention!Entry(rop.kind, rop.id, s),
                  !.then = "answer", !.status = s] \in Ops
  BY <1>1, <1>2, OpEdit
<1>. QED  BY <1>3 DEF Retention!AuditAnswer

LEMMA SaveType ==
  ASSUME TypeInv, NEW m \in Retention!Sides, NEW p \in Places, Retention!Save(m, p)
  PROVE  Typed /\ rside' \in Retention!Sides /\ rfaults' \in 0..MaxFaults
<1>1. rop' \in Ops
  BY OpEdit DEF TypeInv, Retention!Save
<1>. QED  BY <1>1, GoingType, FaultType DEF Retention!Save

LEMMA SaveFailsType ==
  ASSUME TypeInv, NEW m \in Retention!Sides, Retention!SaveFails(m)
  PROVE  rside' \in Retention!Sides /\ rfaults' \in 0..MaxFaults
BY FaultType DEF Retention!SaveFails, TypeInv

LEMMA RemainsType == ASSUME TypeInv, NEW j \in Retention!Remains PROVE j \in Seq(Entries)
<1>1. journal \in Seq(Entries) /\ rop.entry \in Entries /\ Retention!Torn \in Entries
  BY RecordTypes, OpFields DEF TypeInv
<1>2. j \in {journal, Append(journal, rop.entry), Append(journal, Retention!Torn)}
  BY DEF Retention!Remains
<1>. QED  BY <1>1, <1>2

Rest == rside' \in Retention!Sides /\ rfaults' \in 0..MaxFaults

LEMMA TypesOfStep ==
  ASSUME TypeInv, Typed, Rest, now' \in 0..MaxNow, journal' \in Seq(Entries), head' \in Nat,
         rreceipt' \in Receipts, rfiles' \in {"none", "partial", "whole"},
         rcrashes' \in 0..GovernanceCrashes
  PROVE  TypeInv'
BY DEF TypeInv, Typed, Rest

LEMMA QuietType == ASSUME TypeInv, Typed, Retention!Quiet PROVE TypeInv'
BY FaultType DEF TypeInv, Typed, Retention!Quiet, Retention!disk

\* An operation that only touches the sidecar.
SideOnly == UNCHANGED <<now, journal, head, rreceipt, rfiles, rcrashes>>

LEMMA SideOnlyType == ASSUME TypeInv, Typed, Rest, SideOnly PROVE TypeInv'
BY TypesOfStep DEF TypeInv, SideOnly

LEMMA SameSideType == ASSUME TypeInv, Retention!NoFault, rside' = rside PROVE Rest
BY FaultType DEF TypeInv, Rest

LEMMA AuditStepsType ==
  ASSUME TypeInv, Retention!AppendAudit \/ Retention!WriteHead \/ Retention!Anchor
           \/ Retention!GiveAnswer
  PROVE  TypeInv'
<1>1. CASE Retention!AppendAudit
  <2>1. /\ UNCHANGED <<now, rside, rreceipt, rfiles, rcrashes>> /\ head' \in Nat
        /\ head' = IF Retention!Valid THEN Len(journal) ELSE head
    BY <1>1 DEF Retention!AppendAudit, TypeInv
  <2>2. /\ Typed /\ journal' \in Seq(Entries) /\ rfaults' \in 0..MaxFaults
    <3>1. CASE Retention!Valid /\ Retention!Present(rop.entry)
      <4>1. Retention!Goto("anchor") /\ Retention!Going /\ Retention!NoFault /\ journal' = journal
        BY <1>1, <3>1 DEF Retention!AppendAudit, Retention!Appendable
      <4>. QED  BY <4>1, GotoType, GoingType, FaultType DEF TypeInv, Places
    <3>2. CASE ~(Retention!Valid /\ Retention!Present(rop.entry)) /\ Retention!Appendable
      <4>1. \/ journal' = Append(journal, rop.entry) /\ Retention!Goto("head")
                 /\ Retention!Going /\ Retention!NoFault
            \/ journal' \in Retention!Remains /\ Retention!AuditFails("faulted") /\ Retention!Fault
        BY <1>1, <3>2 DEF Retention!AppendAudit, Retention!Appendable
      <4>2. CASE journal' = Append(journal, rop.entry) /\ Retention!Goto("head")
                   /\ Retention!Going /\ Retention!NoFault
        BY <4>2, GotoType, GoingType, FaultType, OpFields DEF TypeInv, Places
      <4>3. CASE journal' \in Retention!Remains /\ Retention!AuditFails("faulted")
                   /\ Retention!Fault
        BY <4>3, AuditFailsType, RemainsType, FaultType
      <4>. QED  BY <4>1, <4>2, <4>3
    <3>3. CASE ~(Retention!Valid /\ Retention!Present(rop.entry)) /\ ~Retention!Appendable
      <4>1. Retention!AuditFails("threw") /\ Retention!NoFault /\ journal' = journal
        BY <1>1, <3>3 DEF Retention!AppendAudit
      <4>. QED  BY <4>1, AuditFailsType, FaultType DEF TypeInv
    <3>. QED  BY <3>1, <3>2, <3>3
  <2>. QED  BY <2>1, <2>2, TypesOfStep DEF TypeInv, Rest
<1>2. CASE Retention!WriteHead
  <2>1. UNCHANGED <<now, rside, journal, rreceipt, rfiles, rcrashes>> /\ head' \in Nat
    BY <1>2 DEF Retention!WriteHead, TypeInv
  <2>2. Typed /\ rfaults' \in 0..MaxFaults
    <3>1. \/ Retention!Goto("anchor") /\ Retention!Going /\ Retention!NoFault
          \/ Retention!AuditFails("faulted") /\ Retention!Fault
      BY <1>2 DEF Retention!WriteHead
    <3>2. CASE Retention!Goto("anchor") /\ Retention!Going /\ Retention!NoFault
      BY <3>2, GotoType, GoingType, FaultType DEF Places
    <3>3. CASE Retention!AuditFails("faulted") /\ Retention!Fault
      BY <3>3, AuditFailsType, FaultType
    <3>. QED  BY <3>1, <3>2, <3>3
  <2>. QED  BY <2>1, <2>2, TypesOfStep DEF TypeInv, Rest
<1>3. CASE Retention!Anchor
  <2>0. SideOnly
    BY <1>3 DEF Retention!Anchor, SideOnly
  <2>1. rop.then \in Places /\ rop.meta \in Retention!Sides
    BY OpFields DEF TypeInv
  <2>2. PICK marked \in Retention!Sides : marked = [rop.meta EXCEPT !.audited = TRUE]
    BY <2>1, SideEdit
  <2>3. \/ Retention!Goto(rop.then) /\ Retention!Going /\ Retention!NoFault /\ rside' = rside
        \/ Retention!Save(marked, rop.then)
        \/ Retention!SaveFails(marked) /\ Retention!AuditFails("faulted")
    BY <1>3, <2>2 DEF Retention!Anchor
  <2>4. Typed /\ Rest
    <3>1. CASE Retention!Goto(rop.then) /\ Retention!Going /\ Retention!NoFault /\ rside' = rside
      BY <2>1, <3>1, GotoType, GoingType, SameSideType
    <3>2. CASE Retention!Save(marked, rop.then)
      BY <2>1, <3>2, SaveType DEF Rest
    <3>3. CASE Retention!SaveFails(marked) /\ Retention!AuditFails("faulted")
      BY <3>3, SaveFailsType, AuditFailsType DEF Rest
    <3>. QED  BY <2>3, <3>1, <3>2, <3>3
  <2>. QED  BY <2>0, <2>4, SideOnlyType
<1>4. CASE Retention!GiveAnswer
  <2>1. Typed
    BY <1>4, FinishType DEF Retention!GiveAnswer
  <2>2. UNCHANGED <<now, rside, journal, head, rreceipt, rfiles, rfaults, rcrashes>>
    BY <1>4 DEF Retention!GiveAnswer, Retention!disk
  <2>. QED  BY <2>1, <2>2, TypesOfStep DEF TypeInv, Rest
<1>. QED  BY <1>1, <1>2, <1>3, <1>4

LEMMA ExtensionStepsType ==
  ASSUME TypeInv, Retention!Settle \/ Retention!CommitExtension \/ Retention!DecideExtension
  PROVE  TypeInv'
<1>0. /\ rop.then \in Places /\ rop.meta \in Retention!Sides
           /\ rop.meta.pending \in [id : Retention!Ids, deadline : Retention!Times]
      /\ rop.id \in Retention!Ids /\ rop.deadline \in Retention!Times
           /\ Retention!None \in [id : Retention!Ids, deadline : Retention!Times]
      /\ rop \in Ops
  BY OpFields, RecordTypes DEF TypeInv
<1>1. CASE Retention!Settle
  <2>1. UNCHANGED <<now, journal, rreceipt, rfiles, rcrashes>> /\ head' \in Nat
    BY <1>1 DEF Retention!Settle, TypeInv
  <2>2. PICK cleared \in Retention!Sides : cleared = [rop.meta EXCEPT !.pending = Retention!None]
    BY <1>0, SideEdit
  <2>3. \/ Retention!Trouble("threw") /\ Retention!NoFault /\ rside' = rside
        \/ /\ rop' = [rop EXCEPT !.pc = "anchor", !.then = "commit"]
           /\ Retention!Going /\ Retention!NoFault /\ rside' = rside
        \/ Retention!Save(cleared, "decide")
        \/ Retention!SaveFails(cleared) /\ Retention!Trouble("faulted")
    BY <1>1, <2>2 DEF Retention!Settle
  <2>4. Typed /\ Rest
    <3>1. CASE Retention!Trouble("threw") /\ Retention!NoFault /\ rside' = rside
      BY <3>1, TroubleType, SameSideType
    <3>2. CASE /\ rop' = [rop EXCEPT !.pc = "anchor", !.then = "commit"]
               /\ Retention!Going /\ Retention!NoFault /\ rside' = rside
      <4>1. rop' \in Ops
        BY <1>0, <3>2, OpEdit DEF Places
      <4>. QED  BY <3>2, <4>1, GoingType, SameSideType
    <3>3. CASE Retention!Save(cleared, "decide")
      BY <3>3, SaveType DEF Rest, Places
    <3>4. CASE Retention!SaveFails(cleared) /\ Retention!Trouble("faulted")
      BY <3>4, SaveFailsType, TroubleType DEF Rest
    <3>. QED  BY <2>3, <3>1, <3>2, <3>3, <3>4
  <2>. QED  BY <2>1, <2>4, TypesOfStep DEF TypeInv
<1>2. CASE Retention!CommitExtension
  <2>1. SideOnly
    BY <1>2 DEF Retention!CommitExtension, SideOnly
  <2>2. PICK new \in Retention!Sides : new = [rop.meta EXCEPT !.pending = Retention!None,
             !.deadline = rop.meta.pending.deadline, !.used = TRUE, !.extended = rop.meta.pending]
    BY <1>0, SideEdit
  <2>3. \/ Retention!Finish("extended") /\ Retention!NoFault /\ rside' = new
        \/ rop' = [rop EXCEPT !.meta = new, !.pc = "decide"] /\ Retention!Going
             /\ Retention!NoFault /\ rside' = new
        \/ Retention!SaveFails(new) /\ Retention!Trouble("faulted")
    BY <1>2, <2>2 DEF Retention!CommitExtension
  <2>4. Typed /\ Rest
    <3>1. CASE Retention!Finish("extended") /\ Retention!NoFault /\ rside' = new
      BY <3>1, FinishType, FaultType DEF Rest
    <3>2. CASE rop' = [rop EXCEPT !.meta = new, !.pc = "decide"] /\ Retention!Going
                 /\ Retention!NoFault /\ rside' = new
      <4>1. rop' \in Ops
        BY <1>0, <3>2, OpEdit DEF Places
      <4>. QED  BY <3>2, <4>1, GoingType, FaultType DEF Rest
    <3>3. CASE Retention!SaveFails(new) /\ Retention!Trouble("faulted")
      BY <3>3, SaveFailsType, TroubleType DEF Rest
    <3>. QED  BY <2>3, <3>1, <3>2, <3>3
  <2>. QED  BY <2>1, <2>4, SideOnlyType
<1>3. CASE Retention!DecideExtension
  <2>1. SideOnly
    BY <1>3 DEF Retention!DecideExtension, SideOnly
  <2>2. PICK new \in Retention!Sides : new = [rop.meta EXCEPT !.pending = [id |-> rop.id,
                                                                           deadline |-> rop.deadline]]
    BY <1>0, SideEdit
  <2>3. PICK done \in Entries : done = Retention!Extension(rop.id, rop.deadline)
    BY <1>0, ExtensionType
  <2>4. \/ Retention!Finish("rejected") /\ Retention!NoFault /\ rside' = rside
        \/ /\ rop' = [rop EXCEPT !.pc = "answer", !.entry = done, !.status = "extended"]
           /\ Retention!Going /\ Retention!NoFault /\ rside' = rside
        \/ \E s \in {"conflict", "rejected"} :
             /\ rop' = [rop EXCEPT !.pc = "audit", !.entry = [done EXCEPT !.outcome = s],
                                  !.then = "answer", !.status = s]
             /\ Retention!Going /\ Retention!NoFault /\ rside' = rside
        \/ /\ rop' = [rop EXCEPT !.meta = new, !.pc = "audit", !.entry = done, !.then = "commit"]
           /\ Retention!Going /\ Retention!NoFault /\ rside' = new
        \/ Retention!SaveFails(new) /\ Retention!Finish("rejected")
    BY <1>3, <2>2, <2>3 DEF Retention!DecideExtension
  <2>5. Typed /\ Rest
    <3>1. CASE Retention!Finish("rejected") /\ Retention!NoFault /\ rside' = rside
      BY <3>1, FinishType, SameSideType
    <3>2. CASE /\ rop' = [rop EXCEPT !.pc = "answer", !.entry = done, !.status = "extended"]
               /\ Retention!Going /\ Retention!NoFault /\ rside' = rside
      <4>0. "answer" \in Places /\ "extended" \in Outcomes
        BY DEF Places, Outcomes
      <4>1. rop' \in Ops
        BY <1>0, <3>2, <4>0, OpEdit
      <4>. QED  BY <3>2, <4>1, GoingType, SameSideType
    <3>3. ASSUME NEW s \in {"conflict", "rejected"},
                 rop' = [rop EXCEPT !.pc = "audit", !.entry = [done EXCEPT !.outcome = s],
                                   !.then = "answer", !.status = s],
                 Retention!Going, Retention!NoFault, rside' = rside
          PROVE  Typed /\ Rest
      <4>0. s \in Outcomes
        BY <3>3 DEF Outcomes
      <4>3. [done EXCEPT !.outcome = s] \in Entries
        BY <4>0, OutcomeEdit
      <4>1. "audit" \in Places /\ "answer" \in Places
        BY DEF Places
      <4>2. rop' \in Ops
        BY <1>0, <3>3, <4>0, <4>1, <4>3, OpEdit
      <4>. QED  BY <3>3, <4>2, GoingType, SameSideType
    <3>4. CASE /\ rop' = [rop EXCEPT !.meta = new, !.pc = "audit", !.entry = done,
                          !.then = "commit"]
               /\ Retention!Going /\ Retention!NoFault /\ rside' = new
      <4>0. "audit" \in Places /\ "commit" \in Places
        BY DEF Places
      <4>1. rop' \in Ops
        BY <1>0, <3>4, <4>0, OpEdit
      <4>. QED  BY <3>4, <4>1, GoingType, FaultType DEF Rest
    <3>5. CASE Retention!SaveFails(new) /\ Retention!Finish("rejected")
      BY <3>5, SaveFailsType, FinishType DEF Rest
    <3>. QED  BY <2>4, <3>1, <3>2, <3>3, <3>4, <3>5
  <2>. QED  BY <2>1, <2>5, SideOnlyType
<1>. QED  BY <1>1, <1>2, <1>3

LEMMA ReviewStepsType ==
  ASSUME TypeInv, Retention!DecideReview \/ Retention!ReviewCallback \/ Retention!ViewRetention
           \/ Retention!DecideRecovery
  PROVE  TypeInv'
<1>1. CASE Retention!DecideReview
  <2>1. Retention!Quiet
    BY <1>1 DEF Retention!DecideReview
  <2>2. \/ Retention!Finish("audit_failed")
        \/ \E s \in Outcomes : Retention!AuditAnswer(s) /\ Retention!Going
        \/ Retention!Goto("callback") /\ Retention!Going
    <3>1. Len(journal) \in Nat /\ ReviewCap \in Nat
      BY GovernanceAssumption DEF TypeInv, Retention!RetentionAssumption
    <3>0. Len(journal) >= ReviewCap <=> ~(Len(journal) < ReviewCap)
      BY <3>1
    <3>2. CASE ~Retention!Valid \/ ~(Len(journal) < ReviewCap)
      <4>1. Retention!Finish("audit_failed")
        BY <1>1, <3>0, <3>2, Zenon DEF Retention!DecideReview
      <4>. QED  BY <4>1
    <3>3. CASE Retention!Valid /\ Len(journal) < ReviewCap
      <4>1. \/ Retention!AuditAnswer("grant_denied") /\ Retention!Going
            \/ Retention!AuditAnswer("not_sealed") /\ Retention!Going
            \/ Retention!AuditAnswer("expired") /\ Retention!Going
            \/ Retention!Goto("callback") /\ Retention!Going
        BY <1>1, <3>0, <3>3, Zenon DEF Retention!DecideReview
      <4>2. {"grant_denied", "not_sealed", "expired"} \subseteq Outcomes
        BY DEF Outcomes
      <4>. QED  BY <4>1, <4>2
    <3>. QED  BY <3>1, <3>2, <3>3
  <2>3. Typed
    BY <2>2, FinishType, AuditAnswerType, GotoType, GoingType DEF Places
  <2>. QED  BY <2>1, <2>3, QuietType
<1>2. CASE Retention!ReviewCallback
  <2>1. Retention!Quiet
    BY <1>2 DEF Retention!ReviewCallback
  <2>2. Retention!Finish("threw") \/ \E s \in Outcomes : Retention!AuditAnswer(s) /\ Retention!Going
    BY <1>2 DEF Retention!ReviewCallback, Outcomes
  <2>3. Typed
    BY <2>2, FinishType, AuditAnswerType, GoingType
  <2>. QED  BY <2>1, <2>3, QuietType
<1>3. CASE Retention!ViewRetention
  BY <1>3, FinishType, QuietType DEF Retention!ViewRetention
<1>4. CASE Retention!DecideRecovery
  <2>1. Retention!Quiet
    BY <1>4 DEF Retention!DecideRecovery
  <2>2. \/ Retention!Goto("clear") /\ Retention!Going
        \/ Retention!Finish("threw")
        \/ rop' = [rop EXCEPT !.pc = "anchor", !.then = "complete"] /\ Retention!Going
        \/ Retention!Finish("done")
    BY <1>4 DEF Retention!DecideRecovery
  <2>3. CASE rop' = [rop EXCEPT !.pc = "anchor", !.then = "complete"] /\ Retention!Going
    <3>1. rop \in Ops /\ "anchor" \in Places /\ "complete" \in Places
      BY DEF TypeInv, Places
    <3>2. rop' \in Ops
      BY <2>3, <3>1, OpEdit
    <3>. QED  BY <2>1, <2>3, <3>2, GoingType, QuietType
  <2>4. CASE ~(rop' = [rop EXCEPT !.pc = "anchor", !.then = "complete"] /\ Retention!Going)
    <3>1. Typed
      BY <2>2, <2>4, FinishType, GotoType, GoingType DEF Places
    <3>. QED  BY <2>1, <3>1, QuietType
  <2>. QED  BY <2>3, <2>4
<1>. QED  BY <1>1, <1>2, <1>3, <1>4

\* What the steps of an export save.
LEMMA ExportSides ==
  ASSUME TypeInv
  PROVE  /\ \A s \in {"none", "pending", "audit_pending", "completed"} :
              /\ Retention!Exported(s) \in Retention!Sides
              /\ [rop.meta EXCEPT !.export.status = s] \in Retention!Sides
         /\ [rop.meta EXCEPT !.export = Retention!NoExport] \in Retention!Sides
         /\ Retention!Completed \in Entries
              /\ Retention!Entry("export", rop.id, "completed") \in Entries
         /\ Retention!Entry("export", rop.id, "expired") \in Entries
<1>1. /\ rop.meta \in Retention!Sides /\ rop.id \in Retention!Ids
           /\ rop.meta.export.id \in Retention!Ids
  BY OpFields DEF TypeInv
<1>2. /\ Retention!Completed \in Entries
           /\ Retention!Entry("export", rop.id, "completed") \in Entries
      /\ Retention!Entry("export", rop.id, "expired") \in Entries
  BY <1>1, EntryType DEF Retention!Completed, Kinds, Outcomes
<1>3. \A s \in {"none", "pending", "audit_pending", "completed"} :
              /\ Retention!Exported(s) \in Retention!Sides
              /\ [rop.meta EXCEPT !.export.status = s] \in Retention!Sides
  BY <1>1, SideEdit DEF Retention!Exported
<1>4. [rop.meta EXCEPT !.export = Retention!NoExport] \in Retention!Sides
  BY <1>1, SideEdit
<1>. QED  BY <1>2, <1>3, <1>4

LEMMA ExportStepsType ==
  ASSUME TypeInv, Retention!DecideNewExport \/ Retention!DecideKnownExport
           \/ Retention!ExportCallback \/ Retention!ExportVerified
                  \/ Retention!CompleteExport \/ Retention!ClearExport \/ Retention!UnregisterExport
  PROVE  TypeInv'
<1>0. rop \in Ops /\ rop.id \in Retention!Ids /\ rop.meta \in Retention!Sides
  BY OpFields DEF TypeInv
<1>1. CASE Retention!DecideNewExport
  <2>1. SideOnly
    BY <1>1 DEF Retention!DecideNewExport, SideOnly
  <2>2. \/ Retention!Finish("audit_failed") /\ Retention!NoFault /\ rside' = rside
        \/ \E s \in Outcomes : Retention!AuditAnswer(s) /\ Retention!Going /\ Retention!NoFault
             /\ rside' = rside
        \/ Retention!Save(Retention!Exported("pending"), "callback")
        \/ Retention!SaveFails(Retention!Exported("pending")) /\ Retention!Finish("threw")
    BY <1>1 DEF Retention!DecideNewExport, Outcomes
  <2>3. Typed /\ Rest
    <3>1. CASE Retention!Finish("audit_failed") /\ Retention!NoFault /\ rside' = rside
      BY <3>1, FinishType, SameSideType
    <3>2. CASE \E s \in Outcomes : Retention!AuditAnswer(s) /\ Retention!Going
                 /\ Retention!NoFault /\ rside' = rside
      BY <3>2, AuditAnswerType, GoingType, SameSideType
    <3>3. CASE Retention!Save(Retention!Exported("pending"), "callback")
      BY <3>3, ExportSides, SaveType DEF Rest, Places
    <3>4. CASE Retention!SaveFails(Retention!Exported("pending")) /\ Retention!Finish("threw")
      BY <3>4, ExportSides, SaveFailsType, FinishType DEF Rest
    <3>. QED  BY <2>2, <3>1, <3>2, <3>3, <3>4
  <2>. QED  BY <2>1, <2>3, SideOnlyType
<1>2. CASE Retention!DecideKnownExport
  <2>1. Retention!Quiet
    BY <1>2 DEF Retention!DecideKnownExport
  <2>2. \/ \E s \in Outcomes : Retention!AuditAnswer(s) /\ Retention!Going
        \/ Retention!Audit(Retention!Completed, "complete") /\ Retention!Going
        \/ rop' = [rop EXCEPT !.pc = "answer", !.entry = Retention!Completed,
                   !.status = "completed"] /\ Retention!Going
    BY <1>2 DEF Retention!DecideKnownExport, Outcomes
  <2>3. rop' \in Ops
    <3>1. CASE \E s \in Outcomes : Retention!AuditAnswer(s)
      BY <3>1, AuditAnswerType
    <3>2. CASE Retention!Audit(Retention!Completed, "complete")
      BY <3>2, AuditType, ExportSides DEF Places
    <3>3. CASE rop' = [rop EXCEPT !.pc = "answer", !.entry = Retention!Completed,
                       !.status = "completed"]
      <4>1. Retention!Completed \in Entries /\ "answer" \in Places /\ "completed" \in Outcomes
        BY ExportSides DEF Places, Outcomes
      <4>. QED  BY <1>0, <3>3, <4>1, OpEdit
    <3>. QED  BY <2>2, <3>1, <3>2, <3>3
  <2>. QED  BY <2>1, <2>2, <2>3, GoingType, QuietType
<1>3. CASE Retention!ExportCallback
  <2>1. /\ UNCHANGED <<now, rside, journal, head, rreceipt, rcrashes>> /\ Retention!NoFault
             /\ Retention!Going
        /\ rfiles' \in {"none", "partial", "whole"}
    BY <1>3 DEF Retention!ExportCallback, TypeInv
  <2>2. \/ Retention!Goto("verified")
        \/ rop' = [rop EXCEPT !.pc = "clear", !.status = "threw"]
    BY <1>3 DEF Retention!ExportCallback
  <2>3. "verified" \in Places /\ "clear" \in Places /\ "threw" \in Outcomes
    BY DEF Places, Outcomes
  <2>4. rop' \in Ops
    <3>1. CASE Retention!Goto("verified")
      BY <2>3, <3>1, GotoType
    <3>2. CASE rop' = [rop EXCEPT !.pc = "clear", !.status = "threw"]
      BY <1>0, <2>3, <3>2, OpEdit
    <3>. QED  BY <2>2, <3>1, <3>2
  <2>. QED  BY <2>1, <2>4, GoingType, SameSideType, TypesOfStep DEF TypeInv
<1>4. CASE Retention!ExportVerified
  <2>1. SideOnly
    BY <1>4 DEF Retention!ExportVerified, SideOnly
  <2>2. PICK new \in Retention!Sides : new = Retention!Exported("audit_pending")
    BY ExportSides
  <2>3. PICK done \in Entries : done = Retention!Entry("export", rop.id, "completed")
    BY ExportSides
  <2>4. \/ /\ rop' = [rop EXCEPT !.pc = "clear", !.status = "expired"]
           /\ Retention!Going /\ Retention!NoFault /\ rside' = rside
        \/ /\ rop' = [rop EXCEPT !.meta = new, !.pc = "audit", !.then = "complete", !.entry = done]
           /\ Retention!Going /\ Retention!NoFault /\ rside' = new
        \/ Retention!SaveFails(new) /\ Retention!Finish("audit_failed")
    BY <1>4, <2>2, <2>3 DEF Retention!ExportVerified
  <2>5. "clear" \in Places /\ "audit" \in Places /\ "complete" \in Places /\ "expired" \in Outcomes
    BY DEF Places, Outcomes
  <2>6. Typed /\ Rest
    <3>1. CASE /\ rop' = [rop EXCEPT !.pc = "clear", !.status = "expired"]
               /\ Retention!Going /\ Retention!NoFault /\ rside' = rside
      <4>1. rop' \in Ops
        BY <1>0, <2>5, <3>1, OpEdit
      <4>. QED  BY <3>1, <4>1, GoingType, SameSideType
    <3>2. CASE /\ rop' = [rop EXCEPT !.meta = new, !.pc = "audit", !.then = "complete",
                                    !.entry = done]
               /\ Retention!Going /\ Retention!NoFault /\ rside' = new
      <4>1. rop' \in Ops
        BY <1>0, <2>5, <3>2, OpEdit
      <4>. QED  BY <3>2, <4>1, GoingType, FaultType DEF Rest
    <3>3. CASE Retention!SaveFails(new) /\ Retention!Finish("audit_failed")
      BY <3>3, SaveFailsType, FinishType DEF Rest
    <3>. QED  BY <2>4, <3>1, <3>2, <3>3
  <2>. QED  BY <2>1, <2>6, SideOnlyType
<1>5. CASE Retention!CompleteExport
  <2>1. SideOnly
    BY <1>5 DEF Retention!CompleteExport, SideOnly
  <2>2. PICK new \in Retention!Sides : new = [rop.meta EXCEPT !.export.status = "completed"]
    BY ExportSides
  <2>3. \/ Retention!Finish("done") /\ Retention!NoFault /\ rside' = rside
        \/ (\E s : Retention!Finish(s)) /\ Retention!NoFault /\ rside' = new
        \/ Retention!AuditAnswer("expired") /\ Retention!Going /\ Retention!NoFault /\ rside' = new
        \/ Retention!SaveFails(new) /\ Retention!Trouble("faulted")
    BY <1>5, <2>2 DEF Retention!CompleteExport
  <2>4. Typed /\ Rest
    <3>1. CASE Retention!Finish("done") /\ Retention!NoFault /\ rside' = rside
      BY <3>1, FinishType, SameSideType
    <3>2. CASE (\E s : Retention!Finish(s)) /\ Retention!NoFault /\ rside' = new
      BY <3>2, FinishType, FaultType DEF Rest
    <3>3. CASE Retention!AuditAnswer("expired") /\ Retention!Going /\ Retention!NoFault
                 /\ rside' = new
      BY <3>3, AuditAnswerType, GoingType, FaultType DEF Rest, Outcomes
    <3>4. CASE Retention!SaveFails(new) /\ Retention!Trouble("faulted")
      BY <3>4, SaveFailsType, TroubleType DEF Rest
    <3>. QED  BY <2>3, <3>1, <3>2, <3>3, <3>4
  <2>. QED  BY <2>1, <2>4, SideOnlyType
<1>6. CASE Retention!ClearExport
  <2>1. /\ UNCHANGED <<now, rside, journal, head, rreceipt, rcrashes>>
        /\ rfiles' \in {"none", "partial", "whole"}
    BY <1>6 DEF Retention!ClearExport, TypeInv
  <2>2. \/ Retention!Goto("cleared") /\ Retention!Going /\ Retention!NoFault
        \/ Retention!Finish("threw") /\ Retention!Fault
    BY <1>6 DEF Retention!ClearExport
  <2>3. Typed /\ rfaults' \in 0..MaxFaults
    BY <2>2, GotoType, GoingType, FinishType, FaultType DEF Places
  <2>. QED  BY <2>1, <2>3, TypesOfStep DEF TypeInv, Rest
<1>7. CASE Retention!UnregisterExport
  <2>1. SideOnly
    BY <1>7 DEF Retention!UnregisterExport, SideOnly
  <2>2. PICK new \in Retention!Sides : new = [rop.meta EXCEPT !.export = Retention!NoExport]
    BY ExportSides
  <2>3. PICK gone \in Entries : gone = Retention!Entry("export", rop.id, "expired")
    BY ExportSides
  <2>4. \/ (\E s : Retention!Finish(s)) /\ Retention!NoFault /\ rside' = new
        \/ /\ rop' = [rop EXCEPT !.meta = new, !.pc = "audit", !.then = "answer", !.entry = gone]
           /\ Retention!Going /\ Retention!NoFault /\ rside' = new
        \/ Retention!SaveFails(new) /\ Retention!Finish("threw")
    BY <1>7, <2>2, <2>3 DEF Retention!UnregisterExport
  <2>5. "audit" \in Places /\ "answer" \in Places
    BY DEF Places
  <2>6. Typed /\ Rest
    <3>1. CASE (\E s : Retention!Finish(s)) /\ Retention!NoFault /\ rside' = new
      BY <3>1, FinishType, FaultType DEF Rest
    <3>2. CASE /\ rop' = [rop EXCEPT !.meta = new, !.pc = "audit", !.then = "answer",
                                    !.entry = gone]
               /\ Retention!Going /\ Retention!NoFault /\ rside' = new
      <4>1. rop' \in Ops
        BY <1>0, <2>5, <3>2, OpEdit
      <4>. QED  BY <3>2, <4>1, GoingType, FaultType DEF Rest
    <3>3. CASE Retention!SaveFails(new) /\ Retention!Finish("threw")
      BY <3>3, SaveFailsType, FinishType DEF Rest
    <3>. QED  BY <2>4, <3>1, <3>2, <3>3
  <2>. QED  BY <2>1, <2>6, SideOnlyType
<1>. QED  BY <1>1, <1>2, <1>3, <1>4, <1>5, <1>6, <1>7

LEMMA WriteReceiptType ==
  ASSUME TypeInv, NEW d \in {"early", "scheduled"}, NEW T, T => rop' \in Ops,
         \/ /\ rreceipt' = [status |-> "pending", disposition |-> d, at |-> now]
            /\ T /\ Retention!Going /\ Retention!NoFault
         \/ /\ rreceipt' \in {rreceipt, [status |-> "pending", disposition |-> d, at |-> now]}
            /\ Retention!Finish("faulted") /\ Retention!Fault
  PROVE  Typed /\ rreceipt' \in Receipts /\ rfaults' \in 0..MaxFaults
<1>1. [status |-> "pending", disposition |-> d, at |-> now] \in Receipts /\ rreceipt \in Receipts
  BY GovernanceAssumption DEF TypeInv, Receipts, Retention!RetentionAssumption
<1>. QED  BY <1>1, GoingType, FinishType, FaultType

LEMMA DeletionStepsType ==
  ASSUME TypeInv, Retention!DecideDeletion \/ Retention!DecideSweep \/ Retention!Erase
           \/ Retention!CompleteReceipt
  PROVE  TypeInv'
<1>0. /\ "erase" \in Places /\ "receipt" \in Places /\ Retention!NoSide \in Retention!Sides
           /\ Retention!NoOp \in Ops
      /\ rreceipt \in Receipts
  BY RecordTypes DEF Places, TypeInv
<1>1. CASE Retention!DecideDeletion
  <2>1. UNCHANGED <<now, rside, journal, head, rfiles, rcrashes>>
    BY <1>1 DEF Retention!DecideDeletion
  <2>2. CASE rop.meta.export.status = "pending"
    <3>1. Retention!Finish("pending") /\ Retention!NoFault /\ rreceipt' = rreceipt
      BY <1>1, <2>2 DEF Retention!DecideDeletion
    <3>. QED  BY <2>1, <3>1, FinishType, FaultType, TypesOfStep DEF TypeInv, Rest
  <2>3. CASE rop.meta.export.status # "pending"
    <3>1. Retention!Entry("delete", "owner", "pending") \in Entries
      BY EntryType DEF Kinds, Retention!Ids, Outcomes
    <3>2. Retention!Audit(Retention!Entry("delete", "owner", "pending"), "erase") => rop' \in Ops
      BY <1>0, <3>1, AuditType
    <3>3. Retention!WriteReceipt("early",
                                 Retention!Audit(Retention!Entry("delete", "owner", "pending"),
                                                 "erase"))
      BY <1>1, <2>3 DEF Retention!DecideDeletion
    <3>4. Typed /\ rreceipt' \in Receipts /\ rfaults' \in 0..MaxFaults
      BY <3>2, <3>3, WriteReceiptType DEF Retention!WriteReceipt
    <3>. QED  BY <2>1, <3>4, TypesOfStep DEF TypeInv, Rest
  <2>. QED  BY <2>2, <2>3
<1>2. CASE Retention!DecideSweep
  <2>1. UNCHANGED <<now, rside, journal, head, rfiles, rcrashes>>
    BY <1>2 DEF Retention!DecideSweep
  <2>2. \/ Retention!Finish("done") /\ Retention!NoFault /\ rreceipt' = rreceipt
        \/ Retention!WriteReceipt("scheduled", Retention!Goto("erase"))
    BY <1>2 DEF Retention!DecideSweep
  <2>3. Typed /\ rreceipt' \in Receipts /\ rfaults' \in 0..MaxFaults
    <3>1. CASE Retention!Finish("done") /\ Retention!NoFault /\ rreceipt' = rreceipt
      BY <1>0, <3>1, FinishType, FaultType
    <3>2. CASE Retention!WriteReceipt("scheduled", Retention!Goto("erase"))
      <4>1. Retention!Goto("erase") => rop' \in Ops
        BY <1>0, GotoType
      <4>. QED  BY <3>2, <4>1, WriteReceiptType DEF Retention!WriteReceipt
    <3>. QED  BY <2>2, <3>1, <3>2
  <2>. QED  BY <2>1, <2>3, TypesOfStep DEF TypeInv, Rest
<1>3. CASE Retention!Erase
  <2>1. /\ UNCHANGED <<now, journal, head, rreceipt, rcrashes>> /\ rside' \in Retention!Sides
        /\ rfiles' \in {"none", "partial", "whole"}
    BY <1>0, <1>3 DEF Retention!Erase, TypeInv
  <2>2. \/ Retention!Going /\ Retention!NoFault
             /\ Retention!Audit(Retention!Entry("delete", rreceipt.disposition, "completed"),
                                "receipt")
        \/ Retention!Finish("faulted") /\ Retention!Fault
    BY <1>3 DEF Retention!Erase
  <2>3. Retention!Entry("delete", rreceipt.disposition, "completed") \in Entries
    <3>1. rreceipt.disposition \in Retention!Ids \cup {"early", "scheduled"}
      BY <1>0 DEF Receipts, Retention!Ids
    <3>. QED  BY <3>1, EntryType DEF Kinds, Outcomes
  <2>4. Typed /\ rfaults' \in 0..MaxFaults
    <3>1. CASE Retention!Going /\ Retention!NoFault
                 /\ Retention!Audit(Retention!Entry("delete", rreceipt.disposition, "completed"),
                                    "receipt")
      BY <1>0, <2>3, <3>1, AuditType, GoingType, FaultType
    <3>2. CASE Retention!Finish("faulted") /\ Retention!Fault
      BY <3>2, FinishType, FaultType
    <3>. QED  BY <2>2, <3>1, <3>2
  <2>. QED  BY <2>1, <2>4, TypesOfStep DEF TypeInv, Rest
<1>4. CASE Retention!CompleteReceipt
  <2>1. UNCHANGED <<now, rside, journal, head, rfiles, rcrashes>>
    BY <1>4 DEF Retention!CompleteReceipt
  <2>2. rreceipt' \in Receipts
    BY <1>0, <1>4 DEF Retention!CompleteReceipt, Receipts
  <2>3. Typed /\ rfaults' \in 0..MaxFaults
    BY <1>4, FinishType, FaultType DEF Retention!CompleteReceipt
  <2>. QED  BY <2>1, <2>2, <2>3, TypesOfStep DEF TypeInv, Rest
<1>. QED  BY <1>1, <1>2, <1>3, <1>4

LEMMA LoadType ==
  ASSUME TypeInv, NEW kind \in Kinds, NEW id \in Retention!Ids, NEW d \in Retention!Times
  PROVE  LET o == Retention!Load(kind, id, d) IN
         /\ o \in Ops /\ o.kind = kind /\ o.id = id /\ o.deadline = d /\ o.meta = rside
         /\ o.pc = (IF id = "stranger" THEN "decide" ELSE Retention!FirstStep(kind))
         /\ o.entry = Retention!NoEntry /\ o.then = "none" /\ o.status = "none"
<1>1. rside \in Retention!Sides /\ Retention!NoOp \in Ops
  BY RecordTypes DEF TypeInv
<1>2. Retention!FirstStep(kind) \in Places /\ "decide" \in Places
  BY DEF Retention!FirstStep, Places
<1>3. Retention!NoOp.entry = Retention!NoEntry /\ Retention!NoOp.then = "none"
        /\ Retention!NoOp.status = "none"
  BY DEF Retention!NoOp
<1>4. DEFINE p == IF id = "stranger" THEN "decide" ELSE Retention!FirstStep(kind)
<1>5. p \in Places
  BY <1>2
<1>6. Retention!Load(kind, id, d) =
        [Retention!NoOp EXCEPT !.kind = kind, !.id = id, !.deadline = d, !.meta = rside, !.pc = p]
  BY DEF Retention!Load
<1>. HIDE DEF p
<1>7. LET o == [Retention!NoOp EXCEPT !.kind = kind, !.id = id, !.deadline = d, !.meta = rside,
                !.pc = p] IN
         /\ o \in Ops /\ o.kind = kind /\ o.id = id /\ o.deadline = d /\ o.meta = rside
         /\ o.pc = p /\ o.entry = Retention!NoEntry /\ o.then = "none" /\ o.status = "none"
  BY <1>1, <1>3, <1>5 DEF Ops
<1>. QED  BY <1>6, <1>7 DEF p

LEMMA ResumeType ==
  ASSUME NEW kind \in Kinds, NEW id \in Retention!Ids
  PROVE  LET o == Retention!Resume(kind, id) IN
         o \in Ops /\ o.kind = kind /\ o.id = id /\ o.pc = "erase" /\ o.entry = Retention!NoEntry
<1>1. Retention!NoOp \in Ops /\ "erase" \in Places
  BY RecordTypes DEF Places
<1>2. Retention!NoOp.entry = Retention!NoEntry
  BY DEF Retention!NoOp
<1>. QED  BY <1>1, <1>2 DEF Ops, Retention!Resume

\* Who begins, and with what.
LEMMA RequestedType ==
  ASSUME TypeInv, Retention!Begin
  PROVE  /\ Retention!Idle /\ rreceipt.status = "none" /\ Retention!Beginning
         /\ \E kind \in Kinds \ {"none", "recover"}, id \in Retention!Ids, d \in Retention!Times :
              /\ rop' = Retention!Load(kind, id, d)
              /\ kind = "extend" => id \in Extensions
              /\ id = "stranger" => kind = "review"
<1>0. /\ {"owner", "reviewer", "stranger"} \subseteq Retention!Ids
           /\ Extensions \subseteq Retention!Ids
      /\ Exports \subseteq Retention!Ids /\ "stranger" \notin Extensions \cup Exports
      /\ 0 \in Retention!Times /\ LastDeadline..(LastDeadline + 1) \subseteq Retention!Times
  BY GovernanceAssumption DEF Retention!Ids, Retention!Times, Retention!RetentionAssumption
<1>1. ASSUME NEW id \in Extensions, NEW d \in LastDeadline..(LastDeadline + 1),
             Retention!Request("extend", id, d)
      PROVE  /\ Retention!Idle /\ rreceipt.status = "none" /\ Retention!Beginning
             /\ \E kind \in Kinds \ {"none", "recover"}, i \in Retention!Ids,
                  e \in Retention!Times :
                  /\ rop' = Retention!Load(kind, i, e)
                  /\ kind = "extend" => i \in Extensions
                  /\ i = "stranger" => kind = "review"
  BY <1>0, <1>1 DEF Retention!Request, Kinds
<1>2. ASSUME NEW id \in Exports, Retention!Request("export", id, 0)
      PROVE  /\ Retention!Idle /\ rreceipt.status = "none" /\ Retention!Beginning
             /\ \E kind \in Kinds \ {"none", "recover"}, i \in Retention!Ids,
                  e \in Retention!Times :
                  /\ rop' = Retention!Load(kind, i, e)
                  /\ kind = "extend" => i \in Extensions
                  /\ i = "stranger" => kind = "review"
  BY <1>0, <1>2 DEF Retention!Request, Kinds
<1>3. ASSUME NEW id \in {"reviewer", "stranger"}, Retention!Request("review", id, 0)
      PROVE  /\ Retention!Idle /\ rreceipt.status = "none" /\ Retention!Beginning
             /\ \E kind \in Kinds \ {"none", "recover"}, i \in Retention!Ids,
                  e \in Retention!Times :
                  /\ rop' = Retention!Load(kind, i, e)
                  /\ kind = "extend" => i \in Extensions
                  /\ i = "stranger" => kind = "review"
  BY <1>0, <1>3 DEF Retention!Request, Kinds
<1>4. ASSUME NEW kind \in {"view", "delete"}, Retention!Request(kind, "owner", 0)
      PROVE  /\ Retention!Idle /\ rreceipt.status = "none" /\ Retention!Beginning
             /\ \E k \in Kinds \ {"none", "recover"}, i \in Retention!Ids, e \in Retention!Times :
                  /\ rop' = Retention!Load(k, i, e)
                  /\ k = "extend" => i \in Extensions
                  /\ i = "stranger" => k = "review"
  BY <1>0, <1>4 DEF Retention!Request, Kinds
<1>. QED  BY <1>1, <1>2, <1>3, <1>4 DEF Retention!Begin

LEMMA OthersType ==
  ASSUME TypeInv, Retention!Begin \/ Retention!ResumeDeletion \/ Retention!BeginSweep
           \/ Retention!Crash \/ Retention!Recover \/ Retention!Tick
  PROVE  TypeInv'
<1>0. /\ {"owner", "sweep", "recover"} \subseteq Retention!Ids /\ 0 \in Retention!Times
      /\ {"delete", "sweep", "recover"} \subseteq Kinds /\ Retention!NoOp \in Ops
           /\ Retention!NoSide \in Retention!Sides
  BY RecordTypes, GovernanceAssumption DEF Retention!Ids, Retention!Times, Kinds,
     Retention!RetentionAssumption
<1>1. ASSUME Retention!Beginning, rop' \in Ops PROVE TypeInv'
  BY <1>1 DEF Retention!Beginning, Retention!disk, TypeInv
<1>2. CASE Retention!Begin
  <2>1. rop' \in Ops
    BY <1>2, RequestedType, LoadType
  <2>. QED  BY <1>1, <1>2, <2>1, RequestedType
<1>3. CASE Retention!ResumeDeletion
  <2>1. rop' \in Ops
    BY <1>0, <1>3, ResumeType DEF Retention!ResumeDeletion
  <2>. QED  BY <1>1, <1>3, <2>1 DEF Retention!ResumeDeletion
<1>4. CASE Retention!BeginSweep
  <2>1. rop' = Retention!Load("sweep", "sweep", 0) \/ rop' = Retention!Resume("sweep", "sweep")
    BY <1>4 DEF Retention!BeginSweep
  <2>2. rop' \in Ops
    BY <1>0, <2>1, ResumeType, LoadType
  <2>. QED  BY <1>1, <1>4, <2>2 DEF Retention!BeginSweep
<1>5. CASE Retention!Crash
  <2>1. /\ rprocess' = "down" /\ rcrashes' = rcrashes + 1 /\ rcrashes < GovernanceCrashes
             /\ rop' = Retention!NoOp
        /\ degraded' = FALSE /\ UNCHANGED <<now, rside, rreceipt, rfiles, rfaults>>
        /\ journal' \in Retention!Remains \/ journal' = journal
        /\ head' = IF journal' = journal THEN head ELSE Len(journal)
    BY <1>5 DEF Retention!Crash
  <2>2. journal' \in Seq(Entries)
    BY <2>1, RemainsType DEF TypeInv
  <2>3. head' \in Nat /\ rcrashes' \in 0..GovernanceCrashes
    BY <2>1, GovernanceAssumption DEF TypeInv, Retention!RetentionAssumption
  <2>. QED  BY <1>0, <2>1, <2>2, <2>3 DEF TypeInv
<1>6. CASE Retention!Recover
  <2>1. /\ degraded' = ~Retention!Valid /\ head' = IF Retention!Valid THEN Len(journal) ELSE head
        /\ rprocess' = IF rreceipt.status = "completed" THEN "up" ELSE "recovering"
        /\ rop' = CASE rreceipt.status = "none" -> Retention!Load("recover", "recover", 0)
                    [] rreceipt.status = "pending" -> Retention!Resume("recover", "recover")
                    [] OTHER -> Retention!NoOp
        /\ \/ rside' = Retention!NoSide /\ rfiles' = "none"
           \/ UNCHANGED <<rside, rfiles>>
        /\ UNCHANGED <<now, journal, rreceipt, rfaults, rcrashes>>
    BY <1>6 DEF Retention!Recover
  <2>2. Retention!Load("recover", "recover", 0) \in Ops
          /\ Retention!Resume("recover", "recover") \in Ops
    BY <1>0, LoadType, ResumeType
  <2>3. rop' = Retention!Load("recover", "recover", 0)
          \/ rop' = Retention!Resume("recover", "recover") \/ rop' = Retention!NoOp
    BY <2>1
  <2>4. degraded' \in BOOLEAN
    BY <2>1
  <2>5. rop' \in Ops
    BY <1>0, <2>2, <2>3
  <2>6. rprocess' \in {"up", "down", "recovering"} /\ head' \in Nat /\ rside' \in Retention!Sides
        /\ rfiles' \in {"none", "partial", "whole"}
    BY <1>0, <2>1 DEF TypeInv
  <2>. QED  BY <2>1, <2>4, <2>5, <2>6 DEF TypeInv
<1>7. CASE Retention!Tick
  BY <1>7, GovernanceAssumption DEF Retention!Tick, TypeInv, Retention!disk,
     Retention!RetentionAssumption
<1>. QED  BY <1>2, <1>3, <1>4, <1>5, <1>6, <1>7

LEMMA TypeStep == ASSUME TypeInv, [Retention!Next]_Retention!vars PROVE TypeInv'
<1>1. CASE UNCHANGED Retention!vars
  BY <1>1 DEF Retention!vars, Retention!disk, TypeInv
<1>2. CASE Retention!Next
  BY <1>2, AuditStepsType, ExtensionStepsType, ReviewStepsType, ExportStepsType,
     DeletionStepsType, OthersType DEF Retention!Next, Retention!Steps
<1>. QED  BY <1>1, <1>2

-----------------------------------------------------------------------------
(***************************************************************************)
(* The journal grows, and what its head vouched for it vouches for.        *)
(***************************************************************************)
LEMMA ValidLength == ASSUME TypeInv, Retention!Valid PROVE Len(journal) \in {head, head + 1}
BY DEF Retention!Valid, TypeInv

LEMMA RangeIsWritten ==
  ASSUME TypeInv
  PROVE  /\ Retention!Range(journal) = Written
         /\ Written = {journal[i] : i \in DOMAIN journal}
         /\ \A e : e \in Written <=> \E i \in 1..Len(journal) : journal[i] = e
<1>1. DOMAIN journal = 1..Len(journal)
  BY DEF TypeInv
<1>. QED  BY <1>1 DEF Retention!Range, Written

\* The journal stays as it is or gets one entry, and the head does not go back.
Grows ==
  /\ head' \in Nat /\ head <= head' /\ head' <= Len(journal') /\ Len(journal') <= head' + 1
  /\ \/ journal' = journal
     \/ \E e \in Entries :
          /\ journal' = Append(journal, e) /\ Len(journal) < JournalCap /\ Retention!Valid
          /\ e = Retention!Torn \/ (rop.pc = "audit" /\ e = rop.entry /\ ~Retention!Present(e))

LEMMA GrowsKeeps ==
  ASSUME TypeInv, JournalInv, Grows
  PROVE  /\ Vouched \subseteq Vouched' /\ Written \subseteq Written'
         /\ \A i \in 1..head : journal'[i] = journal[i]
         /\ Len(journal) <= Len(journal') /\ Len(journal') \in Nat
         /\ \A i \in 1..Len(journal) : journal'[i] = journal[i]
<1>1. Len(journal) \in Nat /\ head \in Nat /\ head <= Len(journal) /\ journal \in Seq(Entries)
  BY DEF TypeInv, JournalInv
<1>2. /\ Len(journal) <= Len(journal') /\ Len(journal') \in Nat
      /\ \A i \in 1..Len(journal) : journal'[i] = journal[i]
  BY <1>1 DEF Grows
<1>3. \A i \in 1..head : journal'[i] = journal[i]
  BY <1>1, <1>2
<1>5. \A i \in 1..head : i \in 1..head'
  BY <1>1 DEF Grows
<1>6. Vouched \subseteq Vouched'
  BY <1>3, <1>5 DEF Vouched
<1>7. \A i \in 1..Len(journal) : i \in 1..Len(journal')
  BY <1>1, <1>2
<1>8. Written \subseteq Written'
  BY <1>2, <1>7 DEF Written
<1>. QED  BY <1>2, <1>3, <1>6, <1>8

LEMMA SameGrows ==
  ASSUME TypeInv, JournalInv, journal' = journal, head' = head
  PROVE  Grows
BY DEF Grows, JournalInv, TypeInv

LEMMA ReviewCount ==
  ASSUME TypeInv, JournalInv, NEW e \in Entries, journal' = Append(journal, e),
         e.action = "review" => Len(journal) < ReviewCap
  PROVE  Cardinality(Reviews') <= ReviewCap
<1>0. /\ Len(journal) \in Nat /\ ReviewCap \in Nat /\ journal \in Seq(Entries)
      /\ Len(journal') = Len(journal) + 1
      /\ \A i \in 1..Len(journal) : journal'[i] = journal[i]
      /\ journal'[Len(journal) + 1] = e
  BY GovernanceAssumption DEF TypeInv, Retention!RetentionAssumption
<1>1. CASE e.action = "review"
  <2>1. Reviews' \subseteq 1..(Len(journal) + 1)
    BY <1>0 DEF Reviews
  <2>2. /\ IsFiniteSet(1..(Len(journal) + 1))
             /\ Cardinality(1..(Len(journal) + 1)) = Len(journal) + 1
    BY <1>0, FS_Interval
  <2>3. Cardinality(Reviews') <= Len(journal) + 1 /\ Cardinality(Reviews') \in Nat
    BY <2>1, <2>2, FS_Subset, FS_CardinalityType
  <2>. QED  BY <1>0, <1>1, <2>3
<1>2. CASE e.action # "review"
  <2>1. Reviews' = Reviews
    BY <1>0, <1>2 DEF Reviews
  <2>. QED  BY <2>1 DEF JournalInv
<1>. QED  BY <1>1, <1>2

LEMMA OnceAppended ==
  ASSUME TypeInv, JournalInv, NEW e \in Entries, journal' = Append(journal, e),
         e \in Written => e.action = "review"
  PROVE  Retention!AuditedOnce'
<1>0. /\ Len(journal) \in Nat /\ journal \in Seq(Entries) /\ DOMAIN journal = 1..Len(journal)
      /\ journal' \in Seq(Entries) /\ DOMAIN journal' = 1..Len(journal')
      /\ Len(journal') = Len(journal) + 1
      /\ \A i \in 1..Len(journal) : journal'[i] = journal[i]
      /\ journal'[Len(journal) + 1] = e
  BY DEF TypeInv
<1>1. SUFFICES ASSUME NEW i \in 1..Len(journal'), NEW j \in 1..Len(journal'),
                      journal'[i] = journal'[j], i # j
               PROVE  journal'[i].action = "review"
  BY <1>0 DEF Retention!AuditedOnce
<1>2. CASE i \in 1..Len(journal) /\ j \in 1..Len(journal)
  <2>1. journal[i] = journal[j] /\ journal'[i] = journal[i]
    BY <1>0, <1>1, <1>2
  <2>. QED  BY <1>0, <1>1, <1>2, <2>1 DEF JournalInv, Retention!AuditedOnce
<1>3. CASE i = Len(journal) + 1 /\ j \in 1..Len(journal)
  BY <1>0, <1>1, <1>3 DEF Written
<1>4. CASE j = Len(journal) + 1 /\ i \in 1..Len(journal)
  BY <1>0, <1>1, <1>4 DEF Written
<1>. QED  BY <1>0, <1>1, <1>2, <1>3, <1>4

\* A review is only appended while the journal is short.
LEMMA EntryOfReview ==
  ASSUME OpInv, rop.pc = "audit", rop.entry.action = "review"
  PROVE  Len(journal) < ReviewCap
<1>1. rop # Retention!NoOp
  BY DEF Retention!NoOp
<1>2. CASE rreceipt.status = "none" /\ Living
  <2>1. Entered /\ (rop.kind = "review" => Len(journal) < ReviewCap)
    BY <1>2 DEF Living
  <2>2. Pending.action = "extend" /\ Retention!Completed.action = "export"
    BY DEF Pending, Retention!Extension, Retention!Completed, Retention!Entry, Retention!NoEntry
  <2>. QED  BY <2>1, <2>2 DEF Entered
<1>3. CASE Erasing
  BY <1>3 DEF Erasing
<1>. QED  BY <1>1, <1>2, <1>3 DEF OpInv

LEMMA GrownJournal ==
  ASSUME TypeInv, JournalInv, OpInv, Grows
  PROVE  JournalInv'
<1>0. /\ Len(journal) \in Nat /\ JournalCap \in Nat /\ head \in Nat
  BY GovernanceAssumption DEF TypeInv, Retention!RetentionAssumption
<1>1. CASE journal' = journal
  <2>1. Reviews' = Reviews /\ (Retention!AuditedOnce <=> Retention!AuditedOnce')
    BY <1>1 DEF Reviews, Retention!AuditedOnce
  <2>. QED  BY <1>1, <2>1 DEF Grows, JournalInv
<1>2. CASE journal' # journal
  <2>1. PICK e \in Entries :
          /\ journal' = Append(journal, e) /\ Len(journal) < JournalCap /\ Retention!Valid
          /\ e = Retention!Torn \/ (rop.pc = "audit" /\ e = rop.entry /\ ~Retention!Present(e))
    BY <1>2 DEF Grows
  <2>2. Retention!Torn.action = "torn" /\ Retention!Torn \notin Written
    BY <2>1, RangeIsWritten DEF Retention!Torn, Retention!Entry, Retention!NoEntry, Retention!Valid
  <2>3. e \in Written => e.action = "review"
    BY <2>1, <2>2, RangeIsWritten DEF Retention!Present
  <2>4. e.action = "review" => Len(journal) < ReviewCap
    BY <2>1, <2>2, EntryOfReview
  <2>5. Cardinality(Reviews') <= ReviewCap
    BY <2>1, <2>4, ReviewCount
  <2>6. Retention!AuditedOnce'
    BY <2>1, <2>3, OnceAppended
  <2>7. Len(journal') <= JournalCap
    BY <1>0, <2>1 DEF TypeInv
  <2>. QED  BY <2>5, <2>6, <2>7 DEF Grows, JournalInv
<1>. QED  BY <1>1, <1>2

LEMMA RemainsGrows ==
  ASSUME TypeInv, JournalInv, rop.pc = "audit", Retention!Appendable,
  journal' \in Retention!Remains,
         \/ head' = Len(journal)
         \/ head' = IF journal' = journal THEN head ELSE Len(journal)
  PROVE  Grows
<1>1. /\ Len(journal) \in Nat /\ head \in Nat /\ head <= Len(journal) /\ Len(journal) <= head + 1
      /\ rop.entry \in Entries /\ Retention!Torn \in Entries /\ journal \in Seq(Entries)
  BY RecordTypes, OpFields DEF TypeInv, JournalInv
<1>2. CASE journal' = journal
  BY <1>1, <1>2 DEF Grows
<1>3. ASSUME NEW e \in {rop.entry, Retention!Torn}, journal' = Append(journal, e)
      PROVE  Grows
  <2>1. journal' # journal /\ Len(journal') = Len(journal) + 1
    BY <1>1, <1>3
  <2>2. head' = Len(journal)
    BY <2>1
  <2>3. e = Retention!Torn \/ (rop.pc = "audit" /\ e = rop.entry /\ ~Retention!Present(e))
    BY DEF Retention!Appendable
  <2>4. Len(journal) < JournalCap /\ Retention!Valid
    BY DEF Retention!Appendable
  <2>. QED  BY <1>1, <1>3, <2>1, <2>2, <2>3, <2>4 DEF Grows
<1>. QED  BY <1>2, <1>3 DEF Retention!Remains

LEMMA JournalStep ==
  ASSUME TypeInv, JournalInv, [Retention!Next]_Retention!vars
  PROVE  Grows
<1>0. /\ Len(journal) \in Nat /\ head \in Nat /\ head <= Len(journal) /\ Len(journal) <= head + 1
  BY DEF TypeInv, JournalInv
<1>1. CASE UNCHANGED Retention!vars
  BY <1>1, SameGrows DEF Retention!vars, Retention!disk
<1>2. CASE Retention!AppendAudit
  <2>0. rop.pc = "audit" /\ head' = IF Retention!Valid THEN Len(journal) ELSE head
    BY <1>2 DEF Retention!AppendAudit, Retention!At
  <2>1. CASE Retention!Valid /\ Retention!Present(rop.entry)
    BY <1>0, <1>2, <2>0, <2>1 DEF Retention!AppendAudit, Grows, Retention!Appendable
  <2>2. CASE Retention!Appendable
    <3>1. journal' \in Retention!Remains /\ head' = Len(journal)
      BY <1>2, <2>0, <2>2 DEF Retention!AppendAudit, Retention!Remains, Retention!Appendable
    <3>. QED  BY <2>0, <2>2, <3>1, RemainsGrows
  <2>3. CASE ~(Retention!Valid /\ Retention!Present(rop.entry)) /\ ~Retention!Appendable
    BY <1>0, <1>2, <2>0, <2>3 DEF Retention!AppendAudit, Grows
  <2>. QED  BY <2>1, <2>2, <2>3
<1>3. CASE Retention!WriteHead
  BY <1>0, <1>3 DEF Retention!WriteHead, Grows
<1>4. CASE Retention!Settle
  BY <1>0, <1>4 DEF Retention!Settle, Grows
<1>5. CASE Retention!Crash
  <2>1. /\ journal' \in IF Retention!At("audit")
             /\ Retention!Appendable THEN Retention!Remains ELSE {journal}
        /\ head' = IF journal' = journal THEN head ELSE Len(journal)
    BY <1>5 DEF Retention!Crash
  <2>2. CASE Retention!At("audit") /\ Retention!Appendable
    BY <2>1, <2>2, RemainsGrows DEF Retention!At
  <2>3. CASE ~(Retention!At("audit") /\ Retention!Appendable)
    BY <2>1, <2>3, SameGrows
  <2>. QED  BY <2>2, <2>3
<1>6. CASE Retention!Recover
  BY <1>0, <1>6 DEF Retention!Recover, Grows
<1>7. CASE Retention!Anchor \/ Retention!GiveAnswer \/ Retention!CommitExtension
             \/ Retention!DecideExtension \/ Retention!DecideReview
           \/ Retention!ReviewCallback \/ Retention!ViewRetention \/ Retention!DecideNewExport
                \/ Retention!DecideKnownExport
           \/ Retention!ExportCallback \/ Retention!ExportVerified \/ Retention!CompleteExport
                \/ Retention!ClearExport \/ Retention!UnregisterExport
  <2>1. journal' = journal /\ head' = head
    BY <1>7 DEF Retention!Anchor, Retention!GiveAnswer, Retention!CommitExtension,
       Retention!DecideExtension, Retention!DecideReview,
       Retention!ReviewCallback, Retention!ViewRetention, Retention!DecideNewExport,
       Retention!DecideKnownExport, Retention!ExportCallback,
       Retention!ExportVerified, Retention!CompleteExport, Retention!ClearExport,
         Retention!UnregisterExport, Retention!Quiet, Retention!disk
  <2>. QED  BY <2>1, SameGrows
<1>8. CASE Retention!DecideDeletion \/ Retention!DecideSweep \/ Retention!Erase
             \/ Retention!CompleteReceipt \/ Retention!DecideRecovery
           \/ Retention!ResumeDeletion \/ Retention!BeginSweep \/ Retention!Tick
  <2>1. journal' = journal /\ head' = head
    BY <1>8 DEF Retention!DecideDeletion, Retention!DecideSweep, Retention!Erase,
       Retention!CompleteReceipt, Retention!DecideRecovery,
       Retention!ResumeDeletion, Retention!BeginSweep, Retention!Tick, Retention!Quiet,
         Retention!Beginning, Retention!disk
  <2>. QED  BY <2>1, SameGrows
<1>9. CASE Retention!Begin
  BY <1>9, RequestedType, SameGrows DEF Retention!Beginning, Retention!disk
<1>. QED  BY <1>1, <1>2, <1>3, <1>4, <1>5, <1>6, <1>7, <1>8, <1>9 DEF Retention!Next,
     Retention!Steps

-----------------------------------------------------------------------------
(***************************************************************************)
(* Who is where: an operation that is not in the middle of a deletion      *)
(* knows the sidecar of an archive that nobody deletes.                    *)
(***************************************************************************)
LEMMA LivingAt ==
  ASSUME OpInv, rop.pc \notin {"none", "erase", "receipt", "audit", "head", "anchor"}
  PROVE  rreceipt.status = "none" /\ Living /\ (rop.pc # "answer" => rop.meta = rside)
BY DEF OpInv, Retention!NoOp, Erasing, Knows

LEMMA LivingAudit ==
  ASSUME OpInv, rop.pc \in {"audit", "head", "anchor"}, rreceipt.status = "none"
  PROVE  /\ Living
         /\ rop.meta = rside \/ (rop.then = "answer" /\ rop.meta.audited)
BY DEF OpInv, Retention!NoOp, Erasing, Knows

LEMMA ErasingAt ==
  ASSUME OpInv, \/ rop.pc \in {"erase", "receipt"}
                \/ rop.pc \in {"audit", "head", "anchor"} /\ rreceipt.status # "none"
  PROVE  rreceipt.status = "pending" /\ Erasing
BY DEF OpInv, Retention!NoOp, Living

LEMMA GrantIsPending ==
  ASSUME TypeInv, OpInv, rop.pc = "audit", Granted(rop.entry)
  PROVE  /\ rreceipt.status = "none" /\ rside.pending # Retention!None
         /\ rop.entry = Retention!Extension(rside.pending.id, rside.pending.deadline)
<1>1. CASE rreceipt.status # "none"
  BY <1>1, ErasingAt DEF Erasing, Granted
<1>2. CASE rreceipt.status = "none"
  <2>1. Living /\ (rop.meta = rside \/ rop.then = "answer")
    BY <1>2, LivingAudit
  <2>2. Entered
    BY <2>1 DEF Living
  <2>3. Retention!Completed.action = "export"
    BY DEF Retention!Completed, Retention!Entry, Retention!NoEntry
  <2>4. rop.then = "commit" /\ rop.meta.pending # Retention!None /\ rop.entry = Pending
    BY <2>2, <2>3 DEF Entered, Granted
  <2>. QED  BY <1>2, <2>1, <2>4 DEF Pending
<1>. QED  BY <1>1, <1>2

-----------------------------------------------------------------------------
(***************************************************************************)
(* Answers.                                                                *)
(***************************************************************************)
Hushed ==
  \/ ranswer' = ranswer
  \/ ranswer'.status \notin {"extended", "completed"}
  \/ ranswer'.kind \notin {"extend", "export", "review"}

LEMMA HushedAnswer == ASSUME TypeInv, JournalInv, Grows, AnswerInv, Hushed PROVE AnswerInv'
<1>1. Vouched \subseteq Vouched'
  BY GrowsKeeps
<1>2. CASE ranswer' = ranswer
  BY <1>1, <1>2 DEF AnswerInv
<1>3. CASE ranswer' # ranswer
  BY <1>3 DEF AnswerInv, Hushed
<1>. QED  BY <1>2, <1>3

LEMMA SaidAnswer ==
  ASSUME TypeInv, JournalInv, Grows, NEW s, Retention!Finish(s),
         rop.entry \in Vouched /\ rop.entry.outcome = "completed"
  PROVE  AnswerInv'
<1>1. Vouched \subseteq Vouched'
  BY GrowsKeeps
<1>. QED  BY <1>1, FinishType DEF AnswerInv

LEMMA GoingHushes == ASSUME Retention!Going PROVE Hushed
BY DEF Retention!Going, Hushed

LEMMA FinishHushes ==
  ASSUME TypeInv, NEW s, Retention!Finish(s),
         s \notin {"extended", "completed"} \/ rop.kind \notin {"extend", "export", "review"}
  PROVE  Hushed
BY FinishType DEF Hushed

LEMMA TroubleHushes == ASSUME TypeInv, NEW why \in {"threw", "faulted"},
  Retention!Trouble(why) PROVE Hushed
BY TroubleType DEF Hushed

LEMMA AuditFailsHushes ==
  ASSUME TypeInv, NEW why \in {"threw", "faulted"}, Retention!AuditFails(why)
  PROVE  Hushed
BY TroubleHushes, GoingHushes DEF Retention!AuditFails

LEMMA AnswerStep ==
  ASSUME TypeInv, JournalInv, OpInv, AnswerInv, Grows, [Retention!Next]_Retention!vars
  PROVE  AnswerInv'
<1>1. CASE UNCHANGED Retention!vars
  BY <1>1, HushedAnswer DEF Retention!vars, Hushed
<1>2. CASE Retention!AppendAudit
  <2>1. \/ Retention!Going \/ Retention!AuditFails("faulted") \/ Retention!AuditFails("threw")
    BY <1>2 DEF Retention!AppendAudit
  <2>. QED  BY <2>1, GoingHushes, AuditFailsHushes, HushedAnswer
<1>3. CASE Retention!WriteHead
  <2>1. Retention!Going \/ Retention!AuditFails("faulted")
    BY <1>3 DEF Retention!WriteHead
  <2>. QED  BY <2>1, GoingHushes, AuditFailsHushes, HushedAnswer
<1>4. CASE Retention!Anchor
  <2>1. Retention!Going \/ Retention!AuditFails("faulted")
    BY <1>4 DEF Retention!Anchor, Retention!Save
  <2>. QED  BY <2>1, GoingHushes, AuditFailsHushes, HushedAnswer
<1>5. CASE Retention!GiveAnswer
  <2>1. rop.pc = "answer" /\ Retention!Finish(rop.status)
    BY <1>5 DEF Retention!GiveAnswer, Retention!At
  <2>2. Audited("answer")
    BY <2>1, LivingAt DEF Living
  <2>3. Claimed => rop.entry.outcome = "completed" /\ rop.entry \in Vouched
    BY <2>2 DEF Audited
  <2>. QED  BY <2>1, <2>3, SaidAnswer, FinishHushes, HushedAnswer DEF Claimed
<1>6. CASE Retention!Settle
  <2>1. Retention!Going \/ Retention!Trouble("threw") \/ Retention!Trouble("faulted")
    BY <1>6 DEF Retention!Settle, Retention!Save
  <2>. QED  BY <2>1, GoingHushes, TroubleHushes, HushedAnswer
<1>7. CASE Retention!CommitExtension
  <2>1. \/ rop.entry # Retention!NoEntry /\ Retention!Finish("extended")
        \/ Retention!Going
        \/ Retention!Trouble("faulted")
    BY <1>7 DEF Retention!CommitExtension
  <2>2. ASSUME rop.entry # Retention!NoEntry, Retention!Finish("extended") PROVE AnswerInv'
    <3>1. Audited("commit")
      BY <1>7, LivingAt DEF Retention!CommitExtension, Retention!At, Living
    <3>2. rop.entry = Pending /\ Pending \in Vouched
      BY <2>2, <3>1 DEF Audited
    <3>3. rop.entry.outcome = "completed"
      BY <3>2 DEF Pending, Retention!Extension
    <3>. QED  BY <2>2, <3>2, <3>3, SaidAnswer
  <2>. QED  BY <2>1, <2>2, GoingHushes, TroubleHushes, HushedAnswer
<1>8. CASE Retention!DecideExtension
  <2>1. Retention!Going \/ Retention!Finish("rejected")
    BY <1>8 DEF Retention!DecideExtension
  <2>. QED  BY <2>1, GoingHushes, FinishHushes, HushedAnswer
<1>9. CASE Retention!DecideReview \/ Retention!ReviewCallback \/ Retention!ViewRetention
  <2>1. CASE Retention!DecideReview
    <3>1. Len(journal) >= ReviewCap <=> ~(Len(journal) < ReviewCap)
      BY GovernanceAssumption DEF TypeInv, Retention!RetentionAssumption
    <3>2. Retention!Going \/ Retention!Finish("audit_failed")
      BY <2>1, <3>1, Zenon DEF Retention!DecideReview
    <3>. QED  BY <3>2, GoingHushes, FinishHushes, HushedAnswer
  <2>2. CASE Retention!ReviewCallback
    <3>1. Retention!Going \/ Retention!Finish("threw")
      BY <2>2 DEF Retention!ReviewCallback
    <3>. QED  BY <3>1, GoingHushes, FinishHushes, HushedAnswer
  <2>3. CASE Retention!ViewRetention
    <3>1. Retention!Finish("done")
      BY <2>3 DEF Retention!ViewRetention
    <3>. QED  BY <3>1, FinishHushes, HushedAnswer
  <2>. QED  BY <1>9, <2>1, <2>2, <2>3
<1>10. CASE Retention!DecideNewExport
  <2>1. Retention!Going \/ Retention!Finish("audit_failed") \/ Retention!Finish("threw")
    BY <1>10 DEF Retention!DecideNewExport, Retention!Save
  <2>. QED  BY <2>1, GoingHushes, FinishHushes, HushedAnswer
<1>11. CASE Retention!DecideKnownExport \/ Retention!ExportCallback \/ Retention!ExportVerified
  <2>1. Retention!Going \/ Retention!Finish("audit_failed")
    BY <1>11 DEF Retention!DecideKnownExport, Retention!ExportCallback, Retention!ExportVerified
  <2>. QED  BY <2>1, GoingHushes, FinishHushes, HushedAnswer
<1>12. CASE Retention!CompleteExport
  <2>1. \/ Retention!Going \/ Retention!Finish("done") \/ Retention!Trouble("faulted")
        \/ rop.kind # "recover" /\ Retention!Finish("completed")
    BY <1>12 DEF Retention!CompleteExport
  <2>2. ASSUME rop.kind # "recover", Retention!Finish("completed") PROVE AnswerInv'
    <3>1. Audited("complete")
      BY <1>12, LivingAt DEF Retention!CompleteExport, Retention!At, Living
    <3>2. rop.entry = Retention!Completed /\ Retention!Completed \in Vouched
      BY <2>2, <3>1 DEF Audited
    <3>3. rop.entry.outcome = "completed"
      BY <3>2 DEF Retention!Completed, Retention!Entry, Retention!NoEntry
    <3>. QED  BY <2>2, <3>2, <3>3, SaidAnswer
  <2>. QED  BY <2>1, <2>2, GoingHushes, FinishHushes, TroubleHushes, HushedAnswer
<1>13. CASE Retention!ClearExport \/ Retention!UnregisterExport
  <2>1. Retention!Going \/ Retention!Finish("threw") \/ Retention!Finish("done")
    BY <1>13 DEF Retention!ClearExport, Retention!UnregisterExport
  <2>. QED  BY <2>1, GoingHushes, FinishHushes, HushedAnswer
<1>14. CASE Retention!DecideDeletion \/ Retention!DecideSweep \/ Retention!Erase
  <2>1. Retention!Going \/ Retention!Finish("pending") \/ Retention!Finish("faulted")
          \/ Retention!Finish("done")
    BY <1>14 DEF Retention!DecideDeletion, Retention!DecideSweep, Retention!Erase,
       Retention!WriteReceipt
  <2>. QED  BY <2>1, GoingHushes, FinishHushes, HushedAnswer
<1>15. CASE Retention!CompleteReceipt
  <2>1. rop.kind \in {"delete", "sweep", "recover"}
    BY <1>15, ErasingAt DEF Retention!CompleteReceipt, Retention!At, Erasing
  <2>2. \E s : Retention!Finish(s)
    BY <1>15 DEF Retention!CompleteReceipt
  <2>. QED  BY <2>1, <2>2, FinishHushes, HushedAnswer
<1>16. CASE Retention!DecideRecovery
  <2>1. Retention!Going \/ Retention!Finish("threw") \/ Retention!Finish("done")
    BY <1>16 DEF Retention!DecideRecovery
  <2>. QED  BY <2>1, GoingHushes, FinishHushes, HushedAnswer
<1>17. CASE Retention!Begin \/ Retention!ResumeDeletion \/ Retention!BeginSweep \/ Retention!Crash
  <2>1. ranswer' = Retention!NoAnswer
    BY <1>17, RequestedType DEF Retention!ResumeDeletion, Retention!BeginSweep, Retention!Crash,
       Retention!Beginning
  <2>. QED  BY <2>1, HushedAnswer DEF Hushed, Retention!NoAnswer
<1>18. CASE Retention!Recover \/ Retention!Tick
  BY <1>18, HushedAnswer DEF Retention!Recover, Retention!Tick, Hushed
<1>. QED  BY <1>1, <1>2, <1>3, <1>4, <1>5, <1>6, <1>7, <1>8, <1>9, <1>10, <1>11, <1>12,
             <1>13, <1>14, <1>15, <1>16, <1>17, <1>18 DEF Retention!Next, Retention!Steps

-----------------------------------------------------------------------------
(***************************************************************************)
(* Extensions.  The sidecar keeps what the journal grants.                 *)
(***************************************************************************)
LEMMA SideFields ==
  ASSUME NEW m \in Retention!Sides
  PROVE  /\ m.deadline \in Nat /\ m.pending.deadline \in Nat /\ m.deadline \in Retention!Times
         /\ m.pending \in [id : Retention!Ids, deadline : Retention!Times]
              /\ m.pending.id \in Retention!Ids
         /\ m.extended \in [id : Retention!Ids, deadline : Retention!Times]
BY GovernanceAssumption DEF Retention!Sides, Retention!Times, Retention!RetentionAssumption

LEMMA JournalFields ==
  ASSUME TypeInv, NEW i \in 1..Len(journal)
  PROVE  journal[i] \in Entries /\ journal[i].deadline \in Nat
<1>1. journal[i] \in Entries
  BY DEF TypeInv
<1>2. LastDeadline \in Nat
  BY GovernanceAssumption DEF Retention!RetentionAssumption
<1>. QED  BY <1>1, <1>2 DEF Entries, Retention!Times

\* What a step appends is no grant, or the one that is pending.
LEMMA Appended ==
  ASSUME TypeInv, JournalInv, OpInv, Grows, NEW i \in 1..Len(journal')
  PROVE  \/ (i \in 1..Len(journal) /\ journal'[i] = journal[i])
         \/ ~Granted(journal'[i])
         \/ /\ rreceipt.status = "none"
            /\ journal'[i] = Retention!Extension(rside.pending.id, rside.pending.deadline)
<1>0. Len(journal) \in Nat /\ journal \in Seq(Entries)
  BY DEF TypeInv
<1>1. CASE journal' = journal
  BY <1>1
<1>2. CASE journal' # journal
  <2>1. PICK e \in Entries :
          journal' = Append(journal, e)
            /\ (e = Retention!Torn \/ (rop.pc = "audit" /\ e = rop.entry))
    BY <1>2 DEF Grows
  <2>2. (i \in 1..Len(journal) /\ journal'[i] = journal[i]) \/ journal'[i] = e
    BY <1>0, <2>1
  <2>3. ~Granted(Retention!Torn)
    BY DEF Granted, Retention!Torn, Retention!Entry, Retention!NoEntry
  <2>. QED  BY <2>1, <2>2, <2>3, GrantIsPending
<1>. QED  BY <1>1, <1>2

\* An erased archive: nothing is granted to it any more.
LEMMA ExtendedFrame ==
  ASSUME TypeInv, JournalInv, OpInv, ExtensionInv, Grows, rreceipt.status # "none",
         rreceipt'.status # "none", rreceipt'.disposition = rreceipt.disposition,
         rreceipt'.at = rreceipt.at, journal' \in Seq(Entries)
  PROVE  ExtensionInv'
<1>1. /\ DOMAIN journal = 1..Len(journal) /\ DOMAIN journal' = 1..Len(journal')
  BY DEF TypeInv
<1>2. SUFFICES ASSUME NEW i \in 1..Len(journal'), Granted(journal'[i]),
                      rreceipt'.disposition = "scheduled"
               PROVE  rreceipt'.at >= journal'[i].deadline
  BY <1>1 DEF ExtensionInv, Retention!ExtendedHolds, Granted
<1>3. i \in 1..Len(journal) /\ journal'[i] = journal[i]
  BY <1>2, Appended
<1>. QED  BY <1>1, <1>2, <1>3 DEF ExtensionInv, Retention!ExtendedHolds, Granted

\* A living archive: the sidecar changes, and still has what was granted.
LEMMA GrantedFrame ==
  ASSUME TypeInv, JournalInv, OpInv, ExtensionInv, Grows, rreceipt.status = "none", TypeInv',
         rreceipt'.status = "none", rreceipt'.disposition = "none",
         rside'.pending # Retention!None => rside'.deadline <= rside'.pending.deadline,
         rside'.extended # Retention!None =>
           Retention!Extension(rside'.extended.id, rside'.extended.deadline) \in Vouched',
         rside.deadline <= rside'.deadline,
         Retention!Extension(rside.pending.id, rside.pending.deadline) \in Written' =>
            rside.pending.deadline <= rside'.deadline \/ rside'.pending = rside.pending
  PROVE  ExtensionInv'
<1>0. /\ rside \in Retention!Sides /\ rside' \in Retention!Sides
  BY DEF TypeInv
<1>1. Retention!ExtendedHolds'
  BY DEF Retention!ExtendedHolds
<1>2. ASSUME NEW i \in 1..Len(journal'), Granted(journal'[i])
      PROVE  \/ journal'[i].deadline <= rside'.deadline
             \/ journal'[i] = Retention!Extension(rside'.pending.id, rside'.pending.deadline)
  <2>1. CASE journal'[i] = Retention!Extension(rside.pending.id, rside.pending.deadline)
    <3>1. journal'[i] \in Written'
      BY DEF Written
    <3>2. journal'[i].deadline = rside.pending.deadline
      BY <2>1 DEF Retention!Extension
    <3>. QED  BY <2>1, <3>1, <3>2
  <2>2. CASE i \in 1..Len(journal) /\ journal'[i] = journal[i]
               /\ journal[i].deadline <= rside.deadline
    BY <1>0, <2>2, SideFields, JournalFields
  <2>3. i \in 1..Len(journal) /\ journal'[i] = journal[i] =>
          \/ journal[i].deadline <= rside.deadline
          \/ journal[i] = Retention!Extension(rside.pending.id, rside.pending.deadline)
    BY <1>2 DEF ExtensionInv
  <2>. QED  BY <1>2, <2>1, <2>2, <2>3, Appended
<1>. QED  BY <1>1, <1>2 DEF ExtensionInv

LEMMA ExtensionFrame ==
  ASSUME TypeInv, JournalInv, OpInv, ExtensionInv, Grows, TypeInv', rreceipt' = rreceipt,
         rreceipt.status = "none" => /\ rside'.pending = rside.pending
                                     /\ rside'.deadline = rside.deadline
                                     /\ rside'.extended = rside.extended
  PROVE  ExtensionInv'
<1>1. CASE rreceipt.status # "none"
  BY <1>1, ExtendedFrame DEF TypeInv
<1>2. CASE rreceipt.status = "none"
  <2>1. Vouched \subseteq Vouched' /\ rside.deadline \in Nat
    BY GrowsKeeps, SideFields DEF TypeInv
  <2>. QED  BY <1>2, <2>1, GrantedFrame DEF ExtensionInv
<1>. QED  BY <1>1, <1>2

LEMMA SettleExtension ==
  ASSUME RetentionInv, TypeInv', Grows, Retention!Settle
  PROVE  ExtensionInv'
<1>0. /\ TypeInv /\ JournalInv /\ OpInv /\ ExtensionInv /\ rreceipt' = rreceipt
           /\ journal' = journal
      /\ rop.pc = "settle"
  BY DEF RetentionInv, Retention!Settle, Retention!At
<1>1. rreceipt.status = "none" /\ rop.meta = rside /\ rside.pending # Retention!None
  BY <1>0, LivingAt DEF Living
<1>2. CASE rside' = rside
  BY <1>0, <1>2, ExtensionFrame
<1>3. CASE rside' # rside
  <2>1. /\ Retention!Extension(rside.pending.id,
                               rside.pending.deadline) \notin Retention!Range(journal)
        /\ rside' = [rside EXCEPT !.pending = Retention!None]
    BY <1>0, <1>1, <1>3 DEF Retention!Settle, Retention!Save, Retention!SaveFails
  <2>2. /\ rside'.pending = Retention!None /\ rside'.deadline = rside.deadline
             /\ rside'.extended = rside.extended
    BY <1>0, <2>1 DEF TypeInv, Retention!Sides
  <2>3. Retention!Extension(rside.pending.id, rside.pending.deadline) \notin Written'
    BY <1>0, <2>1, RangeIsWritten DEF Written
  <2>4. Vouched \subseteq Vouched' /\ rside.deadline \in Nat
    BY <1>0, GrowsKeeps, SideFields DEF TypeInv
  <2>. QED  BY <1>0, <1>1, <2>2, <2>3, <2>4, GrantedFrame DEF ExtensionInv
<1>. QED  BY <1>2, <1>3

LEMMA CommitExtends ==
  ASSUME RetentionInv, TypeInv', Grows, Retention!CommitExtension
  PROVE  ExtensionInv'
<1>0. /\ TypeInv /\ JournalInv /\ OpInv /\ ExtensionInv /\ rreceipt' = rreceipt /\ rop.pc = "commit"
  BY DEF RetentionInv, Retention!CommitExtension, Retention!At
<1>1. rreceipt.status = "none" /\ rop.meta = rside /\ Audited("commit")
  BY <1>0, LivingAt DEF Living
<1>2. CASE rside' = rside
  BY <1>0, <1>2, ExtensionFrame
<1>3. CASE rside' # rside
  <2>1. rside' = [rside EXCEPT !.pending = Retention!None, !.deadline = rside.pending.deadline,
                              !.used = TRUE, !.extended = rside.pending]
    BY <1>1, <1>3 DEF Retention!CommitExtension, Retention!SaveFails
  <2>2. /\ rside'.pending = Retention!None /\ rside'.deadline = rside.pending.deadline
        /\ rside'.extended = rside.pending
    BY <1>0, <2>1 DEF TypeInv, Retention!Sides
  <2>3. /\ Retention!Extension(rside.pending.id, rside.pending.deadline) \in Vouched
        /\ rside.deadline <= rside.pending.deadline
    BY <1>0, <1>1 DEF Audited, Pending, ExtensionInv
  <2>4. Vouched \subseteq Vouched' /\ rside.pending.deadline \in Nat
    BY <1>0, GrowsKeeps, SideFields DEF TypeInv
  <2>. QED  BY <1>0, <1>1, <2>2, <2>3, <2>4, GrantedFrame DEF ExtensionInv
<1>. QED  BY <1>2, <1>3

LEMMA DecideExtends ==
  ASSUME RetentionInv, TypeInv', Grows, Retention!DecideExtension
  PROVE  ExtensionInv'
<1>0. /\ TypeInv /\ JournalInv /\ OpInv /\ ExtensionInv /\ rreceipt' = rreceipt
           /\ journal' = journal
      /\ rop.pc = "decide" /\ rop.kind = "extend"
  BY DEF RetentionInv, Retention!DecideExtension, Retention!Deciding, Retention!At
<1>1. rreceipt.status = "none" /\ rop.meta = rside /\ rside.pending = Retention!None
  BY <1>0, LivingAt DEF Living
<1>2. CASE rside' = rside
  BY <1>0, <1>2, ExtensionFrame
<1>3. CASE rside' # rside
  <2>1. /\ Retention!Extendable
        /\ rside' = [rside EXCEPT !.pending = [id |-> rop.id, deadline |-> rop.deadline]]
    BY <1>1, <1>3 DEF Retention!DecideExtension, Retention!SaveFails
  <2>2. /\ rside'.pending = [id |-> rop.id, deadline |-> rop.deadline]
        /\ rside'.deadline = rside.deadline /\ rside'.extended = rside.extended
    BY <1>0, <2>1 DEF TypeInv, Retention!Sides
  <2>3. rside'.deadline <= rside'.pending.deadline
    <3>1. rop.deadline \in Nat /\ rside.deadline \in Nat
      BY <1>0, SideFields, OpFields, GovernanceAssumption DEF TypeInv, Retention!Times,
         Retention!RetentionAssumption
    <3>. QED  BY <1>1, <2>1, <2>2, <3>1 DEF Retention!Extendable
  <2>4. rside.pending.deadline <= rside'.deadline
    BY <1>0, <1>1, <2>2, SideFields DEF Retention!None, TypeInv
  <2>5. Vouched \subseteq Vouched' /\ rside.deadline \in Nat
    BY <1>0, GrowsKeeps, SideFields DEF TypeInv
  <2>. QED  BY <1>0, <1>1, <2>2, <2>3, <2>4, <2>5, GrantedFrame DEF ExtensionInv
<1>. QED  BY <1>2, <1>3

\* A sweep finds the deadline that was granted last behind it.
LEMMA DeletionExtends ==
  ASSUME RetentionInv, TypeInv', Grows, Retention!DecideDeletion \/ Retention!DecideSweep
  PROVE  ExtensionInv'
<1>0. /\ TypeInv /\ JournalInv /\ OpInv /\ ExtensionInv /\ rside' = rside /\ journal' = journal
      /\ rop.pc = "decide" /\ rop.kind \in {"delete", "sweep"} /\ now \in Nat
      /\ DOMAIN journal = 1..Len(journal)
  BY GovernanceAssumption DEF RetentionInv, Retention!DecideDeletion, Retention!DecideSweep,
     Retention!Deciding, Retention!At, TypeInv,
     Retention!RetentionAssumption
<1>1. rreceipt.status = "none" /\ rop.meta = rside /\ rside.pending = Retention!None
  BY <1>0, LivingAt DEF Living
<1>2. CASE rreceipt' = rreceipt
  BY <1>0, <1>2, ExtensionFrame
<1>3. CASE rreceipt' # rreceipt
  <2>1. rreceipt'.status = "pending" /\ rreceipt'.at = now
    BY <1>3 DEF Retention!DecideDeletion, Retention!DecideSweep, Retention!WriteReceipt
  <2>2. rreceipt'.disposition = "early" \/ now >= rside.deadline
    BY <1>1, <1>3 DEF Retention!DecideDeletion, Retention!DecideSweep, Retention!WriteReceipt,
       Retention!Expired
  <2>3. ASSUME NEW i \in 1..Len(journal), Granted(journal[i]), rreceipt'.disposition = "scheduled"
        PROVE  now >= journal[i].deadline
    <3>1. journal[i].deadline <= rside.deadline
      <4>1. \/ journal[i].deadline <= rside.deadline
            \/ journal[i] = Retention!Extension(rside.pending.id, rside.pending.deadline)
        BY <1>0, <1>1, <2>3 DEF ExtensionInv
      <4>2. CASE journal[i] = Retention!Extension(rside.pending.id, rside.pending.deadline)
        BY <1>0, <1>1, <4>2, SideFields DEF Retention!Extension, Retention!None, TypeInv
      <4>. QED  BY <4>1, <4>2
    <3>. QED  BY <1>0, <2>2, <2>3, <3>1, SideFields, JournalFields DEF TypeInv
  <2>4. Retention!ExtendedHolds'
    BY <1>0, <2>1, <2>3 DEF Retention!ExtendedHolds, Granted
  <2>. QED  BY <2>1, <2>4 DEF ExtensionInv
<1>. QED  BY <1>2, <1>3

\* What an operation saves for its export leaves the retention as it is.
LEMMA SameRetention ==
  ASSUME NEW m \in Retention!Sides
  PROVE  /\ [m EXCEPT !.audited = TRUE].pending = m.pending
         /\ [m EXCEPT !.audited = TRUE].deadline = m.deadline
         /\ [m EXCEPT !.audited = TRUE].extended = m.extended
         /\ [m EXCEPT !.audited = TRUE].export = m.export
         /\ \A x : /\ [m EXCEPT !.export = x].pending = m.pending
                   /\ [m EXCEPT !.export = x].deadline = m.deadline
                   /\ [m EXCEPT !.export = x].extended = m.extended
                   /\ [m EXCEPT !.export = x].export = x
                   /\ [m EXCEPT !.export.status = x].pending = m.pending
                   /\ [m EXCEPT !.export.status = x].deadline = m.deadline
                   /\ [m EXCEPT !.export.status = x].extended = m.extended
                   /\ [m EXCEPT !.export.status = x].export.status = x
                   /\ [m EXCEPT !.export.status = x].export.id = m.export.id
BY DEF Retention!Sides

LEMMA ExtensionStep ==
  ASSUME RetentionInv, TypeInv', Grows, [Retention!Next]_Retention!vars
  PROVE  ExtensionInv'
<1>0. TypeInv /\ JournalInv /\ OpInv /\ ExtensionInv /\ rside \in Retention!Sides
        /\ rop.meta \in Retention!Sides
  BY OpFields DEF RetentionInv, TypeInv
<1>1. CASE UNCHANGED <<rside, rreceipt>>
  BY <1>0, <1>1, ExtensionFrame
<1>2. CASE Retention!Settle \/ Retention!CommitExtension \/ Retention!DecideExtension
             \/ Retention!DecideDeletion \/ Retention!DecideSweep
  BY <1>2, SettleExtension, CommitExtends, DecideExtends, DeletionExtends
<1>3. CASE Retention!Anchor
  <2>1. rreceipt' = rreceipt /\ rop.pc = "anchor"
    BY <1>3 DEF Retention!Anchor, Retention!At
  <2>2. rside' = rside \/ (rside' = [rop.meta EXCEPT !.audited = TRUE] /\ ~rop.meta.audited)
    BY <1>3 DEF Retention!Anchor, Retention!Save, Retention!SaveFails
  <2>3. rreceipt.status = "none" /\ ~rop.meta.audited => rop.meta = rside
    BY <1>0, <2>1, LivingAudit
  <2>. QED  BY <1>0, <2>1, <2>2, <2>3, SameRetention, ExtensionFrame
<1>4. CASE Retention!DecideNewExport \/ Retention!ExportVerified \/ Retention!CompleteExport
             \/ Retention!UnregisterExport
  <2>1. rreceipt' = rreceipt /\ rop.pc \in {"decide", "verified", "complete", "cleared"}
    BY <1>4 DEF Retention!DecideNewExport, Retention!ExportVerified, Retention!CompleteExport,
       Retention!UnregisterExport, Retention!Deciding, Retention!At
  <2>2. rop.meta = rside
    BY <1>0, <2>1, LivingAt
  <2>3. \/ rside' = rside
        \/ \E x : rside' = [rside EXCEPT !.export = x]
        \/ \E x : rside' = [rside EXCEPT !.export.status = x]
    <3>1. CASE Retention!DecideNewExport
      BY <2>2, <3>1 DEF Retention!DecideNewExport, Retention!Save, Retention!SaveFails,
         Retention!Exported
    <3>2. CASE Retention!ExportVerified
      BY <2>2, <3>2 DEF Retention!ExportVerified, Retention!SaveFails, Retention!Exported
    <3>3. CASE Retention!CompleteExport
      BY <2>2, <3>3 DEF Retention!CompleteExport, Retention!SaveFails
    <3>4. CASE Retention!UnregisterExport
      BY <2>2, <3>4 DEF Retention!UnregisterExport, Retention!SaveFails
    <3>. QED  BY <1>4, <3>1, <3>2, <3>3, <3>4
  <2>4. /\ rside'.pending = rside.pending /\ rside'.deadline = rside.deadline
        /\ rside'.extended = rside.extended
    <3>1. ASSUME NEW x, rside' = [rside EXCEPT !.export = x]
          PROVE  /\ rside'.pending = rside.pending /\ rside'.deadline = rside.deadline
                 /\ rside'.extended = rside.extended
      BY <1>0, <3>1, SameRetention
    <3>2. ASSUME NEW x, rside' = [rside EXCEPT !.export.status = x]
          PROVE  /\ rside'.pending = rside.pending /\ rside'.deadline = rside.deadline
                 /\ rside'.extended = rside.extended
      BY <1>0, <3>2, SameRetention
    <3>. QED  BY <2>3, <3>1, <3>2
  <2>. QED  BY <1>0, <2>1, <2>4, ExtensionFrame
<1>5. CASE Retention!Erase
  <2>1. rreceipt' = rreceipt /\ rreceipt.status # "none"
    BY <1>0, <1>5, ErasingAt DEF Retention!Erase, Retention!At
  <2>. QED  BY <1>0, <2>1, ExtensionFrame
<1>6. CASE Retention!CompleteReceipt
  <2>1. rreceipt.status = "pending"
    BY <1>0, <1>6, ErasingAt DEF Retention!CompleteReceipt, Retention!At
  <2>2. /\ rreceipt'.status # "none" /\ rreceipt'.disposition = rreceipt.disposition
        /\ rreceipt'.at = rreceipt.at
    BY <1>0, <1>6, <2>1 DEF Retention!CompleteReceipt, TypeInv, Receipts
  <2>3. journal' \in Seq(Entries)
    BY DEF TypeInv
  <2>. QED  BY <1>0, <2>1, <2>2, <2>3, ExtendedFrame
<1>7. CASE Retention!Recover
  <2>1. rreceipt' = rreceipt /\ (rside' = rside \/ rreceipt.status = "completed")
    BY <1>7 DEF Retention!Recover
  <2>. QED  BY <1>0, <2>1, ExtensionFrame
<1>8. CASE Retention!Begin
  BY <1>1, <1>8, RequestedType, <1>0 DEF Retention!Beginning, Retention!disk
<1>9. CASE Retention!AppendAudit \/ Retention!WriteHead \/ Retention!GiveAnswer
             \/ Retention!DecideReview \/ Retention!ReviewCallback \/ Retention!ViewRetention
           \/ Retention!DecideKnownExport \/ Retention!ExportCallback \/ Retention!ClearExport
           \/ Retention!DecideRecovery \/ Retention!ResumeDeletion \/ Retention!BeginSweep
                \/ Retention!Crash \/ Retention!Tick
  BY <1>1, <1>9 DEF Retention!AppendAudit, Retention!WriteHead, Retention!GiveAnswer,
     Retention!DecideReview, Retention!ReviewCallback, Retention!ViewRetention,
     Retention!DecideKnownExport, Retention!ExportCallback, Retention!ClearExport,
     Retention!DecideRecovery, Retention!ResumeDeletion, Retention!BeginSweep, Retention!Crash,
       Retention!Tick, Retention!Quiet, Retention!Beginning, Retention!disk
<1>. QED  BY <1>1, <1>2, <1>3, <1>4, <1>5, <1>6, <1>7, <1>8, <1>9 DEF Retention!Next,
     Retention!Steps, Retention!vars, Retention!disk

-----------------------------------------------------------------------------
(***************************************************************************)
(* Exports.  The plaintext is under its registration.                      *)
(***************************************************************************)
LEMMA ExportFrame ==
  ASSUME TypeInv, JournalInv, ExportInv, Grows, rreceipt' = rreceipt,
         rreceipt.status = "none" => rside'.export = rside.export /\ rfiles' = rfiles
  PROVE  ExportInv'
<1>1. Vouched \subseteq Vouched'
  BY GrowsKeeps
<1>. QED  BY <1>1 DEF ExportInv

LEMMA ErasedFrame == ASSUME rreceipt'.status # "none" PROVE ExportInv'
BY DEF ExportInv

\* An export is registered in another state.
LEMMA RegisteredFrame ==
  ASSUME rreceipt.status = "none" => /\ rside'.export.status \in {"pending", "audit_pending"}
                                     /\ rside'.export.status = "pending" \/ rfiles' = "whole",
         rreceipt' = rreceipt
  PROVE  ExportInv'
BY DEF ExportInv

LEMMA ExportStep ==
  ASSUME RetentionInv, TypeInv', Grows, [Retention!Next]_Retention!vars
  PROVE  ExportInv'
<1>0. /\ TypeInv /\ JournalInv /\ OpInv /\ ExportInv /\ rside \in Retention!Sides
           /\ rop.meta \in Retention!Sides
      /\ Vouched \subseteq Vouched'
  BY OpFields, GrowsKeeps DEF RetentionInv, TypeInv
<1>1. CASE UNCHANGED <<rside, rreceipt, rfiles>>
  BY <1>0, <1>1, ExportFrame
<1>2. CASE Retention!Settle \/ Retention!CommitExtension \/ Retention!DecideExtension
  <2>1. rreceipt' = rreceipt /\ rfiles' = rfiles /\ rop.pc \in {"settle", "commit", "decide"}
    BY <1>2 DEF Retention!Settle, Retention!CommitExtension, Retention!DecideExtension,
       Retention!Deciding, Retention!At
  <2>2. rop.meta = rside
    BY <1>0, <2>1, LivingAt
  <2>3. rside'.export = rside.export
    <3>1. CASE Retention!Settle
      BY <1>0, <2>2, <3>1 DEF Retention!Settle, Retention!Save, Retention!SaveFails, Retention!Sides
    <3>2. CASE Retention!CommitExtension
      BY <1>0, <2>2, <3>2 DEF Retention!CommitExtension, Retention!SaveFails, Retention!Sides
    <3>3. CASE Retention!DecideExtension
      BY <1>0, <2>2, <3>3 DEF Retention!DecideExtension, Retention!SaveFails, Retention!Sides
    <3>. QED  BY <1>2, <3>1, <3>2, <3>3
  <2>. QED  BY <1>0, <2>1, <2>3, ExportFrame
<1>3. CASE Retention!Anchor
  <2>1. rreceipt' = rreceipt /\ rfiles' = rfiles /\ rop.pc = "anchor"
    BY <1>3 DEF Retention!Anchor, Retention!At
  <2>2. rside' = rside \/ (rside' = [rop.meta EXCEPT !.audited = TRUE] /\ ~rop.meta.audited)
    BY <1>3 DEF Retention!Anchor, Retention!Save, Retention!SaveFails
  <2>3. rreceipt.status = "none" /\ ~rop.meta.audited => rop.meta = rside
    BY <1>0, <2>1, LivingAudit
  <2>. QED  BY <1>0, <2>1, <2>2, <2>3, SameRetention, ExportFrame
<1>4. CASE Retention!DecideNewExport
  <2>1. rreceipt' = rreceipt /\ rfiles' = rfiles /\ rop.pc = "decide"
    BY <1>4 DEF Retention!DecideNewExport, Retention!Deciding, Retention!At
  <2>2. rop.meta = rside
    BY <1>0, <2>1, LivingAt
  <2>3. rside' = rside \/ rside' = [rside EXCEPT !.export = [status |-> "pending", id |-> rop.id]]
    BY <1>4, <2>2 DEF Retention!DecideNewExport, Retention!Save, Retention!SaveFails,
       Retention!Exported
  <2>4. rside' = rside \/ rside'.export.status = "pending"
    BY <1>0, <2>3 DEF Retention!Sides
  <2>. QED  BY <1>0, <2>1, <2>4, ExportFrame, RegisteredFrame
<1>5. CASE Retention!ExportCallback
  <2>1. rreceipt' = rreceipt /\ rside' = rside /\ rop.pc = "callback" /\ rop.kind = "export"
    BY <1>5 DEF Retention!ExportCallback, Retention!At
  <2>2. rside.export.status = "pending"
    BY <1>0, <2>1, LivingAt DEF Living
  <2>. QED  BY <2>1, <2>2, RegisteredFrame
<1>6. CASE Retention!ExportVerified
  <2>1. rreceipt' = rreceipt /\ rfiles' = rfiles /\ rop.pc = "verified"
    BY <1>6 DEF Retention!ExportVerified, Retention!At
  <2>2. rop.meta = rside /\ rfiles = "whole"
    BY <1>0, <2>1, LivingAt DEF Living
  <2>3. rside' = rside
          \/ rside' = [rside EXCEPT !.export = [status |-> "audit_pending", id |-> rop.id]]
    BY <1>6, <2>2 DEF Retention!ExportVerified, Retention!SaveFails, Retention!Exported
  <2>4. rside' = rside \/ rside'.export.status = "audit_pending"
    BY <1>0, <2>3 DEF Retention!Sides
  <2>. QED  BY <1>0, <2>1, <2>2, <2>4, ExportFrame, RegisteredFrame
<1>7. CASE Retention!CompleteExport
  <2>1. rreceipt' = rreceipt /\ rfiles' = rfiles /\ journal' = journal /\ rop.pc = "complete"
    BY <1>7 DEF Retention!CompleteExport, Retention!At
  <2>2. rreceipt.status = "none" /\ rop.meta = rside /\ Audited("complete")
    BY <1>0, <2>1, LivingAt DEF Living
  <2>3. \/ rside' = rside
        \/ /\ rside' = [rside EXCEPT !.export.status = "completed"]
           /\ rop.kind = "recover" => Retention!Completed \in Retention!Range(journal)
    BY <1>7, <2>2 DEF Retention!CompleteExport, Retention!SaveFails
  <2>4. CASE rside' = rside
    BY <1>0, <2>1, <2>4, ExportFrame
  <2>5. CASE rside' # rside
    <3>0. rside'.export.status = "completed" /\ rside'.export.id = rside.export.id
      BY <1>0, <2>3, <2>5 DEF Retention!Sides
    <3>1. /\ rside'.export.status = "completed" /\ rside'.export.id = rside.export.id
          /\ rop.kind = "recover" => Retention!Completed \in Written
      BY <1>0, <2>3, <2>5, <3>0, RangeIsWritten
    <3>2. Retention!Completed \in Vouched
      <4>1. CASE rop.kind = "recover"
        <5>1. head = Len(journal)
          BY <2>2, <4>1 DEF Audited
        <5>. QED  BY <3>1, <4>1, <5>1 DEF Written, Vouched
      <4>2. CASE rop.kind # "recover"
        BY <2>2, <4>2 DEF Audited
      <4>. QED  BY <4>1, <4>2
    <3>3. Retention!Entry("export", rside'.export.id, "completed") \in Vouched'
      BY <1>0, <2>2, <3>1, <3>2 DEF Retention!Completed
    <3>4. rfiles' = "whole"
      BY <1>0, <2>1, <2>2 DEF Audited, ExportInv
    <3>. QED  BY <3>1, <3>3, <3>4 DEF ExportInv
  <2>. QED  BY <2>4, <2>5
<1>8. CASE Retention!ClearExport
  <2>1. rreceipt' = rreceipt /\ rside' = rside /\ rop.pc = "clear"
    BY <1>8 DEF Retention!ClearExport, Retention!At
  <2>2. rside.export.status = "pending"
    BY <1>0, <2>1, LivingAt DEF Living
  <2>. QED  BY <2>1, <2>2, RegisteredFrame
<1>9. CASE Retention!UnregisterExport
  <2>1. rreceipt' = rreceipt /\ rfiles' = rfiles /\ rop.pc = "cleared"
    BY <1>9 DEF Retention!UnregisterExport, Retention!At
  <2>2. rop.meta = rside /\ rfiles = "none"
    BY <1>0, <2>1, LivingAt DEF Living
  <2>3. rside' = rside \/ rside' = [rside EXCEPT !.export = Retention!NoExport]
    BY <1>9, <2>2 DEF Retention!UnregisterExport, Retention!SaveFails
  <2>4. CASE rside' = rside
    BY <1>0, <2>1, <2>4, ExportFrame
  <2>5. CASE rside' # rside
    <3>1. rside'.export = Retention!NoExport
      BY <1>0, <2>3, <2>5 DEF Retention!Sides
    <3>. QED  BY <2>1, <2>2, <3>1 DEF ExportInv, Retention!NoExport
  <2>. QED  BY <2>4, <2>5
<1>10. CASE Retention!DecideDeletion \/ Retention!DecideSweep
  <2>1. rside' = rside /\ rfiles' = rfiles /\ (rreceipt' = rreceipt \/ rreceipt'.status = "pending")
    BY <1>10 DEF Retention!DecideDeletion, Retention!DecideSweep, Retention!WriteReceipt
  <2>. QED  BY <1>0, <2>1, ExportFrame, ErasedFrame
<1>11. CASE Retention!Erase
  <2>1. rreceipt' = rreceipt /\ rreceipt.status # "none"
    BY <1>0, <1>11, ErasingAt DEF Retention!Erase, Retention!At
  <2>. QED  BY <2>1, ErasedFrame
<1>12. CASE Retention!CompleteReceipt
  <2>1. rreceipt.status = "pending"
    BY <1>0, <1>12, ErasingAt DEF Retention!CompleteReceipt, Retention!At
  <2>2. rreceipt'.status # "none"
    BY <1>0, <1>12, <2>1 DEF Retention!CompleteReceipt, TypeInv, Receipts
  <2>. QED  BY <2>2, ErasedFrame
<1>13. CASE Retention!Recover
  <2>1. rreceipt' = rreceipt /\ (UNCHANGED <<rside, rfiles>> \/ rreceipt.status = "completed")
    BY <1>13 DEF Retention!Recover
  <2>. QED  BY <1>0, <2>1, ExportFrame
<1>14. CASE Retention!Begin
  BY <1>1, <1>14, RequestedType, <1>0 DEF Retention!Beginning, Retention!disk
<1>15. CASE Retention!AppendAudit \/ Retention!WriteHead \/ Retention!GiveAnswer
              \/ Retention!DecideReview \/ Retention!ReviewCallback \/ Retention!ViewRetention
           \/ Retention!DecideKnownExport \/ Retention!DecideRecovery
                \/ Retention!ResumeDeletion \/ Retention!BeginSweep \/ Retention!Crash
                     \/ Retention!Tick
  BY <1>1, <1>15 DEF Retention!AppendAudit, Retention!WriteHead, Retention!GiveAnswer,
     Retention!DecideReview, Retention!ReviewCallback, Retention!ViewRetention,
     Retention!DecideKnownExport, Retention!DecideRecovery, Retention!ResumeDeletion,
     Retention!BeginSweep, Retention!Crash, Retention!Tick, Retention!Quiet, Retention!Beginning,
     Retention!disk
<1>. QED  BY <1>1, <1>2, <1>3, <1>4, <1>5, <1>6, <1>7, <1>8, <1>9, <1>10, <1>11, <1>12, <1>13,
             <1>14, <1>15 DEF Retention!Next, Retention!Steps, Retention!vars, Retention!disk

-----------------------------------------------------------------------------
(***************************************************************************)
(* Operations.  First what a step makes of the operation.                  *)
(***************************************************************************)
LEMMA Stops ==
  ASSUME rop' = Retention!NoOp, rreceipt'.status = "completed" => rfiles' = "none"
  PROVE  OpInv'
BY DEF OpInv

LEMMA FinishStops ==
  ASSUME TypeInv, NEW s, Retention!Finish(s), rreceipt'.status = "completed" => rfiles' = "none"
  PROVE  OpInv'
BY FinishType, Stops

LEMMA TroubleStops ==
  ASSUME TypeInv, NEW s, Retention!Trouble(s), rreceipt'.status # "completed"
  PROVE  OpInv'
BY TroubleType, Stops

Same == rop'.kind = rop.kind /\ rop'.id = rop.id

LEMMA GotoFields ==
  ASSUME TypeInv, NEW p, Retention!Goto(p)
  PROVE  /\ Same /\ rop'.pc = p /\ rop'.meta = rop.meta /\ rop'.entry = rop.entry
         /\ rop'.then = rop.then /\ rop'.status = rop.status
BY DEF TypeInv, Ops, Retention!Goto, Same

LEMMA SaveFields ==
  ASSUME TypeInv, NEW m, NEW p, Retention!Save(m, p)
  PROVE  /\ Same /\ rop'.pc = p /\ rop'.meta = m /\ rside' = m /\ rop'.entry = rop.entry
         /\ rop'.then = rop.then /\ rop'.status = rop.status
BY DEF TypeInv, Ops, Retention!Save, Same

LEMMA AuditAnswerFields ==
  ASSUME TypeInv, NEW s, Retention!AuditAnswer(s)
  PROVE  /\ Same /\ rop'.pc = "audit" /\ rop'.meta = rop.meta
         /\ rop'.entry = Retention!Entry(rop.kind, rop.id, s)
         /\ rop'.then = "answer" /\ rop'.status = s
BY DEF TypeInv, Ops, Retention!AuditAnswer, Same

LEMMA AlertKept ==
  ASSUME Alert, Same, UNCHANGED <<journal, head>> \/ head' = Len(journal')
  PROVE  Alert'
<1>1. CASE UNCHANGED <<journal, head>>
  BY <1>1 DEF Alert, Same, Retention!Valid
<1>2. CASE head' = Len(journal')
  BY <1>2 DEF Alert, Same
<1>. QED  BY <1>1, <1>2

\* Steps of the audit while the archive is erased.
LEMMA ErasingGoes ==
  ASSUME TypeInv, OpInv, rreceipt.status = "pending", rop.pc \in {"audit", "head", "anchor"},
         Same, rop'.entry = rop.entry, rop'.then = rop.then,
           rop'.pc \in {"head", "anchor", rop.then},
         UNCHANGED <<rreceipt, rfiles>>
  PROVE  OpInv'
<1>1. Erasing
  BY ErasingAt
<1>2. Erasing'
  BY <1>1 DEF Erasing, Same
<1>. QED  BY <1>2 DEF OpInv

LEMMA FailureStops ==
  ASSUME TypeInv, OpInv, rop.pc \in {"audit", "head", "anchor"}, NEW why, Retention!AuditFails(why),
         UNCHANGED <<rreceipt, rfiles>>
  PROVE  OpInv'
<1>1. CASE rreceipt.status = "none"
  <2>1. rop.then \in {"commit", "complete", "answer"}
    BY <1>1, LivingAudit DEF Living, Entered, Audited
  <2>. QED  BY <1>1, <2>1, TroubleStops DEF Retention!AuditFails
<1>2. CASE rreceipt.status # "none"
  <2>1. rreceipt.status = "pending" /\ Erasing
    BY <1>2, ErasingAt
  <2>2. rop.then \in {"erase", "receipt"}
    BY <2>1 DEF Erasing
  <2>3. Retention!Goto(rop.then)
    BY <2>2 DEF Retention!AuditFails
  <2>. QED  BY <2>1, <2>3, GotoFields, ErasingGoes
<1>. QED  BY <1>1, <1>2

LEMMA AuditFramed ==
  ASSUME Entered, Same, rop'.meta = rop.meta, rop'.entry = rop.entry, rop'.then = rop.then,
         rop'.status = rop.status
  PROVE  Entered'
BY DEF Entered, Same, Pending, Retention!Completed, Claimed

\* An entry that the head vouches for.
LEMMA EnteredIsAudited ==
  ASSUME Entered, rop.entry \in Vouched
  PROVE  Audited(rop.then) /\ rop.kind \in {"extend", "export", "review"}
BY DEF Entered, Audited

LEMMA AuditedKept ==
  ASSUME NEW t, Audited(t), Same, rop'.entry = rop.entry, rop'.status = rop.status,
         rop'.meta.pending = rop.meta.pending, rop'.meta.export = rop.meta.export,
         UNCHANGED <<journal, head>>
  PROVE  Audited(t)'
<1>1. Pending' = Pending /\ Retention!Completed' = Retention!Completed /\ Vouched' = Vouched
        /\ (Claimed <=> Claimed')
  BY DEF Pending, Retention!Completed, Vouched, Claimed
<1>. QED  BY <1>1 DEF Audited, Same

LEMMA AppendOp ==
  ASSUME RetentionInv, TypeInv', Grows, Retention!AppendAudit
  PROVE  OpInv'
<1>0. /\ TypeInv /\ JournalInv /\ OpInv /\ rop.pc = "audit" /\ UNCHANGED <<rside, rreceipt, rfiles>>
      /\ rop.entry \in Entries /\ journal \in Seq(Entries) /\ Len(journal) \in Nat
      /\ head' = IF Retention!Valid THEN Len(journal) ELSE head
  BY OpFields DEF RetentionInv, Retention!AppendAudit, Retention!At, TypeInv
<1>1. \/ Retention!Valid /\ Retention!Present(rop.entry) /\ Retention!Goto("anchor")
           /\ journal' = journal
      \/ Retention!Valid /\ journal' = Append(journal, rop.entry) /\ Retention!Goto("head")
      \/ \E why : Retention!AuditFails(why)
  BY DEF Retention!AppendAudit, Retention!Appendable
<1>2. CASE \E why : Retention!AuditFails(why)
  BY <1>0, <1>2, FailureStops
<1>3. CASE rreceipt.status # "none" /\ (Retention!Goto("anchor") \/ Retention!Goto("head"))
  <2>1. rreceipt.status = "pending"
    BY <1>0, <1>3, ErasingAt
  <2>. QED  BY <1>0, <1>3, <2>1, GotoFields, ErasingGoes
<1>4. CASE rreceipt.status = "none" /\ Retention!Valid /\ Retention!Present(rop.entry)
             /\ Retention!Goto("anchor")
           /\ journal' = journal
  <2>1. /\ Living /\ (rop.meta = rside \/ (rop.then = "answer" /\ rop.meta.audited))
    BY <1>0, <1>4, LivingAudit
  <2>2. /\ Same /\ rop'.pc = "anchor" /\ rop'.meta = rop.meta /\ rop'.entry = rop.entry
        /\ rop'.then = rop.then /\ rop'.status = rop.status
    BY <1>0, <1>4, GotoFields
  <2>3. Entered /\ Alert
    BY <1>0, <2>1 DEF Living
  <2>4. rop.entry \in Vouched'
    BY <1>0, <1>4, RangeIsWritten DEF Retention!Present, Vouched, Written
  <2>5. Audited(rop.then)'
    <3>1. Entered' /\ rop'.entry \in Vouched'
      BY <2>2, <2>3, <2>4, AuditFramed
    <3>. QED  BY <2>2, <3>1 DEF Entered, Audited
  <2>6. Alert'
    BY <1>0, <1>4, <2>2, <2>3, AlertKept
  <2>7. Living'
    BY <2>2, <2>5, <2>6 DEF Living
  <2>8. Knows'
    BY <1>0, <2>1, <2>2 DEF Knows
  <2>. QED  BY <1>0, <1>4, <2>7, <2>8 DEF OpInv
<1>5. CASE rreceipt.status = "none" /\ Retention!Valid /\ journal' = Append(journal, rop.entry)
             /\ Retention!Goto("head")
  <2>1. /\ Living /\ (rop.meta = rside \/ (rop.then = "answer" /\ rop.meta.audited))
    BY <1>0, <1>5, LivingAudit
  <2>2. /\ Same /\ rop'.pc = "head" /\ rop'.meta = rop.meta /\ rop'.entry = rop.entry
        /\ rop'.then = rop.then /\ rop'.status = rop.status
    BY <1>0, <1>5, GotoFields
  <2>3. Entered /\ Alert
    BY <1>0, <2>1 DEF Living
  <2>4. rop'.entry \in Written'
    BY <1>0, <1>5, <2>2 DEF Written
  <2>5. Entered'
    BY <2>2, <2>3, AuditFramed
  <2>6. Alert'
    BY <2>2, <2>3 DEF Alert, Entered, Same
  <2>7. Living'
    BY <2>2, <2>4, <2>5, <2>6 DEF Living
  <2>8. Knows'
    BY <1>0, <2>1, <2>2 DEF Knows
  <2>. QED  BY <1>0, <1>5, <2>7, <2>8 DEF OpInv
<1>. QED  BY <1>1, <1>2, <1>3, <1>4, <1>5

LEMMA WriteHeadOp ==
  ASSUME RetentionInv, TypeInv', Grows, Retention!WriteHead
  PROVE  OpInv'
<1>0. /\ TypeInv /\ JournalInv /\ OpInv /\ rop.pc = "head"
           /\ UNCHANGED <<rside, journal, rreceipt, rfiles>>
      /\ Len(journal) \in Nat
  BY DEF RetentionInv, Retention!WriteHead, Retention!At, TypeInv
<1>1. (head' = Len(journal) /\ Retention!Goto("anchor")) \/ \E why : Retention!AuditFails(why)
  BY DEF Retention!WriteHead
<1>2. CASE \E why : Retention!AuditFails(why)
  BY <1>0, <1>2, FailureStops
<1>3. CASE rreceipt.status # "none" /\ Retention!Goto("anchor")
  <2>1. rreceipt.status = "pending"
    BY <1>0, <1>3, ErasingAt
  <2>. QED  BY <1>0, <1>3, <2>1, GotoFields, ErasingGoes
<1>4. CASE rreceipt.status = "none" /\ head' = Len(journal) /\ Retention!Goto("anchor")
  <2>1. /\ Living /\ (rop.meta = rside \/ (rop.then = "answer" /\ rop.meta.audited))
    BY <1>0, <1>4, LivingAudit
  <2>2. /\ Same /\ rop'.pc = "anchor" /\ rop'.meta = rop.meta /\ rop'.entry = rop.entry
        /\ rop'.then = rop.then /\ rop'.status = rop.status
    BY <1>0, <1>4, GotoFields
  <2>3. Entered /\ Alert /\ rop.entry \in Written
    BY <1>0, <2>1 DEF Living
  <2>4. rop.entry \in Vouched'
    BY <1>0, <1>4, <2>3 DEF Vouched, Written
  <2>5. Audited(rop.then)'
    <3>1. Entered' /\ rop'.entry \in Vouched'
      BY <2>2, <2>3, <2>4, AuditFramed
    <3>. QED  BY <2>2, <3>1 DEF Entered, Audited
  <2>6. Alert'
    BY <1>0, <1>4, <2>2, <2>3, AlertKept
  <2>7. Living'
    BY <2>2, <2>5, <2>6 DEF Living
  <2>8. Knows'
    BY <1>0, <2>1, <2>2 DEF Knows
  <2>. QED  BY <1>0, <1>4, <2>7, <2>8 DEF OpInv
<1>. QED  BY <1>1, <1>2, <1>3, <1>4

LEMMA AnchorOp ==
  ASSUME RetentionInv, TypeInv', Grows, Retention!Anchor
  PROVE  OpInv'
<1>0. /\ TypeInv /\ JournalInv /\ OpInv /\ rop.pc = "anchor" /\ rop.meta \in Retention!Sides
      /\ UNCHANGED <<journal, head, rreceipt, rfiles>>
  BY OpFields DEF RetentionInv, Retention!Anchor, Retention!At, TypeInv
<1>1. \/ (rop.meta = Retention!NoSide \/ rop.meta.audited) /\ Retention!Goto(rop.then)
           /\ rside' = rside
      \/ ~rop.meta.audited /\ Retention!Save([rop.meta EXCEPT !.audited = TRUE], rop.then)
      \/ \E why : Retention!AuditFails(why)
  BY DEF Retention!Anchor
<1>2. CASE \E why : Retention!AuditFails(why)
  BY <1>0, <1>2, FailureStops
<1>3. CASE rreceipt.status # "none" /\ ~\E why : Retention!AuditFails(why)
  <2>1. rreceipt.status = "pending"
    BY <1>0, <1>3, ErasingAt
  <2>2. Same /\ rop'.entry = rop.entry /\ rop'.then = rop.then /\ rop'.pc = rop.then
    BY <1>0, <1>1, <1>3, GotoFields, SaveFields
  <2>. QED  BY <1>0, <2>1, <2>2, ErasingGoes
<1>4. CASE rreceipt.status = "none" /\ ~\E why : Retention!AuditFails(why)
  <2>1. /\ Living /\ (rop.meta = rside \/ (rop.then = "answer" /\ rop.meta.audited))
    BY <1>0, <1>4, LivingAudit
  <2>2. Audited(rop.then) /\ Alert
    BY <1>0, <2>1 DEF Living
  <2>3. /\ Same /\ rop'.pc = rop.then /\ rop'.entry = rop.entry /\ rop'.then = rop.then
        /\ rop'.status = rop.status
        /\ rop'.meta.pending = rop.meta.pending /\ rop'.meta.export = rop.meta.export
        /\ rop.then # "answer" => rop'.meta = rside'
        /\ rop'.meta.audited \/ rop.meta = Retention!NoSide
    <3>1. CASE Retention!Goto(rop.then) /\ rside' = rside
                 /\ (rop.meta = Retention!NoSide \/ rop.meta.audited)
      BY <1>0, <2>1, <3>1, GotoFields
    <3>2. CASE Retention!Save([rop.meta EXCEPT !.audited = TRUE], rop.then)
      <4>1. rop'.meta = [rop.meta EXCEPT !.audited = TRUE] /\ rside' = rop'.meta
        BY <1>0, <3>2, SaveFields
      <4>2. rop'.meta.audited = TRUE
        BY <1>0, <4>1 DEF Retention!Sides
      <4>. QED  BY <1>0, <3>2, <4>1, <4>2, SaveFields, SameRetention
    <3>. QED  BY <1>1, <1>4, <3>1, <3>2
  <2>4. rop.then \in {"commit", "complete", "answer"}
    BY <2>2 DEF Audited
  <2>5. \A t \in {"commit", "complete", "answer"} : t = rop.then => Audited(t)'
    BY <1>0, <2>2, <2>3, AuditedKept
  <2>6. rop.then = "complete" => rop'.meta.audited
    BY <2>2, <2>3 DEF Audited, Retention!NoSide, Retention!NoExport
  <2>7. Alert'
    BY <1>0, <2>2, <2>3, AlertKept
  <2>8. Audited(rop.pc)'
    BY <2>3, <2>4, <2>5
  <2>9. Living'
    BY <2>3, <2>4, <2>6, <2>7, <2>8 DEF Living
  <2>10. Knows'
    BY <2>3, <2>4 DEF Knows
  <2>. QED  BY <1>0, <1>4, <2>9, <2>10 DEF OpInv
<1>. QED  BY <1>3, <1>4, <1>2

\* An operation that goes on with its answer in the audit.
LEMMA AuditAnswers ==
  ASSUME Alert', rreceipt'.status = "none", rop'.pc = "audit", rop'.then = "answer",
         rop'.kind \in {"extend", "export", "review"}, rop'.entry.action = rop'.kind,
         rop'.kind = "extend" => ~Granted(rop'.entry),
         rop'.status \in {"extended", "completed"} => rop'.entry.outcome = "completed",
         rop'.meta = rside' \/ rop'.meta.audited,
         rop'.kind = "review" => Len(journal') < ReviewCap
  PROVE  OpInv'
<1>1. Entered'
  BY DEF Entered, Claimed
<1>2. Living'
  BY <1>1 DEF Living
<1>3. Knows'
  BY DEF Knows
<1>. QED  BY <1>2, <1>3 DEF OpInv

LEMMA AuditAnswerOp ==
  ASSUME TypeInv, Alert, rreceipt'.status = "none", UNCHANGED <<journal, head>>,
         NEW s \in Outcomes, Retention!AuditAnswer(s), rop.kind \in {"export", "review"},
         rop.meta = rside' \/ rop.meta.audited, s # "extended",
         rop.kind = "review" => Len(journal) < ReviewCap
  PROVE  OpInv'
<1>1. /\ Same /\ rop'.pc = "audit" /\ rop'.meta = rop.meta
      /\ rop'.entry = Retention!Entry(rop.kind, rop.id, s)
      /\ rop'.then = "answer" /\ rop'.status = s
  BY AuditAnswerFields
<1>2. rop'.entry.action = rop.kind /\ rop'.entry.outcome = s
  <2>1. /\ Retention!Entry(rop.kind, rop.id, s).action = rop.kind
        /\ Retention!Entry(rop.kind, rop.id, s).outcome = s
    BY DEF Retention!Entry, Retention!NoEntry
  <2>. QED  BY <1>1, <2>1
<1>3. Alert'
  BY <1>1, AlertKept
<1>. QED  BY <1>1, <1>2, <1>3, AuditAnswers DEF Same

LEMMA SettleOp ==
  ASSUME RetentionInv, TypeInv', Grows, Retention!Settle
  PROVE  OpInv'
<1>0. /\ TypeInv /\ OpInv /\ UNCHANGED <<journal, rreceipt, rfiles>> /\ rop.pc = "settle"
      /\ rop.meta \in Retention!Sides /\ rop \in Ops
  BY OpFields DEF RetentionInv, Retention!Settle, Retention!At, TypeInv
<1>1. /\ rreceipt.status = "none" /\ rop.meta = rside /\ rside.pending # Retention!None /\ Alert
      /\ rop.entry = Retention!NoEntry
  BY <1>0, LivingAt DEF Living
<1>2. \/ \E why : Retention!Trouble(why)
      \/ /\ rop' = [rop EXCEPT !.pc = "anchor", !.then = "commit"] /\ rside' = rside
         /\ head' = Len(journal)
         /\ Retention!Extension(rop.meta.pending.id,
                                rop.meta.pending.deadline) \in Retention!Range(journal)
      \/ Retention!Save([rop.meta EXCEPT !.pending = Retention!None], "decide")
           /\ head' = Len(journal)
  BY DEF Retention!Settle
<1>3. CASE \E why : Retention!Trouble(why)
  BY <1>0, <1>1, <1>3, TroubleStops
<1>4. CASE /\ rop' = [rop EXCEPT !.pc = "anchor", !.then = "commit"] /\ rside' = rside
           /\ head' = Len(journal)
           /\ Retention!Extension(rop.meta.pending.id,
                                  rop.meta.pending.deadline) \in Retention!Range(journal)
  <2>1. /\ Same /\ rop'.pc = "anchor" /\ rop'.then = "commit" /\ rop'.meta = rop.meta
        /\ rop'.entry = Retention!NoEntry
    BY <1>0, <1>1, <1>4 DEF Ops, Same
  <2>2. Alert'
    BY <1>0, <1>1, <1>4, <2>1, AlertKept
  <2>3. Retention!Extension(rop.meta.pending.id, rop.meta.pending.deadline) \in Vouched'
    BY <1>0, <1>4, RangeIsWritten DEF Written, Vouched
  <2>4. Audited(rop.then)'
    BY <1>1, <2>1, <2>3 DEF Audited, Pending
  <2>5. Living'
    BY <2>1, <2>2, <2>4 DEF Living
  <2>. QED  BY <1>0, <1>1, <1>4, <2>1, <2>5 DEF OpInv, Knows
<1>5. CASE Retention!Save([rop.meta EXCEPT !.pending = Retention!None], "decide")
             /\ head' = Len(journal)
  <2>1. /\ Same /\ rop'.pc = "decide" /\ rop'.meta = [rop.meta EXCEPT !.pending = Retention!None]
        /\ rside' = rop'.meta /\ rop'.entry = Retention!NoEntry
    BY <1>0, <1>1, <1>5, SaveFields
  <2>2. rop'.meta.pending = Retention!None
    BY <1>0, <2>1 DEF Retention!Sides
  <2>3. Alert'
    BY <1>0, <1>1, <1>5, <2>1, AlertKept
  <2>4. Living'
    BY <2>1, <2>2, <2>3 DEF Living
  <2>. QED  BY <1>0, <1>1, <2>1, <2>4 DEF OpInv, Knows
<1>. QED  BY <1>2, <1>3, <1>4, <1>5

LEMMA CommitOp ==
  ASSUME RetentionInv, TypeInv', Grows, Retention!CommitExtension
  PROVE  OpInv'
<1>0. /\ TypeInv /\ OpInv /\ UNCHANGED <<journal, head, rreceipt, rfiles>> /\ rop.pc = "commit"
      /\ rop.meta \in Retention!Sides /\ rop \in Ops
  BY OpFields DEF RetentionInv, Retention!CommitExtension, Retention!At, TypeInv
<1>1. rreceipt.status = "none" /\ rop.meta = rside /\ Alert
  BY <1>0, LivingAt DEF Living
<1>2. PICK new : new = [rop.meta EXCEPT !.pending = Retention!None,
                        !.deadline = rop.meta.pending.deadline,
                                       !.used = TRUE, !.extended = rop.meta.pending]
  OBVIOUS
<1>3. \/ \E s : Retention!Finish(s)
      \/ \E s : Retention!Trouble(s)
      \/ rop.entry = Retention!NoEntry /\ rside' = new
           /\ rop' = [rop EXCEPT !.meta = new, !.pc = "decide"]
  BY <1>2 DEF Retention!CommitExtension
<1>4. CASE rop.entry = Retention!NoEntry /\ rside' = new
             /\ rop' = [rop EXCEPT !.meta = new, !.pc = "decide"]
  <2>1. Same /\ rop'.pc = "decide" /\ rop'.meta = new /\ rop'.entry = Retention!NoEntry
    BY <1>0, <1>4 DEF Ops, Same
  <2>2. rop'.meta.pending = Retention!None
    BY <1>0, <1>2, <2>1 DEF Retention!Sides
  <2>3. Alert'
    BY <1>0, <1>1, <2>1, AlertKept
  <2>4. Living'
    BY <2>1, <2>2, <2>3 DEF Living
  <2>. QED  BY <1>0, <1>1, <1>4, <2>1, <2>4 DEF OpInv, Knows
<1>. QED  BY <1>0, <1>1, <1>3, <1>4, FinishStops, TroubleStops

LEMMA DecideExtensionOp ==
  ASSUME RetentionInv, TypeInv', Grows, Retention!DecideExtension
  PROVE  OpInv'
<1>0. /\ TypeInv /\ JournalInv /\ OpInv /\ ExtensionInv /\ rop.kind = "extend" /\ rop.pc = "decide"
      /\ UNCHANGED <<journal, head, rreceipt, rfiles>>
      /\ rop.meta \in Retention!Sides /\ rop \in Ops /\ rop.id \in Retention!Ids
           /\ rop.deadline \in Retention!Times
  BY OpFields DEF RetentionInv, Retention!DecideExtension, Retention!Deciding, Retention!At, TypeInv
<1>1. /\ rreceipt.status = "none" /\ rop.meta = rside /\ Alert /\ rop.id \in Extensions
  BY <1>0, LivingAt DEF Living, Alert
<1>2. rop.id # "none" /\ [id |-> rop.id, deadline |-> rop.deadline] # Retention!None
  BY <1>1, GovernanceAssumption DEF Retention!RetentionAssumption, Retention!None
<1>3. PICK p : p = [id |-> rop.id, deadline |-> rop.deadline]
  OBVIOUS
<1>4. PICK done : done = Retention!Extension(rop.id, rop.deadline)
  OBVIOUS
<1>5. PICK new : new = [rop.meta EXCEPT !.pending = p]
  OBVIOUS
<1>6. /\ done.action = "extend" /\ done.outcome = "completed" /\ done \in Entries
      /\ p.id = rop.id /\ p.deadline = rop.deadline /\ new.pending = p
  BY <1>0, <1>3, <1>4, <1>5, ExtensionType DEF Retention!Sides
<1>7. \/ \E s : Retention!Finish(s)
      \/ /\ rop.meta.extended = p /\ rside' = rside
         /\ rop' = [rop EXCEPT !.pc = "answer", !.entry = done, !.status = "extended"]
      \/ \E s \in {"conflict", "rejected"} :
           /\ rop' = [rop EXCEPT !.pc = "audit", !.entry = [done EXCEPT !.outcome = s],
                                !.then = "answer", !.status = s]
           /\ rside' = rside
      \/ /\ rop' = [rop EXCEPT !.meta = new, !.pc = "audit", !.entry = done, !.then = "commit"]
         /\ rside' = new
  BY <1>3, <1>4, <1>5 DEF Retention!DecideExtension
<1>8. CASE \E s : Retention!Finish(s)
  BY <1>0, <1>1, <1>8, FinishStops
<1>9. CASE /\ rop.meta.extended = p /\ rside' = rside
           /\ rop' = [rop EXCEPT !.pc = "answer", !.entry = done, !.status = "extended"]
  <2>1. Same /\ rop'.pc = "answer" /\ rop'.entry = done
    BY <1>0, <1>9 DEF Ops, Same
  <2>2. done \in Vouched'
    BY <1>0, <1>1, <1>2, <1>3, <1>4, <1>9, <1>6 DEF ExtensionInv, Vouched
  <2>3. Alert'
    BY <1>0, <1>1, <2>1, AlertKept
  <2>4. Audited("answer")'
    BY <1>0, <1>6, <2>1, <2>2 DEF Audited, Same
  <2>5. Living'
    BY <1>0, <2>1, <2>3, <2>4 DEF Living, Same
  <2>. QED  BY <1>0, <1>1, <2>1, <2>5 DEF OpInv, Knows
<1>10. ASSUME NEW s \in {"conflict", "rejected"}, rside' = rside,
              rop' = [rop EXCEPT !.pc = "audit", !.entry = [done EXCEPT !.outcome = s],
                                !.then = "answer", !.status = s]
       PROVE  OpInv'
  <2>1. /\ Same /\ rop'.pc = "audit" /\ rop'.then = "answer" /\ rop'.status = s
        /\ rop'.entry = [done EXCEPT !.outcome = s] /\ rop'.meta = rop.meta
    BY <1>0, <1>10 DEF Ops, Same
  <2>2. rop'.entry.action = "extend" /\ rop'.entry.outcome = s
    BY <1>6, <2>1 DEF Entries
  <2>3. Alert'
    BY <1>0, <1>1, <2>1, AlertKept
  <2>. QED  BY <1>0, <1>1, <1>10, <2>1, <2>2, <2>3, AuditAnswers DEF Same, Granted
<1>11. CASE /\ rop' = [rop EXCEPT !.meta = new, !.pc = "audit", !.entry = done, !.then = "commit"]
            /\ rside' = new
  <2>1. /\ Same /\ rop'.pc = "audit" /\ rop'.then = "commit" /\ rop'.entry = done /\ rop'.meta = new
    BY <1>0, <1>11 DEF Ops, Same
  <2>2. Entered'
    BY <1>0, <1>2, <1>3, <1>4, <1>6, <2>1 DEF Entered, Same, Pending
  <2>3. Alert'
    BY <1>0, <1>1, <2>1, AlertKept
  <2>4. Living'
    BY <1>0, <2>1, <2>2, <2>3 DEF Living, Same
  <2>. QED  BY <1>0, <1>1, <1>11, <2>1, <2>4 DEF OpInv, Knows
<1>. QED  BY <1>7, <1>8, <1>9, <1>10, <1>11

LEMMA ReviewOp ==
  ASSUME RetentionInv, TypeInv', Grows, Retention!DecideReview \/ Retention!ReviewCallback
           \/ Retention!ViewRetention
  PROVE  OpInv'
<1>0. /\ TypeInv /\ JournalInv /\ OpInv /\ UNCHANGED <<rside, journal, head, rreceipt, rfiles>>
      /\ rop.pc \in {"decide", "callback"}
  BY DEF RetentionInv, Retention!DecideReview, Retention!ReviewCallback, Retention!ViewRetention,
     Retention!Deciding, Retention!At, Retention!Quiet, Retention!disk
<1>a. Len(journal) >= ReviewCap <=> ~(Len(journal) < ReviewCap)
  BY <1>0, GovernanceAssumption DEF TypeInv, Retention!RetentionAssumption
<1>1. rreceipt.status = "none" /\ rop.meta = rside /\ Alert /\ Living
  BY <1>0, LivingAt DEF Living
<1>2. CASE \E s : Retention!Finish(s)
  BY <1>0, <1>1, <1>2, FinishStops
<1>3. CASE Retention!DecideReview
  <2>1. rop.kind = "review"
    BY <1>3 DEF Retention!DecideReview, Retention!Deciding
  <2>2. CASE ~Retention!Valid \/ ~(Len(journal) < ReviewCap)
    BY <1>a, <1>2, <1>3, <2>2, Zenon DEF Retention!DecideReview
  <2>3. CASE Retention!Valid /\ Len(journal) < ReviewCap
    <3>1. \/ Retention!AuditAnswer("grant_denied") \/ Retention!AuditAnswer("not_sealed")
               \/ Retention!AuditAnswer("expired")
          \/ Retention!Goto("callback")
      BY <1>a, <1>3, <2>3, Zenon DEF Retention!DecideReview
    <3>2. CASE \E s \in {"grant_denied", "not_sealed", "expired"} : Retention!AuditAnswer(s)
      BY <1>0, <1>1, <2>1, <2>3, <3>2, AuditAnswerOp DEF Outcomes
    <3>3. CASE Retention!Goto("callback")
      <4>1. Same /\ rop'.pc = "callback" /\ rop'.meta = rop.meta
        BY <1>0, <3>3, GotoFields
      <4>2. Alert'
        BY <1>0, <1>1, <4>1, AlertKept
      <4>3. Living'
        BY <1>0, <2>1, <2>3, <4>1, <4>2 DEF Living, Same
      <4>. QED  BY <1>0, <1>1, <4>1, <4>3 DEF OpInv, Knows
    <3>. QED  BY <3>1, <3>2, <3>3
  <2>. QED  BY <2>2, <2>3
<1>4. CASE Retention!ReviewCallback
  <2>1. rop.kind = "review" /\ Len(journal) < ReviewCap
    BY <1>1, <1>4 DEF Retention!ReviewCallback, Retention!At, Living
  <2>2. Retention!Finish("threw") \/ \E s \in {"expired", "completed"} : Retention!AuditAnswer(s)
    BY <1>4 DEF Retention!ReviewCallback
  <2>3. CASE \E s \in {"expired", "completed"} : Retention!AuditAnswer(s)
    BY <1>0, <1>1, <2>1, <2>3, AuditAnswerOp DEF Outcomes
  <2>. QED  BY <1>2, <2>2, <2>3
<1>5. CASE Retention!ViewRetention
  BY <1>2, <1>5 DEF Retention!ViewRetention
<1>. QED  BY <1>3, <1>4, <1>5

LEMMA DecideNewExportOp ==
  ASSUME RetentionInv, TypeInv', Grows, Retention!DecideNewExport
  PROVE  OpInv'
<1>0. /\ TypeInv /\ OpInv /\ UNCHANGED <<journal, head, rreceipt, rfiles>> /\ rop.pc = "decide"
      /\ rop.kind = "export" /\ rop.meta \in Retention!Sides /\ rop.id \in Retention!Ids
  BY OpFields DEF RetentionInv, Retention!DecideNewExport, Retention!Deciding, Retention!At, TypeInv
<1>1. rreceipt.status = "none" /\ rop.meta = rside /\ Alert
  BY <1>0, LivingAt DEF Living
<1>2. \/ \E s : Retention!Finish(s)
      \/ \E s \in {"conflict", "expired"} : Retention!AuditAnswer(s) /\ rside' = rside
      \/ Retention!Save(Retention!Exported("pending"), "callback")
  BY DEF Retention!DecideNewExport
<1>3. CASE \E s : Retention!Finish(s)
  BY <1>0, <1>1, <1>3, FinishStops
<1>4. CASE \E s \in {"conflict", "expired"} : Retention!AuditAnswer(s) /\ rside' = rside
  BY <1>0, <1>1, <1>4, AuditAnswerOp DEF Outcomes
<1>5. CASE Retention!Save(Retention!Exported("pending"), "callback")
  <2>1. Same /\ rop'.pc = "callback" /\ rop'.meta = Retention!Exported("pending")
          /\ rside' = rop'.meta
    BY <1>0, <1>5, SaveFields
  <2>2. rop'.meta.export.status = "pending"
    BY <1>0, <2>1 DEF Retention!Exported, Retention!Sides
  <2>3. Alert'
    BY <1>0, <1>1, <2>1, AlertKept
  <2>4. Living'
    BY <1>0, <2>1, <2>2, <2>3 DEF Living, Same
  <2>. QED  BY <1>0, <1>1, <2>1, <2>4 DEF OpInv, Knows
<1>. QED  BY <1>2, <1>3, <1>4, <1>5

LEMMA DecideKnownExportOp ==
  ASSUME RetentionInv, TypeInv', Grows, Retention!DecideKnownExport
  PROVE  OpInv'
<1>0. /\ TypeInv /\ JournalInv /\ OpInv /\ ExportInv
      /\ UNCHANGED <<rside, journal, head, rreceipt, rfiles>>
      /\ rop.pc = "decide" /\ rop.kind = "export" /\ rop.meta \in Retention!Sides
           /\ rop.id \in Retention!Ids /\ rop \in Ops
      /\ rop.meta.export # Retention!NoExport
  BY OpFields DEF RetentionInv, Retention!DecideKnownExport, Retention!Deciding, Retention!At,
     TypeInv, Retention!Quiet, Retention!disk
<1>1. rreceipt.status = "none" /\ rop.meta = rside /\ Alert
  BY <1>0, LivingAt DEF Living
<1>2. \/ \E s \in {"conflict", "expired"} : Retention!AuditAnswer(s)
      \/ rop.meta.export.status = "audit_pending"
           /\ Retention!Audit(Retention!Completed, "complete")
      \/ /\ rop.meta.export.status \notin {"pending", "audit_pending"}
         /\ rop' = [rop EXCEPT !.pc = "answer", !.entry = Retention!Completed,
                    !.status = "completed"]
  BY DEF Retention!DecideKnownExport
<1>3. CASE \E s \in {"conflict", "expired"} : Retention!AuditAnswer(s)
  BY <1>0, <1>1, <1>3, AuditAnswerOp DEF Outcomes
<1>4. CASE rop.meta.export.status = "audit_pending"
             /\ Retention!Audit(Retention!Completed, "complete")
  <2>1. /\ Same /\ rop'.pc = "audit" /\ rop'.meta = rop.meta /\ rop'.entry = Retention!Completed
        /\ rop'.then = "complete"
    BY <1>0, <1>4 DEF Retention!Audit, Ops, Same
  <2>2. Alert'
    BY <1>0, <1>1, <2>1, AlertKept
  <2>3. Entered'
    BY <1>0, <1>4, <2>1 DEF Entered, Same, Retention!Completed
  <2>4. Living'
    BY <1>0, <2>1, <2>2, <2>3 DEF Living, Same
  <2>. QED  BY <1>0, <1>1, <2>1, <2>4 DEF OpInv, Knows
<1>5. CASE /\ rop.meta.export.status \notin {"pending", "audit_pending"}
           /\ rop' = [rop EXCEPT !.pc = "answer", !.entry = Retention!Completed,
                      !.status = "completed"]
  <2>1. /\ Same /\ rop'.pc = "answer" /\ rop'.meta = rop.meta /\ rop'.entry = Retention!Completed
    BY <1>0, <1>5 DEF Ops, Same
  <2>2. rside.export.status = "completed"
    BY <1>0, <1>1, <1>5 DEF ExportInv, Retention!Sides
  <2>3. Retention!Completed \in Vouched'
    BY <1>0, <1>1, <2>2 DEF ExportInv, Retention!Completed, Vouched
  <2>4. Retention!Completed.outcome = "completed"
    BY DEF Retention!Completed, Retention!Entry, Retention!NoEntry
  <2>5. Audited("answer")'
    BY <1>0, <2>1, <2>3, <2>4 DEF Audited, Same
  <2>6. Alert'
    BY <1>0, <1>1, <2>1, AlertKept
  <2>7. Living'
    BY <1>0, <2>1, <2>5, <2>6 DEF Living, Same
  <2>. QED  BY <1>0, <1>1, <2>1, <2>7 DEF OpInv, Knows
<1>. QED  BY <1>2, <1>3, <1>4, <1>5

LEMMA CallbackOp ==
  ASSUME RetentionInv, TypeInv', Grows, Retention!ExportCallback
  PROVE  OpInv'
<1>0. /\ TypeInv /\ OpInv /\ UNCHANGED <<rside, journal, head, rreceipt>> /\ rop.pc = "callback"
      /\ rop.kind = "export" /\ rop \in Ops
  BY DEF RetentionInv, Retention!ExportCallback, Retention!At, TypeInv
<1>1. rreceipt.status = "none" /\ rop.meta = rside /\ Alert /\ rop.meta.export.status = "pending"
  BY <1>0, LivingAt DEF Living
<1>2. \/ rfiles' = "whole" /\ Retention!Goto("verified")
      \/ rop' = [rop EXCEPT !.pc = "clear", !.status = "threw"]
  BY DEF Retention!ExportCallback
<1>3. /\ Same /\ rop'.meta = rop.meta
      /\ rop'.pc = "clear" \/ (rop'.pc = "verified" /\ rfiles' = "whole")
  <2>1. CASE rfiles' = "whole" /\ Retention!Goto("verified")
    BY <1>0, <2>1, GotoFields
  <2>2. CASE rop' = [rop EXCEPT !.pc = "clear", !.status = "threw"]
    BY <1>0, <2>2 DEF Ops, Same
  <2>. QED  BY <1>2, <2>1, <2>2
<1>4. Alert'
  BY <1>0, <1>1, <1>3, AlertKept
<1>5. Living'
  BY <1>0, <1>1, <1>3, <1>4 DEF Living, Same
<1>. QED  BY <1>0, <1>1, <1>3, <1>5 DEF OpInv, Knows

LEMMA VerifiedOp ==
  ASSUME RetentionInv, TypeInv', Grows, Retention!ExportVerified
  PROVE  OpInv'
<1>0. /\ TypeInv /\ OpInv /\ UNCHANGED <<journal, head, rreceipt, rfiles>> /\ rop.pc = "verified"
      /\ rop.kind = "export" /\ rop.meta \in Retention!Sides /\ rop \in Ops
           /\ rop.id \in Retention!Ids
  BY OpFields DEF RetentionInv, Retention!ExportVerified, Retention!At, TypeInv
<1>1. rreceipt.status = "none" /\ rop.meta = rside /\ Alert /\ rop.meta.export.status = "pending"
  BY <1>0, LivingAt DEF Living
<1>2. PICK new : new = Retention!Exported("audit_pending")
  OBVIOUS
<1>3. PICK done : done = Retention!Entry("export", rop.id, "completed")
  OBVIOUS
<1>4. \/ \E s : Retention!Finish(s)
      \/ rop' = [rop EXCEPT !.pc = "clear", !.status = "expired"] /\ rside' = rside
      \/ /\ rop' = [rop EXCEPT !.meta = new, !.pc = "audit", !.then = "complete", !.entry = done]
         /\ rside' = new
  BY <1>2, <1>3 DEF Retention!ExportVerified
<1>5. CASE \E s : Retention!Finish(s)
  BY <1>0, <1>1, <1>5, FinishStops
<1>6. CASE rop' = [rop EXCEPT !.pc = "clear", !.status = "expired"] /\ rside' = rside
  <2>1. Same /\ rop'.pc = "clear" /\ rop'.meta = rop.meta
    BY <1>0, <1>6 DEF Ops, Same
  <2>2. Alert'
    BY <1>0, <1>1, <2>1, AlertKept
  <2>3. Living'
    BY <1>0, <1>1, <2>1, <2>2 DEF Living, Same
  <2>. QED  BY <1>0, <1>1, <1>6, <2>1, <2>3 DEF OpInv, Knows
<1>7. CASE /\ rop' = [rop EXCEPT !.meta = new, !.pc = "audit", !.then = "complete", !.entry = done]
           /\ rside' = new
  <2>1. Same /\ rop'.pc = "audit" /\ rop'.meta = new /\ rop'.then = "complete" /\ rop'.entry = done
    BY <1>0, <1>7 DEF Ops, Same
  <2>2. new.export.status = "audit_pending" /\ new.export.id = rop.id
    BY <1>0, <1>2 DEF Retention!Exported, Retention!Sides
  <2>3. Entered'
    BY <1>0, <1>3, <2>1, <2>2 DEF Entered, Retention!Completed, Same
  <2>4. Alert'
    BY <1>0, <1>1, <2>1, AlertKept
  <2>5. Living'
    BY <1>0, <2>1, <2>3, <2>4 DEF Living, Same
  <2>. QED  BY <1>0, <1>1, <1>7, <2>1, <2>5 DEF OpInv, Knows
<1>. QED  BY <1>4, <1>5, <1>6, <1>7

LEMMA CompleteExportOp ==
  ASSUME RetentionInv, TypeInv', Grows, Retention!CompleteExport
  PROVE  OpInv'
<1>0. /\ TypeInv /\ OpInv /\ UNCHANGED <<journal, head, rreceipt, rfiles>> /\ rop.pc = "complete"
  BY DEF RetentionInv, Retention!CompleteExport, Retention!At
<1>1. /\ rreceipt.status = "none" /\ Alert /\ rop.meta.audited /\ Audited("complete")
  BY <1>0, LivingAt DEF Living
<1>2. \/ \E s : Retention!Finish(s)
      \/ \E s : Retention!Trouble(s)
      \/ rop.kind # "recover" /\ Retention!AuditAnswer("expired")
  BY DEF Retention!CompleteExport
<1>3. CASE rop.kind # "recover" /\ Retention!AuditAnswer("expired")
  <2>1. rop.kind = "export"
    BY <1>1, <1>3 DEF Audited
  <2>. QED  BY <1>0, <1>1, <1>3, <2>1, AuditAnswerOp DEF Outcomes
<1>. QED  BY <1>0, <1>1, <1>2, <1>3, FinishStops, TroubleStops

LEMMA ClearOp ==
  ASSUME RetentionInv, TypeInv', Grows, Retention!ClearExport
  PROVE  OpInv'
<1>0. /\ TypeInv /\ OpInv /\ UNCHANGED <<rside, journal, head, rreceipt>> /\ rop.pc = "clear"
  BY DEF RetentionInv, Retention!ClearExport, Retention!At
<1>1. /\ rreceipt.status = "none" /\ rop.meta = rside /\ Alert
      /\ rop.kind \in {"export", "recover"} /\ rop.meta.export.status = "pending"
  BY <1>0, LivingAt DEF Living
<1>2. (rfiles' = "none" /\ Retention!Goto("cleared")) \/ \E s : Retention!Finish(s)
  BY DEF Retention!ClearExport
<1>3. CASE rfiles' = "none" /\ Retention!Goto("cleared")
  <2>1. Same /\ rop'.pc = "cleared" /\ rop'.meta = rop.meta
    BY <1>0, <1>3, GotoFields
  <2>2. Alert'
    BY <1>0, <1>1, <2>1, AlertKept
  <2>3. Living'
    BY <1>1, <1>3, <2>1, <2>2 DEF Living, Same
  <2>. QED  BY <1>0, <1>1, <2>1, <2>3 DEF OpInv, Knows
<1>. QED  BY <1>0, <1>1, <1>2, <1>3, FinishStops

LEMMA UnregisterOp ==
  ASSUME RetentionInv, TypeInv', Grows, Retention!UnregisterExport
  PROVE  OpInv'
<1>0. /\ TypeInv /\ OpInv /\ UNCHANGED <<journal, head, rreceipt, rfiles>> /\ rop.pc = "cleared"
      /\ rop \in Ops /\ rop.id \in Retention!Ids
  BY OpFields DEF RetentionInv, Retention!UnregisterExport, Retention!At, TypeInv
<1>1. /\ rreceipt.status = "none" /\ Alert /\ rop.kind \in {"export", "recover"}
  BY <1>0, LivingAt DEF Living
<1>2. PICK new : new = [rop.meta EXCEPT !.export = Retention!NoExport]
  OBVIOUS
<1>3. PICK gone : gone = Retention!Entry("export", rop.id, "expired")
  OBVIOUS
<1>4. \/ \E s : Retention!Finish(s)
      \/ /\ rop.kind # "recover" /\ rop.status = "expired" /\ rside' = new
         /\ rop' = [rop EXCEPT !.meta = new, !.pc = "audit", !.then = "answer", !.entry = gone]
  BY <1>2, <1>3 DEF Retention!UnregisterExport
<1>5. CASE /\ rop.kind # "recover" /\ rop.status = "expired" /\ rside' = new
           /\ rop' = [rop EXCEPT !.meta = new, !.pc = "audit", !.then = "answer", !.entry = gone]
  <2>1. /\ Same /\ rop'.pc = "audit" /\ rop'.meta = new /\ rop'.then = "answer" /\ rop'.entry = gone
        /\ rop'.status = "expired"
    BY <1>0, <1>5 DEF Ops, Same
  <2>2. gone.action = "export"
    BY <1>3 DEF Retention!Entry, Retention!NoEntry
  <2>3. Alert'
    BY <1>0, <1>1, <2>1, AlertKept
  <2>. QED  BY <1>0, <1>1, <1>5, <2>1, <2>2, <2>3, AuditAnswers DEF Same
<1>. QED  BY <1>0, <1>1, <1>4, <1>5, FinishStops

LEMMA DeletionOp ==
  ASSUME RetentionInv, TypeInv', Grows, Retention!DecideDeletion \/ Retention!DecideSweep
           \/ Retention!Erase \/ Retention!CompleteReceipt
  PROVE  OpInv'
<1>0. TypeInv /\ OpInv /\ rop \in Ops
  BY DEF RetentionInv, TypeInv
<1>1. CASE Retention!DecideDeletion
  <2>1. /\ rop.kind = "delete" /\ rop.pc = "decide"
        /\ rreceipt' = rreceipt \/ rreceipt'.status = "pending"
    BY <1>1 DEF Retention!DecideDeletion, Retention!Deciding, Retention!At, Retention!WriteReceipt
  <2>2. rreceipt.status = "none"
    BY <1>0, <2>1, LivingAt
  <2>3. \/ \E s : Retention!Finish(s)
        \/ Retention!Audit(Retention!Entry("delete", "owner", "pending"), "erase")
             /\ rreceipt'.status = "pending"
    BY <1>1 DEF Retention!DecideDeletion, Retention!WriteReceipt
  <2>4. CASE Retention!Audit(Retention!Entry("delete", "owner", "pending"), "erase")
               /\ rreceipt'.status = "pending"
    <3>1. /\ rop'.kind = rop.kind /\ rop'.pc = "audit" /\ rop'.then = "erase"
          /\ rop'.entry = Retention!Entry("delete", "owner", "pending")
      BY <1>0, <2>4 DEF Retention!Audit, Ops
    <3>2. rop'.entry.action = "delete"
      BY <3>1 DEF Retention!Entry, Retention!NoEntry
    <3>. QED  BY <2>1, <2>4, <3>1, <3>2 DEF OpInv, Erasing
  <2>. QED  BY <1>0, <2>1, <2>2, <2>3, <2>4, FinishStops
<1>2. CASE Retention!DecideSweep
  <2>1. /\ rop.kind = "sweep" /\ rop.pc = "decide"
        /\ rreceipt' = rreceipt \/ rreceipt'.status = "pending"
    BY <1>2 DEF Retention!DecideSweep, Retention!Deciding, Retention!At, Retention!WriteReceipt
  <2>2. rreceipt.status = "none"
    BY <1>0, <2>1, LivingAt
  <2>3. \/ \E s : Retention!Finish(s)
        \/ Retention!Goto("erase") /\ rreceipt'.status = "pending"
    BY <1>2 DEF Retention!DecideSweep, Retention!WriteReceipt
  <2>4. CASE Retention!Goto("erase") /\ rreceipt'.status = "pending"
    BY <1>0, <2>1, <2>4, GotoFields DEF OpInv, Erasing, Same
  <2>. QED  BY <1>0, <2>1, <2>2, <2>3, <2>4, FinishStops
<1>3. CASE Retention!Erase
  <2>1. rreceipt.status = "pending" /\ Erasing /\ rreceipt' = rreceipt
    BY <1>0, <1>3, ErasingAt DEF Retention!Erase, Retention!At
  <2>2. \/ \E s : Retention!Finish(s)
        \/ rfiles' = "none"
             /\ Retention!Audit(Retention!Entry("delete", rreceipt.disposition, "completed"),
                                "receipt")
    BY <1>3 DEF Retention!Erase
  <2>3. CASE rfiles' = "none"
               /\ Retention!Audit(Retention!Entry("delete", rreceipt.disposition, "completed"),
                                  "receipt")
    <3>1. /\ rop'.kind = rop.kind /\ rop'.pc = "audit" /\ rop'.then = "receipt"
          /\ rop'.entry = Retention!Entry("delete", rreceipt.disposition, "completed")
      BY <1>0, <2>3 DEF Retention!Audit, Ops
    <3>2. rop'.entry.action = "delete"
      BY <3>1 DEF Retention!Entry, Retention!NoEntry
    <3>. QED  BY <2>1, <2>3, <3>1, <3>2 DEF OpInv, Erasing
  <2>. QED  BY <1>0, <2>1, <2>2, <2>3, FinishStops
<1>4. CASE Retention!CompleteReceipt
  <2>1. rreceipt.status = "pending" /\ Erasing /\ rop.pc = "receipt"
    BY <1>0, <1>4, ErasingAt DEF Retention!CompleteReceipt, Retention!At
  <2>2. rfiles' = "none" /\ \E s : Retention!Finish(s)
    BY <1>4, <2>1 DEF Retention!CompleteReceipt, Erasing
  <2>. QED  BY <1>0, <2>2, FinishStops
<1>. QED  BY <1>1, <1>2, <1>3, <1>4

LEMMA LoadOp ==
  ASSUME TypeInv, NEW kind \in Kinds \ {"none"}, NEW id \in Retention!Ids,
  NEW d \in Retention!Times,
         rop' = Retention!Load(kind, id, d), kind = "extend" => id \in Extensions,
         id = "stranger" => kind = "review",
         kind = "recover" => (Retention!Valid' => head' = Len(journal')),
         rside' = rside, rreceipt'.status = "none"
  PROVE  OpInv'
<1>1. /\ rop'.kind = kind /\ rop'.id = id /\ rop'.meta = rside /\ rop'.entry = Retention!NoEntry
      /\ rop'.pc = (IF id = "stranger" THEN "decide" ELSE Retention!FirstStep(kind))
  BY LoadType
<1>2. /\ rop'.pc \in {"settle", "decide"}
      /\ rop'.pc = "settle" => rside.pending # Retention!None
      /\ rop'.pc = "decide" => rside.pending = Retention!None \/ kind = "review"
  BY <1>1 DEF Retention!FirstStep
<1>3. Alert'
  BY <1>1 DEF Alert
<1>4. Living'
  BY <1>1, <1>2, <1>3 DEF Living
<1>. QED  BY <1>1, <1>4 DEF OpInv, Knows

LEMMA ResumeOp ==
  ASSUME NEW kind \in {"delete", "sweep", "recover"}, NEW id \in Retention!Ids,
         rop' = Retention!Resume(kind, id),
         rreceipt'.status = "pending"
  PROVE  OpInv'
<1>1. rop'.kind = kind /\ rop'.pc = "erase"
  BY ResumeType DEF Kinds
<1>. QED  BY <1>1 DEF OpInv, Erasing

LEMMA RecoverOp ==
  ASSUME RetentionInv, TypeInv', Grows, Retention!Recover \/ Retention!DecideRecovery
  PROVE  OpInv'
<1>0. /\ TypeInv /\ JournalInv /\ OpInv /\ rop \in Ops /\ "recover" \in Retention!Ids
           /\ "recover" \in Kinds
      /\ 0 \in Retention!Times /\ rreceipt.status \in {"none", "pending", "completed"}
  BY GovernanceAssumption DEF RetentionInv, TypeInv, Retention!Ids, Kinds, Retention!Times,
     Receipts, Retention!RetentionAssumption
<1>1. CASE Retention!Recover
  <2>1. /\ journal' = journal /\ rreceipt' = rreceipt
        /\ head' = IF Retention!Valid THEN Len(journal) ELSE head
        /\ rreceipt.status = "none" => rop' = Retention!Load("recover", "recover", 0)
             /\ rside' = rside
        /\ rreceipt.status = "pending" => rop' = Retention!Resume("recover", "recover")
        /\ rreceipt.status = "completed" => rop' = Retention!NoOp /\ rfiles' = "none"
    BY <1>1 DEF Retention!Recover
  <2>2. CASE rreceipt.status = "none"
    <3>1. Retention!Valid' => head' = Len(journal')
      BY <1>0, <2>1 DEF Retention!Valid, TypeInv, JournalInv
    <3>. QED  BY <1>0, <2>1, <2>2, <3>1, LoadOp
  <2>3. CASE rreceipt.status = "pending"
    BY <1>0, <2>1, <2>3, ResumeOp
  <2>4. CASE rreceipt.status = "completed"
    BY <2>1, <2>4, Stops
  <2>. QED  BY <1>0, <2>2, <2>3, <2>4
<1>2. CASE Retention!DecideRecovery
  <2>0. /\ UNCHANGED <<rside, journal, head, rreceipt, rfiles>> /\ rop.pc = "decide"
        /\ rop.kind = "recover"
    BY <1>2 DEF Retention!DecideRecovery, Retention!Deciding, Retention!At, Retention!Quiet,
       Retention!disk
  <2>1. rreceipt.status = "none" /\ rop.meta = rside /\ Alert /\ rop.entry = Retention!NoEntry
    BY <1>0, <2>0, LivingAt DEF Living
  <2>2. \/ \E s : Retention!Finish(s)
        \/ rop.meta.export.status = "pending" /\ Retention!Goto("clear")
        \/ /\ rop.meta.export.status = "audit_pending" /\ Retention!Valid
           /\ rop' = [rop EXCEPT !.pc = "anchor", !.then = "complete"]
    BY <1>2 DEF Retention!DecideRecovery
  <2>3. CASE \E s : Retention!Finish(s)
    BY <1>0, <2>0, <2>1, <2>3, FinishStops
  <2>4. CASE rop.meta.export.status = "pending" /\ Retention!Goto("clear")
    <3>1. Same /\ rop'.pc = "clear" /\ rop'.meta = rop.meta
      BY <1>0, <2>4, GotoFields
    <3>2. Alert'
      BY <2>0, <2>1, <3>1, AlertKept
    <3>3. Living'
      BY <2>0, <2>4, <3>1, <3>2 DEF Living, Same
    <3>. QED  BY <2>0, <2>1, <3>1, <3>3 DEF OpInv, Knows
  <2>5. CASE /\ rop.meta.export.status = "audit_pending" /\ Retention!Valid
             /\ rop' = [rop EXCEPT !.pc = "anchor", !.then = "complete"]
    <3>1. /\ Same /\ rop'.pc = "anchor" /\ rop'.then = "complete" /\ rop'.meta = rop.meta
          /\ rop'.entry = Retention!NoEntry
      BY <1>0, <2>1, <2>5 DEF Ops, Same
    <3>2. Alert'
      BY <2>0, <2>1, <3>1, AlertKept
    <3>3. head = Len(journal)
      BY <2>0, <2>1, <2>5 DEF Alert
    <3>4. Audited(rop.then)'
      BY <2>0, <2>5, <3>1, <3>3 DEF Audited, Same
    <3>5. Living'
      BY <2>0, <3>1, <3>2, <3>4 DEF Living, Same
    <3>. QED  BY <2>0, <2>1, <3>1, <3>5 DEF OpInv, Knows
  <2>. QED  BY <2>2, <2>3, <2>4, <2>5
<1>. QED  BY <1>1, <1>2

LEMMA BeginOp ==
  ASSUME RetentionInv, TypeInv', Grows, Retention!Begin \/ Retention!ResumeDeletion
           \/ Retention!BeginSweep
  PROVE  OpInv'
<1>0. /\ TypeInv /\ {"owner", "sweep"} \subseteq Retention!Ids /\ "sweep" \in Kinds
           /\ 0 \in Retention!Times
      /\ rreceipt.status \in {"none", "pending", "completed"}
  BY GovernanceAssumption DEF RetentionInv, TypeInv, Retention!Ids, Kinds, Retention!Times,
     Receipts, Retention!RetentionAssumption
<1>1. CASE Retention!Begin
  <2>1. rreceipt' = rreceipt /\ rside' = rside /\ rreceipt.status = "none"
    BY <1>0, <1>1, RequestedType DEF Retention!Beginning, Retention!disk
  <2>2. PICK kind \in Kinds \ {"none", "recover"}, id \in Retention!Ids, d \in Retention!Times :
              /\ rop' = Retention!Load(kind, id, d)
              /\ kind = "extend" => id \in Extensions
              /\ id = "stranger" => kind = "review"
    BY <1>0, <1>1, RequestedType
  <2>. QED  BY <1>0, <2>1, <2>2, LoadOp
<1>2. CASE Retention!ResumeDeletion
  <2>1. rop' = Retention!Resume("delete", "owner") /\ rreceipt'.status = "pending"
    BY <1>2 DEF Retention!ResumeDeletion, Retention!Beginning, Retention!disk
  <2>. QED  BY <1>0, <2>1, ResumeOp
<1>3. CASE Retention!BeginSweep
  <2>1. /\ rreceipt' = rreceipt /\ rside' = rside /\ rreceipt.status # "completed"
        /\ rreceipt.status = "none" => rop' = Retention!Load("sweep", "sweep", 0)
        /\ rreceipt.status # "none" => rop' = Retention!Resume("sweep", "sweep")
    BY <1>3 DEF Retention!BeginSweep, Retention!Beginning, Retention!disk
  <2>2. CASE rreceipt.status = "none"
    BY <1>0, <2>1, <2>2, LoadOp
  <2>3. CASE rreceipt.status # "none"
    BY <1>0, <2>1, <2>3, ResumeOp
  <2>. QED  BY <2>2, <2>3
<1>. QED  BY <1>1, <1>2, <1>3

LEMMA OpFrame ==
  ASSUME OpInv, UNCHANGED <<rop, rside, journal, head, rreceipt, rfiles>>
  PROVE  OpInv'
<1>1. /\ (Retention!Valid <=> Retention!Valid') /\ Pending' = Pending
           /\ Retention!Completed' = Retention!Completed /\ Vouched' = Vouched
      /\ Written' = Written /\ (Claimed <=> Claimed')
  BY DEF Retention!Valid, Pending, Retention!Completed, Vouched, Written, Claimed
<1>2. (Alert <=> Alert') /\ (Entered <=> Entered') /\ (Knows <=> Knows') /\ (Erasing <=> Erasing')
  BY <1>1 DEF Alert, Entered, Knows, Erasing
<1>3. \A t : t \in {rop.pc, rop.then} => (Audited(t) <=> Audited(t)')
  BY <1>1 DEF Audited
<1>4. Living => Living'
  BY <1>1, <1>2, <1>3 DEF Living
<1>. QED  BY <1>2, <1>4 DEF OpInv

LEMMA OpStep ==
  ASSUME RetentionInv, TypeInv', Grows, [Retention!Next]_Retention!vars
  PROVE  OpInv'
<1>0. TypeInv /\ OpInv
  BY DEF RetentionInv
<1>1. CASE UNCHANGED Retention!vars \/ Retention!Tick
  BY <1>0, <1>1, OpFrame DEF Retention!vars, Retention!disk, Retention!Tick
<1>2. CASE Retention!GiveAnswer
  <2>1. rreceipt' = rreceipt /\ rop.pc = "answer" /\ \E s : Retention!Finish(s)
    BY <1>2 DEF Retention!GiveAnswer, Retention!At, Retention!disk
  <2>2. rreceipt.status = "none"
    BY <1>0, <2>1, LivingAt
  <2>. QED  BY <1>0, <2>1, <2>2, FinishStops
<1>3. CASE Retention!Crash
  <2>1. rop' = Retention!NoOp /\ rreceipt' = rreceipt /\ rfiles' = rfiles
    BY <1>3 DEF Retention!Crash
  <2>2. rreceipt.status = "completed" => rfiles = "none"
    BY <1>0 DEF OpInv
  <2>. QED  BY <2>1, <2>2, Stops
<1>4. CASE Retention!AppendAudit \/ Retention!WriteHead \/ Retention!Anchor
  BY <1>4, AppendOp, WriteHeadOp, AnchorOp
<1>5. CASE Retention!Settle \/ Retention!CommitExtension \/ Retention!DecideExtension
  BY <1>5, SettleOp, CommitOp, DecideExtensionOp
<1>6. CASE Retention!DecideReview \/ Retention!ReviewCallback \/ Retention!ViewRetention
  BY <1>6, ReviewOp
<1>7. CASE Retention!DecideNewExport \/ Retention!DecideKnownExport \/ Retention!ExportCallback
             \/ Retention!ExportVerified
           \/ Retention!CompleteExport \/ Retention!ClearExport \/ Retention!UnregisterExport
  BY <1>7, DecideNewExportOp, DecideKnownExportOp, CallbackOp, VerifiedOp, CompleteExportOp,
     ClearOp, UnregisterOp
<1>8. CASE Retention!DecideDeletion \/ Retention!DecideSweep \/ Retention!Erase
             \/ Retention!CompleteReceipt
  BY <1>8, DeletionOp
<1>9. CASE Retention!Begin \/ Retention!ResumeDeletion \/ Retention!BeginSweep
  BY <1>9, BeginOp
<1>10. CASE Retention!Recover \/ Retention!DecideRecovery
  BY <1>10, RecoverOp
<1>. QED  BY <1>1, <1>2, <1>3, <1>4, <1>5, <1>6, <1>7, <1>8, <1>9, <1>10 DEF Retention!Next,
     Retention!Steps

-----------------------------------------------------------------------------
(***************************************************************************)
(* The theorem.                                                            *)
(***************************************************************************)
LEMMA RetentionInit == Retention!Init => RetentionInv
<1>. SUFFICES ASSUME Retention!Init PROVE RetentionInv
  OBVIOUS
<1>0. /\ FirstDeadline \in Retention!Times /\ 0 \in Retention!Times /\ "none" \in Retention!Ids
      /\ MaxNow \in Nat /\ MaxFaults \in Nat /\ GovernanceCrashes \in Nat /\ JournalCap \in Nat
      /\ ReviewCap \in Nat
  BY GovernanceAssumption DEF Retention!RetentionAssumption, Retention!Times, Retention!Ids
<1>1. /\ rside \in Retention!Sides /\ rside.pending = Retention!None
           /\ rside.extended = Retention!None /\ rside.export = Retention!NoExport
  <2>1. PICK phase \in {"sealed", "FINALIZATION_FAILED"} :
          rside = [Retention!NoSide EXCEPT !.phase = phase, !.deadline = FirstDeadline]
    BY DEF Retention!Init
  <2>2. Retention!NoSide \in Retention!Sides
    BY RecordTypes
  <2>3. rside \in Retention!Sides
    BY <1>0, <2>1, <2>2 DEF Retention!Sides
  <2>4. /\ rside.pending = Retention!NoSide.pending
             /\ rside.extended = Retention!NoSide.extended
             /\ rside.export = Retention!NoSide.export
    BY <2>1, <2>2 DEF Retention!Sides
  <2>. QED  BY <2>3, <2>4 DEF Retention!NoSide
<1>2. TypeInv
  <2>1. journal \in Seq(Entries) /\ head \in Nat /\ now \in 0..MaxNow
    BY <1>0 DEF Retention!Init
  <2>2. rfaults \in 0..MaxFaults /\ rcrashes \in 0..GovernanceCrashes
    BY <1>0 DEF Retention!Init
  <2>3. /\ rreceipt \in Receipts /\ rop \in Ops /\ rprocess \in {"up", "down", "recovering"}
        /\ degraded \in BOOLEAN /\ rfiles \in {"none", "partial", "whole"}
    BY RecordTypes DEF Retention!Init
  <2>. QED  BY <1>1, <2>1, <2>2, <2>3 DEF TypeInv
<1>3. Len(journal) = 0 /\ head = 0 /\ DOMAIN journal = {}
  BY DEF Retention!Init
<1>4. JournalInv
  <2>1. Reviews = {}
    BY <1>3 DEF Reviews
  <2>2. Retention!AuditedOnce
    BY <1>3 DEF Retention!AuditedOnce
  <2>. QED  BY <1>0, <1>3, <2>1, <2>2, FS_EmptySet DEF JournalInv
<1>5. OpInv
  BY DEF Retention!Init, OpInv
<1>6. ExtensionInv
  BY <1>1, <1>3 DEF Retention!Init, ExtensionInv, Retention!ExtendedHolds, Retention!NoReceipt
<1>7. ExportInv
  BY <1>1 DEF Retention!Init, ExportInv, Retention!NoExport
<1>8. AnswerInv
  BY DEF Retention!Init, AnswerInv, Retention!NoAnswer
<1>. QED  BY <1>2, <1>4, <1>5, <1>6, <1>7, <1>8 DEF RetentionInv

LEMMA RetentionStep == RetentionInv /\ [Retention!Next]_Retention!vars => RetentionInv'
<1>. SUFFICES ASSUME RetentionInv, [Retention!Next]_Retention!vars PROVE RetentionInv'
  OBVIOUS
<1>0. TypeInv /\ JournalInv /\ OpInv /\ AnswerInv
  BY DEF RetentionInv
<1>1. TypeInv'
  BY <1>0, TypeStep
<1>2. Grows
  BY <1>0, JournalStep
<1>3. JournalInv'
  BY <1>0, <1>2, GrownJournal
<1>4. OpInv'
  BY <1>1, <1>2, OpStep
<1>5. ExtensionInv'
  BY <1>1, <1>2, ExtensionStep
<1>6. ExportInv'
  BY <1>1, <1>2, ExportStep
<1>7. AnswerInv'
  BY <1>0, <1>2, AnswerStep
<1>. QED  BY <1>1, <1>3, <1>4, <1>5, <1>6, <1>7 DEF RetentionInv

LEMMA RetentionInvHolds == RetentionInv => ExtendedHolds /\ AuditHolds
<1>. SUFFICES ASSUME RetentionInv PROVE ExtendedHolds /\ AuditHolds
  OBVIOUS
<1>0. /\ TypeInv /\ JournalInv /\ OpInv /\ ExtensionInv /\ ExportInv /\ AnswerInv
      /\ rreceipt.status \in {"none", "pending", "completed"}
  BY DEF RetentionInv, TypeInv, Receipts
<1>1. Retention!TypeOK
  <2>1. DOMAIN journal = 1..Len(journal) /\ Len(journal) \in Nat /\ head \in Nat
    BY <1>0 DEF TypeInv
  <2>2. Reviews = {i \in DOMAIN journal : journal[i].action = "review"}
    BY <2>1 DEF Reviews
  <2>3. Len(journal) <= JournalCap /\ head <= Len(journal) /\ Len(journal) <= head + 1
    BY <1>0 DEF JournalInv
  <2>6. head \in {Len(journal) - 1, Len(journal)}
    <3>1. \A h, n \in Nat : h <= n /\ n <= h + 1 => h = n \/ h = n - 1
      OBVIOUS
    <3>. QED  BY <2>1, <2>3, <3>1
  <2>4. Cardinality({i \in DOMAIN journal : journal[i].action = "review"}) <= ReviewCap
    BY <1>0, <2>2 DEF JournalInv
  <2>5. rop.meta \in Retention!Sides
    BY <1>0, OpFields DEF TypeInv
  <2>7. \A S : Retention!Cardinality(S) = Cardinality(S)
    BY DEF Retention!Cardinality, Cardinality
  <2>. QED  BY <1>0, <2>3, <2>4, <2>5, <2>6, <2>7 DEF Retention!TypeOK, TypeInv
<1>2. Retention!AnswersAreAudited
  BY <1>0 DEF Retention!AnswersAreAudited, AnswerInv, Vouched
<1>3. Retention!ExportIsRegistered
  <2>1. Vouched \subseteq Retention!Range(journal)
    <3>1. \A i \in 1..head : i \in 1..Len(journal)
      BY <1>0 DEF TypeInv, JournalInv
    <3>. QED  BY <1>0, <3>1, RangeIsWritten DEF Vouched, Written
  <2>2. rreceipt.status = "completed" => rfiles = "none"
    BY <1>0 DEF OpInv
  <2>. QED  BY <1>0, <2>1, <2>2 DEF Retention!ExportIsRegistered, ExportInv
<1>. QED  BY <1>0, <1>1, <1>2, <1>3 DEF ExtensionInv, JournalInv, ExtendedHolds, AuditHolds

-----------------------------------------------------------------------------
(***************************************************************************)
(* The leases on the roots (EvidenceRootLease).                            *)
(***************************************************************************)
Call == [path : Seq(Lease!Marker), depth : Nat]
Runner == [pc : Lease!Place, again : BOOLEAN, path : Seq(Lease!Marker), snap : Lease!Marker,
           claim : Lease!Marker,
           callers : Seq(Call), depth : Nat, taken : BOOLEAN,
           lock : Lease!Marker, closing : BOOLEAN, entering : Nat, running : Nat]

-----------------------------------------------------------------------------
LEMMA FreeType == Lease!NoMarker \in Lease!Marker /\ Lease!LeasePath \in Seq(Lease!Marker)
  /\ Lease!Free \in Runner
BY DEF Lease!NoMarker, Lease!Marker, Lease!LeasePath, Lease!Free, Runner, Lease!Place, Call

LEMMA MarkerAt == ASSUME Lease!TypeOK, NEW path PROVE Lease!At(path) \in Lease!Marker
BY FreeType DEF Lease!TypeOK, Lease!At

\* A process that changes one field of its state keeps its type.
LEMMA FieldType ==
  ASSUME NEW r \in Runner
  PROVE  /\ \A x \in Lease!Place : [r EXCEPT !.pc = x] \in Runner
         /\ \A x \in Seq(Lease!Marker) : [r EXCEPT !.path = x] \in Runner
         /\ \A x \in Lease!Marker : /\ [r EXCEPT !.snap = x] \in Runner
                             /\ [r EXCEPT !.claim = x] \in Runner
                             /\ [r EXCEPT !.lock = x] \in Runner
         /\ \A x \in BOOLEAN : /\ [r EXCEPT !.taken = x] \in Runner
                              /\ [r EXCEPT !.closing = x] \in Runner
         /\ \A x \in Nat : /\ [r EXCEPT !.depth = x] \in Runner
                          /\ [r EXCEPT !.entering = x] \in Runner
                          /\ [r EXCEPT !.running = x] \in Runner
         /\ \A x \in Seq(Call) : [r EXCEPT !.callers = x] \in Runner
BY DEF Runner

LEMMA StateType ==
  ASSUME proc \in [Processes -> Runner], NEW p \in Processes, NEW r \in Runner,
         proc' = [proc EXCEPT ![p] = r]
  PROVE  proc' \in [Processes -> Runner]
OBVIOUS

\* The process that takes a step, and what it makes.
LEMMA OwnType ==
  ASSUME Lease!TypeOK, NEW p \in alive
  PROVE  /\ p \in Processes /\ proc[p] \in Runner
         /\ Lease!New(p) \in Lease!Marker /\ Lease!New(p).owner = p /\ Lease!New(p).n > 0
              /\ Lease!New(p) # Lease!NoMarker
         /\ Lease!ClaimPath(p) \in Seq(Lease!Marker)
<1>1. p \in Processes /\ proc[p] \in Runner /\ made \in Nat
  BY DEF Lease!TypeOK, Runner, Call
<1>2. /\ Lease!New(p) \in Lease!Marker /\ Lease!New(p).owner = p /\ Lease!New(p).n > 0
           /\ Lease!New(p) # Lease!NoMarker
  BY <1>1 DEF Lease!New, Lease!Marker, Lease!NoMarker
<1>3. Lease!ClaimPath(p) \in Seq(Lease!Marker)
  BY <1>1 DEF Lease!ClaimPath, Runner
<1>. QED  BY <1>1, <1>2, <1>3

\* The call above the one that returns.
LEMMA CallerType ==
  ASSUME NEW above \in Seq(Call), above # <<>>
  PROVE  Lease!Last(above).path \in Seq(Lease!Marker) /\ Lease!Last(above).depth \in Nat
           /\ Lease!Front(above) \in Seq(Call)
<1>1. Len(above) \in Nat /\ Len(above) > 0 /\ Lease!Last(above) \in Call
  BY DEF Lease!Last
<1>2. Lease!Front(above) \in Seq(Call)
  BY <1>1 DEF Lease!Front
<1>. QED  BY <1>1, <1>2 DEF Call

LEMMA ReturnType ==
  ASSUME Lease!TypeOK, NEW p \in alive, NEW result \in BOOLEAN, Lease!Return(p, result)
  PROVE  proc' \in [Processes -> Runner]
<1>1. p \in Processes /\ proc[p] \in Runner /\ proc \in [Processes -> Runner]
  BY OwnType DEF Lease!TypeOK, Runner, Call
<1>2. CASE proc[p].callers = <<>>
  <2>1. [Lease!Free EXCEPT !.pc = "create", !.again = TRUE] \in Runner
    BY FreeType DEF Runner, Lease!Place
  <2>. QED  BY <1>1, <1>2, <2>1, FreeType DEF Lease!Return, Lease!Becomes
<1>3. CASE proc[p].callers # <<>> /\ ~result
  BY <1>1, <1>3, FreeType DEF Lease!Return, Lease!Becomes
<1>4. CASE proc[p].callers # <<>> /\ result
  <2>1. proc[p].callers \in Seq(Call)
    BY <1>1 DEF Runner
  <2>2. /\ Lease!Last(proc[p].callers).path \in Seq(Lease!Marker)
             /\ Lease!Last(proc[p].callers).depth \in Nat
        /\ Lease!Front(proc[p].callers) \in Seq(Call)
    BY <1>4, <2>1, CallerType
  <2>3. [proc[p] EXCEPT !.pc = "snapshot", !.path = Lease!Last(proc[p].callers).path,
                        !.depth = Lease!Last(proc[p].callers).depth,
                        !.callers = Lease!Front(proc[p].callers)] \in Runner
    BY <1>1, <2>2 DEF Runner, Lease!Place
  <2>. QED  BY <1>1, <1>4, <2>3 DEF Lease!Return, Lease!Becomes
<1>. QED  BY <1>2, <1>3, <1>4

\* Files that were put or removed.
FilesType == \A path \in DOMAIN markers : path \in Seq(Lease!Marker)
  /\ markers[path] \in Lease!Marker

LEMMA FileType ==
  ASSUME FilesType, NEW path \in Seq(Lease!Marker), NEW m \in Lease!Marker,
         markers' = markers \/ markers' = Lease!Put(path, m) \/ markers' = Lease!Without(path)
  PROVE  FilesType'
BY DEF FilesType, Lease!Put, Lease!Without

LEMMA LeaseTypeStep == Lease!TypeOK /\ [Lease!Next]_Lease!vars => Lease!TypeOK'
<1>. SUFFICES ASSUME Lease!TypeOK, [Lease!Next]_Lease!vars PROVE Lease!TypeOK'
  OBVIOUS
<1>1. CASE UNCHANGED Lease!vars
  BY <1>1 DEF Lease!TypeOK, Lease!vars
<1>2. ASSUME NEW p \in Processes, p \in alive, proc' \in [Processes -> Runner], FilesType',
             alive' \subseteq alive, made' \in Nat
      PROVE  Lease!TypeOK'
  BY <1>2 DEF Lease!TypeOK, FilesType, Runner, Call
<1>3. /\ FilesType /\ proc \in [Processes -> Runner] /\ alive \subseteq Processes /\ made \in Nat
      /\ markers' = markers => FilesType'
  BY DEF Lease!TypeOK, FilesType, Runner, Call
<1>4. ASSUME NEW p \in Processes, Lease!Acquire(p) PROVE Lease!TypeOK'
  <2>1. [Lease!Free EXCEPT !.pc = "create"] \in Runner
    BY FreeType DEF Runner, Lease!Place
  <2>. QED  BY <1>2, <1>3, <1>4, <2>1 DEF Lease!Acquire, Lease!Step, Lease!Becomes
<1>5. ASSUME NEW p \in Processes, Lease!CreateLease(p) PROVE Lease!TypeOK'
  <2>0. p \in alive
    BY <1>5 DEF Lease!CreateLease, Lease!Step
  <2>1. FilesType' /\ made' \in Nat
    BY <1>3, <1>5, <2>0, FreeType, OwnType, FileType DEF Lease!CreateLease, Lease!CanMake
  <2>2. proc' \in [Processes -> Runner]
    <3>1. ASSUME NEW pc \in Lease!Place, proc' = [proc EXCEPT ![p].pc = pc]
          PROVE  proc' \in [Processes -> Runner]
      BY <1>3, <2>0, <3>1, OwnType, FieldType, StateType
    <3>2. CASE Lease!At(Lease!LeasePath) = Lease!NoMarker
      <4>. DEFINE r == [[proc[p] EXCEPT !.pc = "sync"] EXCEPT !.lock = Lease!New(p)]
      <4>1. [proc[p] EXCEPT !.pc = "sync"] \in Runner
        BY <2>0, OwnType, FieldType DEF Lease!Place
      <4>2. r \in Runner
        BY <2>0, <4>1, OwnType, FieldType
      <4>3. proc' = [proc EXCEPT ![p] = r]
        BY <1>5, <3>2 DEF Lease!CreateLease
      <4>. HIDE DEF r
      <4>. QED  BY <1>3, <4>2, <4>3, StateType
    <3>3. CASE Lease!At(Lease!LeasePath) # Lease!NoMarker
      <4>1. (IF proc[p].again THEN "free" ELSE "snapshot") \in Lease!Place
        BY DEF Lease!Place
      <4>. QED  BY <1>5, <3>1, <3>3, <4>1 DEF Lease!CreateLease, Lease!Goto
    <3>. QED  BY <3>2, <3>3
  <2>. QED  BY <1>2, <1>5, <2>0, <2>1, <2>2 DEF Lease!CreateLease
<1>6. ASSUME NEW p \in Processes, Lease!SyncLease(p) PROVE Lease!TypeOK'
  <2>0. p \in alive /\ proc[p].lock \in Lease!Marker
    BY <1>6, OwnType DEF Lease!SyncLease, Lease!Step, Runner
  <2>1. FilesType'
    BY <1>3, <1>6, <2>0, FreeType, FileType DEF Lease!SyncLease, Lease!RemoveOwn
  <2>2. [Lease!Free EXCEPT !.pc = "held", !.lock = proc[p].lock] \in Runner
    BY <2>0, FreeType DEF Runner, Lease!Place
  <2>3. proc' \in [Processes -> Runner]
    BY <1>3, <1>6, <2>2, FreeType DEF Lease!SyncLease, Lease!Becomes
  <2>. QED  BY <1>2, <1>3, <1>6, <2>0, <2>1, <2>3 DEF Lease!SyncLease
<1>7. ASSUME NEW p \in Processes, Lease!ReadSnapshot(p) PROVE Lease!TypeOK'
  <2>0. p \in alive
    BY <1>7 DEF Lease!ReadSnapshot, Lease!Step
  <2>1. Lease!At(proc[p].path) \in Lease!Marker
    BY MarkerAt
  <2>2. \/ \E result \in BOOLEAN : Lease!Return(p, result)
        \/ proc' = [proc EXCEPT ![p].pc = "claim", ![p].snap = Lease!At(proc[p].path)]
    BY <1>7 DEF Lease!ReadSnapshot
  <2>3. ASSUME proc' = [proc EXCEPT ![p].pc = "claim", ![p].snap = Lease!At(proc[p].path)]
        PROVE  proc' \in [Processes -> Runner]
    <3>. DEFINE r == [[proc[p] EXCEPT !.pc = "claim"] EXCEPT !.snap = Lease!At(proc[p].path)]
    <3>1. [proc[p] EXCEPT !.pc = "claim"] \in Runner
      BY <2>0, OwnType, FieldType DEF Lease!Place
    <3>2. r \in Runner
      BY <2>1, <3>1, FieldType
    <3>3. proc' = [proc EXCEPT ![p] = r]
      BY <2>3
    <3>. HIDE DEF r
    <3>. QED  BY <1>3, <3>2, <3>3, StateType
  <2>4. proc' \in [Processes -> Runner]
    BY <2>0, <2>2, <2>3, ReturnType
  <2>. QED  BY <1>2, <1>3, <1>7, <2>0, <2>4 DEF Lease!ReadSnapshot
<1>8. ASSUME NEW p \in Processes, Lease!ClaimMarker(p) PROVE Lease!TypeOK'
  <2>0. p \in alive /\ Lease!ClaimPath(p) \in Seq(Lease!Marker) /\ proc[p] \in Runner
    BY <1>8, OwnType DEF Lease!ClaimMarker, Lease!Step
  <2>1. FilesType' /\ made' \in Nat
    <3>1. CASE Lease!At(Lease!ClaimPath(p)) = Lease!NoMarker
      <4>1. markers' = Lease!Put(Lease!ClaimPath(p), Lease!New(p)) /\ made' = made + 1
        BY <1>8, <3>1 DEF Lease!ClaimMarker, Lease!CanMake
      <4>. QED  BY <1>3, <2>0, <4>1, OwnType, FileType
    <3>2. CASE Lease!At(Lease!ClaimPath(p)) # Lease!NoMarker
      BY <1>3, <1>8, <3>2 DEF Lease!ClaimMarker
    <3>. QED  BY <3>1, <3>2
  <2>2. ASSUME Lease!At(Lease!ClaimPath(p)) = Lease!NoMarker
        PROVE  proc' \in [Processes -> Runner]
    <3>1. proc' = [proc EXCEPT ![p].pc = "recheck", ![p].claim = Lease!New(p)]
      BY <1>8, <2>2 DEF Lease!ClaimMarker
    <3>. DEFINE r == [[proc[p] EXCEPT !.pc = "recheck"] EXCEPT !.claim = Lease!New(p)]
    <3>2. [proc[p] EXCEPT !.pc = "recheck"] \in Runner
      BY <2>0, FieldType DEF Lease!Place
    <3>3. r \in Runner
      BY <2>0, <3>2, OwnType, FieldType
    <3>4. proc' = [proc EXCEPT ![p] = r]
      BY <3>1
    <3>. HIDE DEF r
    <3>. QED  BY <1>3, <3>3, <3>4, StateType
  <2>3. ASSUME Lease!At(Lease!ClaimPath(p)) # Lease!NoMarker /\ proc[p].depth >= MaxReclaims
        PROVE  proc' \in [Processes -> Runner]
    <3>1. Lease!Return(p, FALSE)
      BY <1>8, <2>3 DEF Lease!ClaimMarker
    <3>. QED  BY <2>0, <3>1, ReturnType
  <2>4. ASSUME Lease!At(Lease!ClaimPath(p)) # Lease!NoMarker /\ ~(proc[p].depth >= MaxReclaims)
        PROVE  proc' \in [Processes -> Runner]
    <3>. DEFINE above == Append(proc[p].callers, [path |-> proc[p].path,
                                                  depth |-> proc[p].depth + 1])
                r1 == [proc[p] EXCEPT !.pc = "snapshot"]
                r2 == [r1 EXCEPT !.path = Lease!ClaimPath(p)]
                r3 == [r2 EXCEPT !.depth = proc[p].depth + 1]
                r == [r3 EXCEPT !.callers = above]
    <3>1. above \in Seq(Call)
      BY <2>0 DEF Runner, Call
    <3>2. proc' = [proc EXCEPT ![p] = r]
      BY <1>8, <2>4 DEF Lease!ClaimMarker
    <3>3. r \in Runner
      <4>. HIDE DEF above
      <4>1. r1 \in Runner
        BY <2>0, FieldType DEF Lease!Place
      <4>2. r2 \in Runner
        <5>. HIDE DEF r1
        <5>. QED  BY <2>0, <4>1, FieldType
      <4>3. proc[p].depth + 1 \in Nat
        BY <2>0 DEF Runner
      <4>4. r3 \in Runner
        <5>. HIDE DEF r2
        <5>. QED  BY <4>2, <4>3, FieldType
      <4>. HIDE DEF r3
      <4>. QED  BY <3>1, <4>4, FieldType
    <3>. HIDE DEF r
    <3>. QED  BY <1>3, <3>2, <3>3, StateType
  <2>5. proc' \in [Processes -> Runner]
    BY <2>2, <2>3, <2>4
  <2>. QED  BY <1>2, <1>8, <2>0, <2>1, <2>5 DEF Lease!ClaimMarker
<1>9. ASSUME NEW p \in Processes, Lease!RecheckMarker(p) PROVE Lease!TypeOK'
  <2>0. proc[p] \in Runner
    BY <1>3
  <2>1. proc' \in [Processes -> Runner]
    <3>. DEFINE there == Lease!At(proc[p].path) = Lease!NoMarker
                pc == IF Lease!At(proc[p].path) = proc[p].snap THEN "unlink" ELSE "release"
                r1 == [proc[p] EXCEPT !.taken = there]
                r == [r1 EXCEPT !.pc = pc]
    <3>1. r1 \in Runner
      BY <2>0, FieldType
    <3>2. r \in Runner
      <4>1. pc \in Lease!Place
        BY DEF Lease!Place
      <4>. HIDE DEF r1, pc
      <4>. QED  BY <3>1, <4>1, FieldType
    <3>3. proc' = [proc EXCEPT ![p] = r]
      BY <1>9 DEF Lease!RecheckMarker
    <3>. HIDE DEF r
    <3>. QED  BY <1>3, <3>2, <3>3, StateType
  <2>. QED  BY <1>2, <1>3, <1>9, <2>1 DEF Lease!RecheckMarker, Lease!Step
<1>10. ASSUME NEW p \in Processes, Lease!UnlinkMarker(p) PROVE Lease!TypeOK'
  <2>1. proc' \in [Processes -> Runner]
    <3>. DEFINE r1 == [proc[p] EXCEPT !.taken = TRUE]
                r == [r1 EXCEPT !.pc = "release"]
    <3>1. r1 \in Runner
      BY <1>3, FieldType
    <3>2. r \in Runner
      <4>. HIDE DEF r1
      <4>. QED  BY <3>1, FieldType DEF Lease!Place
    <3>3. proc' = [proc EXCEPT ![p] = r]
      BY <1>10 DEF Lease!UnlinkMarker
    <3>. HIDE DEF r
    <3>. QED  BY <1>3, <3>2, <3>3, StateType
  <2>2. proc[p].path \in Seq(Lease!Marker)
    BY <1>3 DEF Runner
  <2>3. FilesType'
    BY <1>3, <1>10, <2>2, FreeType, FileType DEF Lease!UnlinkMarker
  <2>. QED  BY <1>2, <1>3, <1>10, <2>1, <2>3 DEF Lease!UnlinkMarker, Lease!Step
<1>11. ASSUME NEW p \in Processes, Lease!ReleaseClaim(p) PROVE Lease!TypeOK'
  <2>0. p \in alive /\ Lease!ClaimPath(p) \in Seq(Lease!Marker) /\ proc[p] \in Runner
    BY <1>11, OwnType DEF Lease!ReleaseClaim, Lease!Step
  <2>1. FilesType'
    BY <1>3, <1>11, <2>0, FreeType, FileType DEF Lease!ReleaseClaim, Lease!RemoveOwn
  <2>2. proc[p].taken \in BOOLEAN /\ Lease!Return(p, proc[p].taken)
    BY <1>11, <2>0 DEF Lease!ReleaseClaim, Runner
  <2>3. proc' \in [Processes -> Runner]
    BY <2>0, <2>2, ReturnType
  <2>. QED  BY <1>2, <1>3, <1>11, <2>0, <2>1, <2>3 DEF Lease!ReleaseClaim
<1>12. ASSUME NEW p \in Processes, Lease!BeginOperation(p) \/ Lease!VerifyOperation(p)
                \/ Lease!EndOperation(p)
       PROVE Lease!TypeOK'
  <2>0. proc[p] \in Runner /\ proc[p].entering \in Nat /\ proc[p].running \in Nat
    BY <1>3 DEF Runner
  <2>2. ASSUME NEW e \in Nat, NEW n \in Nat,
               proc' = [proc EXCEPT ![p] = [[proc[p] EXCEPT !.entering = e] EXCEPT !.running = n]]
        PROVE  proc' \in [Processes -> Runner]
    <3>1. [proc[p] EXCEPT !.entering = e] \in Runner
      BY <2>0, FieldType
    <3>2. [[proc[p] EXCEPT !.entering = e] EXCEPT !.running = n] \in Runner
      BY <3>1, FieldType
    <3>. QED  BY <1>3, <2>2, <3>2, StateType
  <2>3. ASSUME Lease!BeginOperation(p) PROVE proc' \in [Processes -> Runner]
    <3>1. proc' = [proc EXCEPT ![p] = [proc[p] EXCEPT !.entering = proc[p].entering + 1]]
      BY <2>3 DEF Lease!BeginOperation
    <3>2. [proc[p] EXCEPT !.entering = proc[p].entering + 1] \in Runner
      <4>1. proc[p].entering + 1 \in Nat
        BY <2>0
      <4>. QED  BY <2>0, <4>1, FieldType
    <3>. QED  BY <1>3, <3>1, <3>2, StateType
  <2>4. ASSUME Lease!VerifyOperation(p) PROVE proc' \in [Processes -> Runner]
    <3>. DEFINE n == IF Lease!At(Lease!LeasePath) = proc[p].lock /\ ~proc[p].closing
                     THEN proc[p].running + 1 ELSE proc[p].running
    <3>1. n \in Nat /\ proc[p].entering - 1 \in Nat
      BY <2>0, <2>4 DEF Lease!VerifyOperation
    <3>2. proc' = [proc EXCEPT ![p] = [[proc[p] EXCEPT !.entering = proc[p].entering - 1]
                                         EXCEPT !.running = n]]
      BY <2>4 DEF Lease!VerifyOperation
    <3>. HIDE DEF n
    <3>. QED  BY <2>2, <3>1, <3>2
  <2>5. ASSUME Lease!EndOperation(p) PROVE proc' \in [Processes -> Runner]
    <3>1. proc' = [proc EXCEPT ![p] = [proc[p] EXCEPT !.running = proc[p].running - 1]]
          /\ proc[p].running - 1 \in Nat
      BY <2>0, <2>5 DEF Lease!EndOperation
    <3>2. [proc[p] EXCEPT !.running = proc[p].running - 1] \in Runner
      BY <2>0, <3>1, FieldType
    <3>. QED  BY <1>3, <3>1, <3>2, StateType
  <2>1. proc' \in [Processes -> Runner]
    BY <1>12, <2>3, <2>4, <2>5
  <2>. QED  BY <1>2, <1>3, <1>12, <2>1 DEF Lease!BeginOperation, Lease!VerifyOperation,
       Lease!EndOperation, Lease!Step
<1>13. ASSUME NEW p \in Processes, Lease!ReleaseLease(p) \/ Lease!DrainLease(p) PROVE Lease!TypeOK'
  <2>1. proc' \in [Processes -> Runner]
    <3>1. [proc[p] EXCEPT !.closing = TRUE] \in Runner
            /\ [proc[p] EXCEPT !.pc = "removed"] \in Runner
      BY <1>3, FieldType DEF Lease!Place
    <3>2. \/ proc' = [proc EXCEPT ![p] = [proc[p] EXCEPT !.closing = TRUE]]
          \/ proc' = [proc EXCEPT ![p] = [proc[p] EXCEPT !.pc = "removed"]]
      BY <1>13 DEF Lease!ReleaseLease, Lease!DrainLease, Lease!Goto
    <3>. QED  BY <1>3, <3>1, <3>2, StateType
  <2>2. FilesType'
    BY <1>3, <1>13, FreeType, FileType DEF Lease!ReleaseLease, Lease!DrainLease, Lease!RemoveOwn
  <2>. QED  BY <1>2, <1>3, <1>13, <2>1, <2>2 DEF Lease!ReleaseLease, Lease!DrainLease, Lease!Step
<1>14. ASSUME NEW p \in Processes, Lease!ForgetLease(p) \/ Lease!Crash(p) PROVE Lease!TypeOK'
  <2>1. proc' \in [Processes -> Runner]
    BY <1>3, <1>14, FreeType DEF Lease!ForgetLease, Lease!Crash, Lease!Becomes
  <2>. QED  BY <1>2, <1>3, <1>14, <2>1 DEF Lease!ForgetLease, Lease!Crash, Lease!Step
<1>. QED
  BY <1>1, <1>4, <1>5, <1>6, <1>7, <1>8, <1>9, <1>10, <1>11, <1>12, <1>13, <1>14 DEF Lease!Next

-----------------------------------------------------------------------------
(***************************************************************************)
(* What a process relies on.  A marker that a reclaimer looked at belongs  *)
(* to a dead process, and dead ones do not come back; the claim for it is  *)
(* the reclaimer's own as long as it lives; so nobody else removes that    *)
(* marker, and what it unlinks is what it looked at.                       *)
(***************************************************************************)
Safe(p) ==
  /\ proc[p].pc \in {"claim", "recheck", "unlink", "release"} =>
       proc[p].snap # Lease!NoMarker /\ proc[p].snap.owner \notin alive
  /\ proc[p].pc \in {"recheck", "unlink", "release"} =>
       Lease!At(Lease!ClaimPath(p)) = proc[p].claim /\ proc[p].claim # Lease!NoMarker
         /\ proc[p].claim.owner = p
  /\ proc[p].pc = "unlink" => Lease!At(proc[p].path) = proc[p].snap
  /\ proc[p].pc \in {"sync", "held"} =>
       Lease!At(Lease!LeasePath) = proc[p].lock /\ proc[p].lock # Lease!NoMarker
         /\ proc[p].lock.owner = p
  /\ proc[p].pc # "held" => proc[p].entering = 0 /\ proc[p].running = 0

MarkerInv == \A p \in alive : Safe(p)

\* How a step of q changes the files: not at all, by a marker where there was
\* none, by taking back a marker of its own, or by unlinking.
FileStep(q) ==
  \/ markers' = markers
  \/ \E path, m : Lease!At(path) = Lease!NoMarker /\ markers' = Lease!Put(path, m)
  \/ \E path, m : m.owner = q
       /\ markers' = IF Lease!At(path) = m THEN Lease!Without(path) ELSE markers
  \/ proc[q].pc = "unlink" /\ markers' = Lease!Without(proc[q].path)

LEMMA AtFiles == ASSUME markers' = markers, NEW x PROVE Lease!At(x)' = Lease!At(x)
BY DEF Lease!At

LEMMA AtPut == ASSUME NEW path, NEW m, markers' = Lease!Put(path, m), NEW x
               PROVE  Lease!At(x)' = IF x = path THEN m ELSE Lease!At(x)
BY DEF Lease!At, Lease!Put

LEMMA AtWithout == ASSUME NEW path, markers' = Lease!Without(path), NEW x
                   PROVE  Lease!At(x)' = IF x = path THEN Lease!NoMarker ELSE Lease!At(x)
BY DEF Lease!At, Lease!Without

\* A marker that another process takes its stand on stays.
LEMMA Stays ==
  ASSUME Lease!TypeOK, MarkerInv, NEW q \in alive, NEW p \in alive, p # q, FileStep(q),
         NEW x, Lease!At(x) # Lease!NoMarker,
         \/ Lease!At(x).owner = p
         \/ proc[p].pc = "unlink" /\ x = proc[p].path
  PROVE  Lease!At(x)' = Lease!At(x)
<1>1. CASE markers' = markers
  BY <1>1, AtFiles
<1>2. CASE \E path, m : Lease!At(path) = Lease!NoMarker /\ markers' = Lease!Put(path, m)
  BY <1>2, AtPut
<1>3. Safe(p) /\ Safe(q)
  BY DEF MarkerInv
<1>4. Lease!At(x).owner # q
  BY <1>3 DEF Safe
<1>5. CASE \E path, m : m.owner = q
             /\ markers' = IF Lease!At(path) = m THEN Lease!Without(path) ELSE markers
  <2>1. PICK path, m : m.owner = q
                         /\ markers' = IF Lease!At(path) = m THEN Lease!Without(path) ELSE markers
    BY <1>5
  <2>2. CASE Lease!At(path) = m
    <3>1. x # path
      BY <1>4, <2>1, <2>2
    <3>. QED  BY <2>1, <2>2, <3>1, AtWithout
  <2>. QED  BY <2>1, <2>2, AtFiles
<1>6. CASE proc[q].pc = "unlink" /\ markers' = Lease!Without(proc[q].path)
  <2>1. /\ Lease!At(proc[q].path) = proc[q].snap /\ proc[q].snap.owner \notin alive
        /\ Lease!At(Lease!ClaimPath(q)) = proc[q].claim /\ proc[q].claim.owner = q
    BY <1>3, <1>6 DEF Safe
  <2>2. CASE Lease!At(x).owner = p
    <3>1. x # proc[q].path
      BY <2>1, <2>2
    <3>. QED  BY <1>6, <3>1, AtWithout
  <2>3. CASE proc[p].pc = "unlink" /\ x = proc[p].path
    <3>1. /\ Lease!At(x) = proc[p].snap /\ Lease!At(Lease!ClaimPath(p)) = proc[p].claim
          /\ proc[p].claim.owner = p
      BY <1>3, <2>3 DEF Safe
    <3>2. ASSUME x = proc[q].path PROVE FALSE
      <4>1. Lease!ClaimPath(p) = Lease!ClaimPath(q)
        BY <2>1, <2>3, <3>1, <3>2 DEF Lease!ClaimPath
      <4>. QED  BY <2>1, <3>1, <4>1
    <3>. QED  BY <1>6, <3>2, AtWithout
  <2>. QED  BY <2>2, <2>3
<1>. QED  BY <1>1, <1>2, <1>5, <1>6 DEF FileStep

\* So a process keeps what it relies on when another one takes a step.
LEMMA Bystander ==
  ASSUME Lease!TypeOK, MarkerInv, NEW q \in alive, NEW p \in alive, p # q, FileStep(q),
         proc'[p] = proc[p], alive' \subseteq alive
  PROVE  Safe(p)'
<1>1. Safe(p)
  BY DEF MarkerInv
<1>2. Lease!ClaimPath(p)' = Lease!ClaimPath(p)
  BY DEF Lease!ClaimPath
<1>3. proc[p].pc \in {"recheck", "unlink", "release"}
        => Lease!At(Lease!ClaimPath(p))' = Lease!At(Lease!ClaimPath(p))
  <2>. SUFFICES ASSUME proc[p].pc \in {"recheck", "unlink", "release"}
                PROVE  Lease!At(Lease!ClaimPath(p))' = Lease!At(Lease!ClaimPath(p))
    OBVIOUS
  <2>1. Lease!At(Lease!ClaimPath(p)) # Lease!NoMarker /\ Lease!At(Lease!ClaimPath(p)).owner = p
    BY <1>1 DEF Safe
  <2>2. ASSUME NEW x, x = Lease!ClaimPath(p) PROVE Lease!At(x)' = Lease!At(x)
    BY <2>1, <2>2, Stays
  <2>. QED  BY <1>2, <2>2 DEF Lease!At
<1>4. proc[p].pc = "unlink" => Lease!At(proc[p].path)' = Lease!At(proc[p].path)
  <2>. SUFFICES ASSUME proc[p].pc = "unlink" PROVE Lease!At(proc[p].path)' = Lease!At(proc[p].path)
    OBVIOUS
  <2>1. Lease!At(proc[p].path) # Lease!NoMarker
    BY <1>1 DEF Safe
  <2>2. ASSUME NEW x, x = proc[p].path PROVE Lease!At(x)' = Lease!At(x)
    BY <2>1, <2>2, Stays
  <2>. QED  BY <2>2 DEF Lease!At
<1>5. proc[p].pc \in {"sync", "held"} => Lease!At(Lease!LeasePath)' = Lease!At(Lease!LeasePath)
  <2>. SUFFICES ASSUME proc[p].pc \in {"sync",
                                       "held"} PROVE Lease!At(Lease!LeasePath)' = Lease!At(Lease!LeasePath)
    OBVIOUS
  <2>1. Lease!At(Lease!LeasePath) # Lease!NoMarker /\ Lease!At(Lease!LeasePath).owner = p
    BY <1>1 DEF Safe
  <2>2. ASSUME NEW x, x = Lease!LeasePath PROVE Lease!At(x)' = Lease!At(x)
    BY <2>1, <2>2, Stays
  <2>. QED  BY <2>2 DEF Lease!At, Lease!LeasePath
<1>. QED  BY <1>1, <1>2, <1>3, <1>4, <1>5 DEF Safe

\* A process that takes no part any more, or looks at a marker, relies on nothing.
LEMMA Idle ==
  ASSUME NEW p, proc'[p].pc \in {"free", "create", "removed", "snapshot"},
         proc'[p].entering = 0, proc'[p].running = 0
  PROVE  Safe(p)'
BY DEF Safe

LEMMA ReturnIdles ==
  ASSUME Lease!TypeOK, NEW p \in alive, NEW result \in BOOLEAN, Lease!Return(p, result),
         proc[p].entering = 0, proc[p].running = 0
  PROVE  Safe(p)' /\ \A q \in alive : q # p => proc'[q] = proc[q]
<1>1. p \in Processes /\ proc \in [Processes -> Runner] /\ alive \subseteq Processes
  BY DEF Lease!TypeOK, Runner, Call
<1>2. /\ proc'[p].pc \in {"free", "create", "snapshot"}
      /\ proc'[p].entering = 0 /\ proc'[p].running = 0
      /\ \A q \in alive : q # p => proc'[q] = proc[q]
  <2>0. /\ Lease!Free.pc = "free" /\ Lease!Free.entering = 0 /\ Lease!Free.running = 0
        /\ LET r == [Lease!Free EXCEPT !.pc = "create", !.again = TRUE]
           IN  r.pc = "create" /\ r.entering = 0 /\ r.running = 0
    BY DEF Lease!Free
  <2>1. CASE proc[p].callers = <<>> \/ ~result
    <3>1. \/ proc' = [proc EXCEPT ![p] = [Lease!Free EXCEPT !.pc = "create", !.again = TRUE]]
          \/ proc' = [proc EXCEPT ![p] = Lease!Free]
      BY <2>1 DEF Lease!Return, Lease!Becomes
    <3>. QED  BY <1>1, <2>0, <3>1
  <2>2. CASE proc[p].callers # <<>> /\ result
    <3>1. proc' = [proc EXCEPT ![p] =
                     [proc[p] EXCEPT !.pc = "snapshot", !.path = Lease!Last(proc[p].callers).path,
                                     !.depth = Lease!Last(proc[p].callers).depth,
                                     !.callers = Lease!Front(proc[p].callers)]]
      BY <2>2 DEF Lease!Return, Lease!Becomes
    <3>. QED  BY <1>1, <3>1 DEF Runner
  <2>. QED  BY <2>1, <2>2
<1>. QED  BY <1>2, Idle

LEMMA MarkerStep == Lease!TypeOK /\ MarkerInv /\ [Lease!Next]_Lease!vars => MarkerInv'
<1>. SUFFICES ASSUME Lease!TypeOK, MarkerInv, [Lease!Next]_Lease!vars PROVE MarkerInv'
  OBVIOUS
<1>1. CASE UNCHANGED Lease!vars
  BY <1>1 DEF MarkerInv, Safe, Lease!At, Lease!ClaimPath, Lease!LeasePath, Lease!vars
<1>2. /\ proc \in [Processes -> Runner] /\ alive \subseteq Processes
      /\ \A q \in alive : Safe(q)
  BY DEF Lease!TypeOK, Runner, Call, MarkerInv
\* It is enough to look at the process that takes the step, and at the files.
<1>3. ASSUME NEW q \in alive, FileStep(q), alive' \subseteq alive,
             \A p \in alive : p # q => proc'[p] = proc[p], q \in alive' => Safe(q)'
      PROVE  MarkerInv'
  BY <1>3, Bystander DEF MarkerInv
<1>4. ASSUME NEW q \in Processes, Lease!Acquire(q) PROVE MarkerInv'
  <2>1. q \in alive /\ markers' = markers /\ alive' = alive
    BY <1>4 DEF Lease!Acquire, Lease!Step
  <2>2. /\ proc'[q].pc = "create" /\ proc'[q].entering = 0 /\ proc'[q].running = 0
        /\ \A p \in alive : p # q => proc'[p] = proc[p]
    BY <1>2, <1>4 DEF Lease!Acquire, Lease!Becomes, Lease!Free
  <2>. QED  BY <1>3, <2>1, <2>2, Idle DEF FileStep
<1>5. ASSUME NEW q \in Processes, Lease!CreateLease(q) PROVE MarkerInv'
  <2>1. /\ q \in alive /\ proc[q].pc = "create" /\ alive' = alive
        /\ proc[q].entering = 0 /\ proc[q].running = 0
    BY <1>2, <1>5 DEF Lease!CreateLease, Lease!Step, Safe
  <2>2. CASE Lease!At(Lease!LeasePath) = Lease!NoMarker
    <3>1. markers' = Lease!Put(Lease!LeasePath, Lease!New(q))
      BY <1>5, <2>2 DEF Lease!CreateLease
    <3>2. /\ proc'[q].pc = "sync" /\ proc'[q].lock = Lease!New(q)
          /\ proc'[q].entering = 0 /\ proc'[q].running = 0
          /\ \A p \in alive : p # q => proc'[p] = proc[p]
      BY <1>2, <1>5, <2>1, <2>2 DEF Lease!CreateLease, Runner
    <3>3. Lease!At(Lease!LeasePath)' = Lease!New(q)
      BY <3>1 DEF Lease!At, Lease!Put, Lease!LeasePath
    <3>4. Safe(q)'
      BY <2>1, <3>2, <3>3, OwnType DEF Safe
    <3>. QED  BY <1>3, <2>1, <2>2, <3>1, <3>2, <3>4 DEF FileStep
  <2>3. CASE Lease!At(Lease!LeasePath) # Lease!NoMarker
    <3>1. /\ proc'[q].pc \in {"free", "snapshot"}
          /\ proc'[q].entering = 0 /\ proc'[q].running = 0
          /\ \A p \in alive : p # q => proc'[p] = proc[p]
          /\ markers' = markers
      BY <1>2, <1>5, <2>1, <2>3 DEF Lease!CreateLease, Lease!Goto, Runner
    <3>. QED  BY <1>3, <2>1, <3>1, Idle DEF FileStep
  <2>. QED  BY <2>2, <2>3
<1>6. ASSUME NEW q \in Processes, Lease!SyncLease(q) PROVE MarkerInv'
  <2>1. /\ q \in alive /\ alive' = alive
        /\ Lease!At(Lease!LeasePath) = proc[q].lock /\ proc[q].lock # Lease!NoMarker
             /\ proc[q].lock.owner = q
    BY <1>2, <1>6 DEF Lease!SyncLease, Lease!Step, Safe
  <2>2. CASE proc' = [proc EXCEPT ![q] = [Lease!Free EXCEPT !.pc = "held", !.lock = proc[q].lock]]
             /\ markers' = markers
    <3>1. /\ proc'[q].pc = "held" /\ proc'[q].lock = proc[q].lock
          /\ proc'[q].entering = 0 /\ proc'[q].running = 0
          /\ \A p \in alive : p # q => proc'[p] = proc[p]
      BY <1>2, <2>2 DEF Lease!Free
    <3>2. Safe(q)'
      BY <2>1, <2>2, <3>1 DEF Safe, Lease!At, Lease!LeasePath
    <3>. QED  BY <1>3, <2>1, <2>2, <3>1, <3>2 DEF FileStep
  <2>3. CASE Lease!RemoveOwn(Lease!LeasePath, proc[q].lock)
               /\ proc' = [proc EXCEPT ![q] = Lease!Free]
    <3>1. /\ proc'[q].pc = "free" /\ proc'[q].entering = 0 /\ proc'[q].running = 0
          /\ \A p \in alive : p # q => proc'[p] = proc[p]
      BY <1>2, <2>3 DEF Lease!Free
    <3>2. FileStep(q)
      BY <2>1, <2>3 DEF Lease!RemoveOwn, FileStep
    <3>. QED  BY <1>3, <2>1, <3>1, <3>2, Idle
  <2>. QED  BY <1>6, <2>2, <2>3 DEF Lease!SyncLease, Lease!Becomes
<1>7. ASSUME NEW q \in Processes, Lease!ReadSnapshot(q) PROVE MarkerInv'
  <2>1. /\ q \in alive /\ alive' = alive /\ markers' = markers
        /\ proc[q].entering = 0 /\ proc[q].running = 0
    BY <1>2, <1>7 DEF Lease!ReadSnapshot, Lease!Step, Safe
  <2>2. CASE \E result \in BOOLEAN : Lease!Return(q, result)
    BY <1>3, <2>1, <2>2, ReturnIdles DEF FileStep
  <2>3. CASE /\ Lease!At(proc[q].path) # Lease!NoMarker /\ Lease!Stale(Lease!At(proc[q].path))
             /\ proc' = [proc EXCEPT ![q].pc = "claim", ![q].snap = Lease!At(proc[q].path)]
    <3>1. /\ proc'[q].pc = "claim" /\ proc'[q].snap = Lease!At(proc[q].path)
          /\ proc'[q].entering = 0 /\ proc'[q].running = 0
          /\ \A p \in alive : p # q => proc'[p] = proc[p]
      BY <1>2, <2>1, <2>3 DEF Runner
    <3>2. Safe(q)'
      BY <2>1, <2>3, <3>1 DEF Safe, Lease!Stale
    <3>. QED  BY <1>3, <2>1, <3>1, <3>2 DEF FileStep
  <2>. QED  BY <1>7, <2>2, <2>3 DEF Lease!ReadSnapshot
<1>8. ASSUME NEW q \in Processes, Lease!ClaimMarker(q) PROVE MarkerInv'
  <2>1. /\ q \in alive /\ alive' = alive /\ proc[q].entering = 0 /\ proc[q].running = 0
        /\ proc[q].snap # Lease!NoMarker /\ proc[q].snap.owner \notin alive
    BY <1>2, <1>8 DEF Lease!ClaimMarker, Lease!Step, Safe
  <2>2. CASE Lease!At(Lease!ClaimPath(q)) = Lease!NoMarker
    <3>1. markers' = Lease!Put(Lease!ClaimPath(q), Lease!New(q))
      BY <1>8, <2>2 DEF Lease!ClaimMarker
    <3>2. /\ proc'[q].pc = "recheck" /\ proc'[q].claim = Lease!New(q)
          /\ proc'[q].snap = proc[q].snap /\ proc'[q].path = proc[q].path
          /\ proc'[q].entering = 0 /\ proc'[q].running = 0
          /\ \A p \in alive : p # q => proc'[p] = proc[p]
      BY <1>2, <1>8, <2>1, <2>2 DEF Lease!ClaimMarker, Runner
    <3>3. Lease!At(Lease!ClaimPath(q))' = Lease!New(q)
      BY <3>1, <3>2 DEF Lease!At, Lease!Put, Lease!ClaimPath
    <3>4. Safe(q)'
      BY <2>1, <3>2, <3>3, OwnType DEF Safe
    <3>5. FileStep(q)
      BY <2>2, <3>1 DEF FileStep
    <3>. QED  BY <1>3, <2>1, <3>2, <3>4, <3>5
  <2>3. CASE Lease!At(Lease!ClaimPath(q)) # Lease!NoMarker /\ Lease!Return(q, FALSE)
               /\ markers' = markers
    BY <1>3, <2>1, <2>3, ReturnIdles DEF FileStep
  <2>4. CASE /\ Lease!At(Lease!ClaimPath(q)) # Lease!NoMarker /\ markers' = markers
             /\ proc'[q].pc = "snapshot" /\ proc'[q].entering = 0 /\ proc'[q].running = 0
             /\ \A p \in alive : p # q => proc'[p] = proc[p]
    BY <1>3, <2>1, <2>4, Idle DEF FileStep
  <2>5. CASE Lease!At(Lease!ClaimPath(q)) # Lease!NoMarker /\ ~Lease!Return(q, FALSE)
    <3>1. /\ markers' = markers
          /\ proc' = [proc EXCEPT ![q].pc = "snapshot", ![q].path = Lease!ClaimPath(q),
                       ![q].depth = @ + 1,
                       ![q].callers = Append(@, [path |-> proc[q].path,
                                                 depth |-> proc[q].depth + 1])]
      BY <1>8, <2>5 DEF Lease!ClaimMarker
    <3>2. /\ proc'[q].pc = "snapshot" /\ proc'[q].entering = 0 /\ proc'[q].running = 0
          /\ \A p \in alive : p # q => proc'[p] = proc[p]
      BY <1>2, <2>1, <3>1 DEF Runner
    <3>. QED  BY <2>4, <2>5, <3>1, <3>2
  <2>. QED  BY <1>8, <2>2, <2>3, <2>5 DEF Lease!ClaimMarker
<1>9. ASSUME NEW q \in Processes, Lease!RecheckMarker(q) PROVE MarkerInv'
  <2>1. /\ q \in alive /\ alive' = alive /\ markers' = markers /\ proc[q].pc = "recheck" /\ Safe(q)
    BY <1>2, <1>9 DEF Lease!RecheckMarker, Lease!Step
  <2>2. /\ proc'[q].pc = IF Lease!At(proc[q].path) = proc[q].snap THEN "unlink" ELSE "release"
        /\ proc'[q].snap = proc[q].snap /\ proc'[q].path = proc[q].path
        /\ proc'[q].claim = proc[q].claim
        /\ proc'[q].entering = proc[q].entering /\ proc'[q].running = proc[q].running
        /\ \A p \in alive : p # q => proc'[p] = proc[p]
    BY <1>2, <1>9 DEF Lease!RecheckMarker, Runner
  <2>3. Safe(q)'
    BY <2>1, <2>2 DEF Safe, Lease!At, Lease!ClaimPath
  <2>. QED  BY <1>3, <2>1, <2>2, <2>3 DEF FileStep
<1>10. ASSUME NEW q \in Processes, Lease!UnlinkMarker(q) PROVE MarkerInv'
  <2>1. /\ q \in alive /\ alive' = alive /\ proc[q].pc = "unlink" /\ Safe(q)
        /\ markers' = Lease!Without(proc[q].path)
    BY <1>2, <1>10 DEF Lease!UnlinkMarker, Lease!Step
  <2>2. /\ proc'[q].pc = "release" /\ proc'[q].snap = proc[q].snap
        /\ proc'[q].path = proc[q].path /\ proc'[q].claim = proc[q].claim
        /\ proc'[q].entering = proc[q].entering /\ proc'[q].running = proc[q].running
        /\ \A p \in alive : p # q => proc'[p] = proc[p]
    BY <1>2, <1>10 DEF Lease!UnlinkMarker, Runner
  \* The claim is not what is unlinked: that is a marker of a dead process.
  <2>3. Lease!ClaimPath(q) # proc[q].path
    BY <2>1 DEF Safe
  <2>4. Lease!At(Lease!ClaimPath(q))' = Lease!At(Lease!ClaimPath(q))
    BY <2>1, <2>2, <2>3 DEF Lease!At, Lease!Without, Lease!ClaimPath
  <2>5. Safe(q)'
    BY <2>1, <2>2, <2>4 DEF Safe
  <2>. QED  BY <1>3, <2>1, <2>2, <2>5 DEF FileStep
<1>11. ASSUME NEW q \in Processes, Lease!ReleaseClaim(q) PROVE MarkerInv'
  <2>1. /\ q \in alive /\ alive' = alive /\ proc[q].claim.owner = q
        /\ proc[q].entering = 0 /\ proc[q].running = 0
        /\ Lease!Return(q, proc[q].taken)
    BY <1>2, <1>11 DEF Lease!ReleaseClaim, Lease!Step, Safe
  <2>3. proc[q].taken \in BOOLEAN
    BY <1>2 DEF Runner
  <2>2. FileStep(q)
    BY <1>11, <2>1 DEF Lease!ReleaseClaim, Lease!RemoveOwn, FileStep
  <2>. QED  BY <1>3, <2>1, <2>2, <2>3, ReturnIdles
<1>12. ASSUME NEW q \in Processes,
              Lease!BeginOperation(q) \/ Lease!VerifyOperation(q) \/ Lease!EndOperation(q)
                \/ Lease!ReleaseLease(q)
       PROVE  MarkerInv'
  <2>1. q \in alive /\ alive' = alive /\ markers' = markers /\ Safe(q) /\ proc[q] \in Runner
    BY <1>2, <1>12 DEF Lease!BeginOperation, Lease!VerifyOperation, Lease!EndOperation,
       Lease!ReleaseLease, Lease!Step
  <2>2. proc[q].pc = "held"
    BY <1>12, <2>1
    DEF Lease!BeginOperation, Lease!VerifyOperation, Lease!EndOperation, Lease!ReleaseLease,
       Lease!Step, Safe, Runner
  <2>3. /\ proc'[q].pc = "held" /\ proc'[q].lock = proc[q].lock
        /\ \A p \in alive : p # q => proc'[p] = proc[p]
    BY <1>2, <1>12, <2>2
    DEF Lease!BeginOperation, Lease!VerifyOperation, Lease!EndOperation, Lease!ReleaseLease, Runner
  <2>4. Safe(q)'
    BY <2>1, <2>2, <2>3 DEF Safe, Lease!At, Lease!LeasePath
  <2>. QED  BY <1>3, <2>1, <2>3, <2>4 DEF FileStep
<1>13. ASSUME NEW q \in Processes, Lease!DrainLease(q) PROVE MarkerInv'
  <2>1. /\ q \in alive /\ alive' = alive /\ proc[q].lock.owner = q /\ proc[q] \in Runner
        /\ proc[q].entering + proc[q].running = 0
    BY <1>2, <1>13 DEF Lease!DrainLease, Lease!Step, Safe
  <2>2. proc[q].entering = 0 /\ proc[q].running = 0
    BY <2>1 DEF Runner
  <2>3. /\ proc'[q].pc = "removed" /\ proc'[q].entering = 0 /\ proc'[q].running = 0
        /\ \A p \in alive : p # q => proc'[p] = proc[p]
    BY <1>2, <1>13, <2>2 DEF Lease!DrainLease, Lease!Goto, Runner
  <2>4. FileStep(q)
    BY <1>13, <2>1 DEF Lease!DrainLease, Lease!RemoveOwn, FileStep
  <2>. QED  BY <1>3, <2>1, <2>3, <2>4, Idle
<1>14. ASSUME NEW q \in Processes, Lease!ForgetLease(q) \/ Lease!Crash(q) PROVE MarkerInv'
  <2>1. q \in alive /\ alive' \subseteq alive /\ markers' = markers
    BY <1>14 DEF Lease!ForgetLease, Lease!Crash, Lease!Step
  <2>2. /\ proc'[q].pc = "free" /\ proc'[q].entering = 0 /\ proc'[q].running = 0
        /\ \A p \in alive : p # q => proc'[p] = proc[p]
    BY <1>2, <1>14 DEF Lease!ForgetLease, Lease!Crash, Lease!Becomes, Lease!Free
  <2>. QED  BY <1>3, <2>1, <2>2, Idle DEF FileStep
<1>. QED
  BY <1>1, <1>4, <1>5, <1>6, <1>7, <1>8, <1>9, <1>10, <1>11, <1>12, <1>13, <1>14 DEF Lease!Next

-----------------------------------------------------------------------------
(***************************************************************************)
(* What the composition promises.                                          *)
(***************************************************************************)
LEMMA Parts ==
  /\ MCInit => Retention!Init /\ Lease!Init
  /\ [MCNext]_allVars => [Retention!Next]_Retention!vars /\ [Lease!Next]_Lease!vars
<1>1. ASSUME [MCNext]_allVars PROVE [Retention!Next]_Retention!vars
  BY <1>1
  DEF MCNext, InArchive, InRetention, InLease, allVars, retentionVars, leaseVars,
      Retention!vars, Retention!disk
<1>2. ASSUME [MCNext]_allVars PROVE [Lease!Next]_Lease!vars
  BY <1>2
  DEF MCNext, InArchive, InRetention, InLease, allVars, retentionVars, leaseVars, Lease!vars
<1>. QED  BY <1>1, <1>2 DEF MCInit

LEMMA RetentionIsKept == MCSpec => [](ExtendedHolds /\ AuditHolds)
<1>. QED  BY Parts, RetentionInit, RetentionStep, RetentionInvHolds, PTL DEF MCSpec

\* An extension whose audit is durable is kept: whatever write failed after it
\* and wherever the process stopped, no sweep deletes the archive before the
\* deadline that it granted (#extendRetentionLocked, #recoverPendingRetentionExtension).
THEOREM ExtensionsHold == MCSpec => []ExtendedHolds
<1>. QED  BY RetentionIsKept, PTL

\* Nobody is told of an extension, an export or a review that is not in the
\* part of the journal its head vouches for; a command is audited once, however
\* often it is retried; and plaintext lies only under a registration that
\* deletion and recovery find (#appendContentFreeAudit, #withManagedExportLeaseLocked).
THEOREM AuditIsKept == MCSpec => []AuditHolds
<1>. QED  BY RetentionIsKept, PTL

LEMMA MarkersHold == MCSpec => [](Lease!TypeOK /\ MarkerInv)
<1>1. Lease!Init => Lease!TypeOK /\ MarkerInv
  <2>1. Lease!Init => MarkerInv
    BY DEF Lease!Init, MarkerInv, Safe, Lease!Free
  <2>. QED  BY <2>1, FreeType DEF Lease!Init, Lease!TypeOK, Runner, Call
<1>. QED  BY <1>1, Parts, LeaseTypeStep, MarkerStep, PTL DEF MCSpec

\* The marker of a live process that holds the lease is not taken from it,
\* however many processes reclaim, release and crash meanwhile
\* (#reclaimStaleLockMarker, #releaseEvidenceRootLease).
THEOREM LeasesAreMarked == MCSpec => []Lease!LeaseIsMarked
<1>1. MarkerInv => Lease!LeaseIsMarked
  BY DEF MarkerInv, Safe, Lease!LeaseIsMarked
<1>. QED  BY <1>1, MarkersHold, PTL

\* Operations of two processes never touch the roots together
\* (#beginOwnedRootLeaseOperation): who runs one holds the lease.
THEOREM RootsAreExclusive == MCSpec => []Lease!RootsExclusive
<1>1. Lease!TypeOK /\ MarkerInv => Lease!RootsExclusive
  <2>. SUFFICES ASSUME Lease!TypeOK, MarkerInv, NEW p \in alive, NEW q \in alive,
                       proc[p].running > 0, proc[q].running > 0
                PROVE  p = q
    BY DEF Lease!RootsExclusive
  <2>1. Safe(p) /\ Safe(q)
    BY DEF MarkerInv
  <2>2. proc[p].pc = "held" /\ proc[q].pc = "held"
    BY <2>1 DEF Safe
  <2>. QED  BY <2>1, <2>2 DEF Safe
<1>. QED  BY <1>1, MarkersHold, PTL

\* The lease as the operations of a store rely on it: with its types, no two
\* processes on the roots, and every live holder marked as such.
THEOREM LeaseIsKept == MCSpec => []LeaseHolds
<1>. QED
  BY MarkersHold, LeasesAreMarked, RootsAreExclusive, PTL DEF LeaseHolds, Lease!LeaseHolds
===============================================================================
