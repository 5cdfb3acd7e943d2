----------------------- MODULE EvidenceArchiveProofs -----------------------
(***************************************************************************)
(* The archive of a session implements its governance, a sealed archive is *)
(* whole, a deleted one is gone and a recovered one is closed, for any     *)
(* number of records, faults and crashes.                                  *)
(***************************************************************************)
EXTENDS EvidenceArchive, SequenceTheorems, NaturalsInduction, WellFoundedInduction, TLAPS

-----------------------------------------------------------------------------
(***************************************************************************)
(* Who runs.  One operation holds the lock of the archive, and a process   *)
(* that was restarted records nothing.                                     *)
(***************************************************************************)
Closing == op.kind \in {"finalize", "recover"}

OpInv ==
  /\ op.kind = "none" => op = NoOp
  /\ Closing => receipt = "none"
  /\ op.kind = "delete" => receipt = "pending"
  /\ op.kind = "delete" <=> op.pc \in {"key", "files", "audit", "receipt"}
  /\ op.kind = "none" <=> op.pc = "none"
  /\ op.pc = "start" => op.kind = "finalize"
  /\ op.kind = "finalize" => crashes = 0 /\ answer = "none"
  /\ op.kind = "recover" => process = "recovering" /\ answer \in {"none", "rejected"}
  /\ process = "recovering" => op.kind \in {"recover", "delete"}
  /\ process = "down" => op.kind = "none"

MemInv ==
  /\ mem.stage = "none" => mem = NoState
  /\ mem.stage = "initializing" =>
       /\ mem.side = Fresh /\ mem.count = 0
       /\ ~mem.appending /\ ~mem.closed /\ ~mem.fenced
  /\ Closing /\ op.pc # "start" => mem.stage = "ready"
  /\ mem.appending => mem.stage = "ready" /\ mem.queue # <<>>
  /\ mem.closed => mem.side.phase # "active"
  /\ crashes = 0 => process = "serving"
  /\ crashes > 0 => entering = 0 /\ mem.queue = <<>> /\ mem.stage # "initializing"

(***************************************************************************)
(* What the sidecar says while memory is ahead of it.                      *)
(***************************************************************************)
Unasked == crashes = 0 /\ answer = "none" /\ op.pc \in {"none", "start"} /\ receipt = "none"

PhaseInv ==
  /\ receipt = "none" /\ side.phase = "none" => side = NoSide
  /\ receipt = "none" /\ mem.stage = "ready" =>
       /\ side.phase # "none"
       /\ mem.side.phase = "active" => side.phase = "active"
  /\ Unasked => /\ side.phase \in {"none", "active"} /\ archive = <<>>
                /\ mem.side.phase \in {"none", "active"}
  /\ receipt = "none" /\ answer = "sealed" => side.phase = "sealed"
  /\ receipt = "none" /\ answer = "failed" => side.phase = "FINALIZATION_FAILED"
  /\ op.pc = "request" => side.phase = "active" /\ mem.side.phase = "finalizing"
  /\ op.pc = "tail" => side.phase = "finalizing" /\ mem.side.phase = "finalizing"
  /\ op.pc = "rebuild" =>
       /\ side.phase \in {"active", "finalizing", "sealed"}
       /\ mem.side.phase \in {"finalizing", "sealed"}
       /\ side.phase = "active" => mem.side.phase = "finalizing"
       /\ side.phase = "sealed" => mem.side.phase = "sealed"
  /\ op.pc \in {"rescan", "manifest", "seal", "promote"} =>
       side.phase \in {"finalizing", "sealed"} /\ mem.side.phase = side.phase
  /\ op.pc = "mark" => side.phase \in {"finalizing", "sealed"} /\ mem.side.phase = "sealed"
  /\ op.pc = "sealed" => side.phase = "sealed" /\ mem.side.phase = "sealed"
  /\ op.pc = "fail" => side.phase # "none" /\ mem.side.phase = "FINALIZATION_FAILED"

(***************************************************************************)
(* A deletion and the records that are still on their way.                 *)
(***************************************************************************)
Recording == mem.stage = "ready" /\ ~mem.closed
KeyGone == receipt = "completed" \/ op.pc \in {"files", "audit", "receipt"}
FilesGone == receipt = "completed" \/ op.pc \in {"audit", "receipt"}

DeletionInv ==
  /\ receipt # "none" /\ entering # 0 => ~Recording /\ mem.stage # "initializing"
  /\ KeyGone =>
       /\ mem.stage = "ready" /\ mem.queue # <<>> => mem.closed \/ mem.fenced
       /\ mem.appending => mem.fenced
       /\ entering # 0 \/ mem.stage = "initializing" => side.phase # "active"
  /\ FilesGone /\ process # "down" =>
       archive = <<>> /\ (spool = <<>> \/ landing)

(***************************************************************************)
(* Recovery.                                                               *)
(***************************************************************************)
Ended == {"none", "sealed", "FINALIZATION_FAILED"}

RecoveryInv ==
  /\ crashes > 0 /\ faults = 0 /\ process = "serving" =>
       side.phase \in Ended /\ mem.side.phase \in Ended
  /\ process = "down" => mem = NoState
  /\ process = "recovering" /\ op.kind = "delete" =>
       mem = NoState /\ (op.pc # "key" => side.phase = "none")

(***************************************************************************)
(* The ledger.                                                             *)
(***************************************************************************)
Rising(file) ==
  \A i, j \in DOMAIN file :
    i < j /\ IsRecord(file[i]) /\ IsRecord(file[j]) => file[i].n < file[j].n
Below(file, n) ==
  \A i \in DOMAIN file : IsRecord(file[i]) => 0 < file[i].n /\ file[i].n < n

NumberInv ==
  /\ Rising(spool) /\ Below(spool, next)
  /\ entering # 0 => entering < next /\ Below(spool, entering) /\ mem.count < entering
  /\ mem.count < next
  /\ \A k \in DOMAIN mem.queue :
       /\ mem.queue[k] < next /\ Below(spool, mem.queue[k]) /\ mem.count < mem.queue[k]
       /\ entering # 0 => mem.queue[k] < entering
  /\ \A k, l \in DOMAIN mem.queue : k < l => mem.queue[k] < mem.queue[l]

Noted(file) == \E i \in DOMAIN file : IsRecord(file[i])
Plain(file) == \A i \in DOMAIN file : IsRecord(file[i]) \/ file[i] = Torn

LedgerInv ==
  receipt = "none" =>
    /\ acked \subseteq Ids(spool) \/ archive # <<>>
    /\ before \subseteq acked
    /\ archive # <<>> =>
         Verified(archive) /\ Rising(archive) /\ before \subseteq Ids(archive) /\ Noted(archive)
    /\ side.phase = "sealed" \/ mem.side.phase = "sealed" => archive # <<>>
    /\ side.ready \/ mem.side.ready => Noted(spool) \/ archive # <<>>
    /\ side.phase \in {"finalizing", "sealed"} => side.ready
    /\ mem.side.phase \in {"finalizing", "sealed"} => mem.side.ready
    /\ side.phase \in {"none", "active"} => Plain(spool)

ArchiveInv ==
  /\ TypeOK /\ OpInv /\ MemInv /\ PhaseInv /\ DeletionInv /\ RecoveryInv /\ NumberInv /\ LedgerInv

-----------------------------------------------------------------------------
(***************************************************************************)
(* Ledgers.                                                                *)
(***************************************************************************)

LEMMA LeastNumber ==
  ASSUME NEW T, T \subseteq Nat, T # {}
  PROVE  \E n \in T : \A m \in T : n <= m
<1>1. PICK n \in T : \A m \in T : ~(<<m, n>> \in OpToRel(<, Nat))
  BY NatLessThanWellFounded, WFMin, Zenon
<1>2. ASSUME NEW m \in T, m < n PROVE FALSE
  BY <1>1, <1>2 DEF OpToRel
<1>3. \A m \in T : ~(m < n)
  BY <1>2
<1>4. n \in T /\ \A m \in T : m \in Nat
  BY <1>1
<1>. QED  BY <1>3, <1>4

LEMMA LineType ==
  ASSUME NEW file \in Seq(Lines)
  PROVE  /\ DOMAIN file = 1 .. Len(file) /\ Len(file) \in Nat
         /\ \A i \in DOMAIN file : file[i] \in Lines /\ file[i].n \in 0 .. MaxRecords
<1>1. DOMAIN file = 1 .. Len(file) /\ Len(file) \in Nat /\ \A i \in DOMAIN file : file[i] \in Lines
  OBVIOUS
<1>2. \A l \in Lines : l.n \in 0 .. MaxRecords
  BY DEF Lines
<1>. QED  BY <1>1, <1>2

(* A ledger begins with as many records as it is said to. *)
LEMMA RecordCountIs ==
  ASSUME NEW file \in Seq(Lines)
  PROVE  /\ RecordCount(file) \in 0 .. Len(file)
         /\ \A i \in 1 .. RecordCount(file) : IsRecord(file[i])
         /\ RecordCount(file) < Len(file) => ~IsRecord(file[RecordCount(file) + 1])
<1>. DEFINE T == {n \in Nat : n <= Len(file) /\ (n < Len(file) => ~IsRecord(file[n + 1]))}
<1>1. Len(file) \in T /\ T \subseteq Nat /\ Len(file) \in Nat
  OBVIOUS
<1>2. PICK n \in T : \A m \in T : n <= m
  BY <1>1, LeastNumber
<1>3. n \in Nat /\ n <= Len(file) /\ (n < Len(file) => ~IsRecord(file[n + 1]))
  BY <1>2
<1>4. \A i \in 1 .. n : IsRecord(file[i])
  <2>. SUFFICES ASSUME NEW i \in 1 .. n, ~IsRecord(file[i]) PROVE FALSE
    OBVIOUS
  <2>1. i - 1 \in T
    BY <1>1, <1>3
  <2>2. n <= i - 1
    BY <1>2, <2>1
  <2>. QED  BY <1>1, <1>3, <2>2
<1>. HIDE DEF T
<1>5. \E m \in 0 .. Len(file) :
        /\ \A i \in 1 .. m : IsRecord(file[i])
        /\ m < Len(file) => ~IsRecord(file[m + 1])
  BY <1>1, <1>3, <1>4
<1>. QED  BY <1>5 DEF RecordCount

LEMMA RecordsAre ==
  ASSUME NEW file \in Seq(Lines)
  PROVE  /\ Records(file) \in Seq(Lines)
         /\ Len(Records(file)) = RecordCount(file)
         /\ \A i \in 1 .. RecordCount(file) : Records(file)[i] = file[i] /\ IsRecord(file[i])
<1>1. /\ RecordCount(file) \in 0 .. Len(file)
      /\ \A i \in 1 .. RecordCount(file) : IsRecord(file[i])
  BY RecordCountIs
<1>2. Len(file) \in Nat /\ \A i \in 1 .. RecordCount(file) : file[i] \in Lines
  BY <1>1
<1>3. /\ Records(file) \in Seq(Lines)
      /\ Len(Records(file)) = IF 1 <= RecordCount(file) THEN RecordCount(file) - 1 + 1 ELSE 0
      /\ \A i \in 1 .. RecordCount(file) - 1 + 1 : Records(file)[i] = file[1 + i - 1]
  BY <1>1, <1>2, SubSeqProperties DEF Records
<1>. QED  BY <1>1, <1>2, <1>3

(* In a readable ledger the records are the lines that it begins with. *)
LEMMA ReadableIs ==
  ASSUME NEW file \in Seq(Lines), Readable(file)
  PROVE  \A i \in DOMAIN file : IsRecord(file[i]) <=> i <= RecordCount(file)
<1>1. /\ RecordCount(file) \in 0 .. Len(file)
      /\ \A i \in 1 .. RecordCount(file) : IsRecord(file[i])
      /\ RecordCount(file) < Len(file) => ~IsRecord(file[RecordCount(file) + 1])
  BY RecordCountIs
<1>2. DOMAIN file = 1 .. Len(file) /\ Len(file) \in Nat
  OBVIOUS
<1>3. ASSUME NEW i \in DOMAIN file, IsRecord(file[i]), i > RecordCount(file) PROVE FALSE
  <2>1. RecordCount(file) + 1 \in DOMAIN file /\ RecordCount(file) < Len(file)
    BY <1>1, <1>2, <1>3
  <2>2. RecordCount(file) + 1 < i
    BY <1>1, <1>2, <1>3, <2>1
  <2>. QED  BY <1>1, <1>3, <2>1, <2>2 DEF Readable
<1>. QED  BY <1>1, <1>2, <1>3

LEMMA IdsAre ==
  ASSUME NEW file, NEW i
  PROVE  i \in Ids(file) <=> \E k \in DOMAIN file : IsRecord(file[k]) /\ file[k].n = i
BY DEF Ids, Range

(* Every record of a ledger that rises has at least its place as its number. *)
LEMMA RisingCounts ==
  ASSUME NEW file \in Seq(Lines), Rising(file), NEW n, Below(file, n)
  PROVE  \A i \in 1 .. RecordCount(file) : file[i].n >= i
<1>. DEFINE T == {i \in 1 .. RecordCount(file) : ~(file[i].n >= i)}
<1>1. /\ RecordCount(file) \in 0 .. Len(file)
      /\ \A i \in 1 .. RecordCount(file) : IsRecord(file[i])
  BY RecordCountIs
<1>2. /\ DOMAIN file = 1 .. Len(file) /\ Len(file) \in Nat
      /\ \A i \in DOMAIN file : file[i].n \in Int
  BY LineType, ArchiveAssumption DEF ArchiveAssumption
<1>3. SUFFICES ASSUME T # {} PROVE FALSE
  BY <1>1
<1>4. PICK i \in T : \A m \in T : i <= m
  <2>1. T \subseteq Nat
    BY <1>1
  <2>. QED  BY <1>3, <2>1, LeastNumber
<1>5. i \in 1 .. RecordCount(file) /\ i \in DOMAIN file /\ ~(file[i].n >= i)
  BY <1>1, <1>2
<1>6. CASE i = 1
  BY <1>1, <1>2, <1>5, <1>6 DEF Below
<1>7. CASE i > 1
  <2>1. i - 1 \notin T
    BY <1>1, <1>4, <1>5
  <2>2. i - 1 \in 1 .. RecordCount(file) /\ i - 1 \in DOMAIN file
    BY <1>1, <1>2, <1>5, <1>7
  <2>3. file[i - 1].n >= i - 1
    BY <2>1, <2>2
  <2>4. file[i - 1].n < file[i].n
    BY <1>1, <1>5, <2>2 DEF Rising
  <2>. QED  BY <1>2, <1>5, <2>2, <2>3, <2>4
<1>. QED  BY <1>1, <1>5, <1>6, <1>7

(* So a ledger has fewer records than the number of the next one. *)
LEMMA CountIsBelow ==
  ASSUME NEW file \in Seq(Lines), Rising(file), NEW n \in Nat, 0 < n, Below(file, n)
  PROVE  RecordCount(file) < n
<1>1. /\ RecordCount(file) \in 0 .. Len(file)
      /\ \A i \in 1 .. RecordCount(file) : IsRecord(file[i]) /\ file[i].n >= i
  BY RecordCountIs, RisingCounts
<1>2. DOMAIN file = 1 .. Len(file) /\ Len(file) \in Nat /\ \A i \in DOMAIN file : file[i].n \in Int
  BY LineType, ArchiveAssumption DEF ArchiveAssumption
<1>3. CASE RecordCount(file) = 0
  BY <1>3
<1>4. CASE RecordCount(file) > 0
  <2>1. RecordCount(file) \in DOMAIN file /\ RecordCount(file) \in 1 .. RecordCount(file)
    BY <1>1, <1>2, <1>4
  <2>2. file[RecordCount(file)].n >= RecordCount(file) /\ file[RecordCount(file)].n < n
    BY <1>1, <2>1 DEF Below
  <2>. QED  BY <1>1, <1>2, <2>1, <2>2
<1>. QED  BY <1>1, <1>3, <1>4

LEMMA AppendLine ==
  ASSUME NEW file \in Seq(Lines), NEW line \in Lines
  PROVE  /\ Append(file, line) \in Seq(Lines)
         /\ Rising(file) /\ (IsRecord(line) => Below(file, line.n)) => Rising(Append(file, line))
         /\ \A n : Below(file, n) /\ (IsRecord(line) => 0 < line.n /\ line.n < n)
                     => Below(Append(file, line), n)
         /\ Noted(file) => Noted(Append(file, line))
         /\ Ids(file) \subseteq Ids(Append(file, line))
         /\ IsRecord(line) => line.n \in Ids(Append(file, line))
<1>. DEFINE new == Append(file, line)
<1>1. /\ new \in Seq(Lines) /\ Len(file) \in Nat
      /\ DOMAIN file = 1 .. Len(file) /\ DOMAIN new = 1 .. Len(file) + 1
      /\ \A i \in 1 .. Len(file) : new[i] = file[i]
      /\ new[Len(file) + 1] = line
  OBVIOUS
<1>. HIDE DEF new
<1>2. \A i \in DOMAIN new : i \in DOMAIN file \/ i = Len(file) + 1
  BY <1>1
<1>3. ASSUME Rising(file), IsRecord(line) => Below(file, line.n) PROVE Rising(new)
  <2>. SUFFICES ASSUME NEW i \in DOMAIN new, NEW j \in DOMAIN new, i < j,
                       IsRecord(new[i]), IsRecord(new[j])
                PROVE  new[i].n < new[j].n
    BY DEF Rising
  <2>1. i \in DOMAIN file
    BY <1>1
  <2>2. CASE j \in DOMAIN file
    BY <1>1, <1>3, <2>1, <2>2 DEF Rising
  <2>3. CASE j = Len(file) + 1
    BY <1>1, <1>3, <2>1, <2>3 DEF Below
  <2>. QED  BY <1>2, <2>2, <2>3
<1>4. ASSUME NEW n, Below(file, n), IsRecord(line) => 0 < line.n /\ line.n < n
      PROVE  Below(new, n)
  BY <1>1, <1>2, <1>4 DEF Below
<1>5. Noted(file) => Noted(new)
  BY <1>1 DEF Noted
<1>6. Ids(file) \subseteq Ids(new)
  BY <1>1, IdsAre
<1>7. IsRecord(line) => line.n \in Ids(new)
  BY <1>1, IdsAre
<1>. QED  BY <1>1, <1>3, <1>4, <1>5, <1>6, <1>7 DEF new

(* Terminal lines are dropped, records never. *)
LEMMA RecordsKeep ==
  ASSUME NEW file \in Seq(Lines), Readable(file)
  PROVE  /\ \A i \in DOMAIN Records(file) : IsRecord(Records(file)[i])
         /\ Rising(file) => Rising(Records(file))
         /\ \A n : Below(file, n) => Below(Records(file), n)
         /\ Noted(file) => Noted(Records(file))
         /\ Ids(file) \subseteq Ids(Records(file))
<1>. DEFINE new == Records(file)
            m == RecordCount(file)
<1>1. /\ new \in Seq(Lines) /\ m \in 0 .. Len(file) /\ Len(file) \in Nat
      /\ DOMAIN new = 1 .. m /\ DOMAIN file = 1 .. Len(file)
      /\ \A i \in 1 .. m : new[i] = file[i] /\ IsRecord(file[i])
  BY RecordCountIs, RecordsAre
<1>2. \A i \in DOMAIN file : IsRecord(file[i]) <=> i <= m
  BY ReadableIs
<1>. HIDE DEF new, m
<1>3. \A i \in DOMAIN new : i \in DOMAIN file /\ new[i] = file[i]
  BY <1>1
<1>4. \A i \in DOMAIN file : IsRecord(file[i]) => i \in DOMAIN new
  BY <1>1, <1>2
<1>5. Rising(file) => Rising(new)
  BY <1>3 DEF Rising
<1>6. \A n : Below(file, n) => Below(new, n)
  BY <1>3 DEF Below
<1>7. Noted(file) => Noted(new)
  BY <1>3, <1>4 DEF Noted
<1>8. Ids(file) \subseteq Ids(new)
  BY <1>3, <1>4, IdsAre
<1>. QED  BY <1>1, <1>5, <1>6, <1>7, <1>8 DEF new

(* What a verified ledger ends with. *)
LEMMA VerifiedIs ==
  ASSUME NEW file \in Seq(Lines), Verified(file)
  PROVE  /\ Len(file) = RecordCount(file) + 2
         /\ \A i \in 1 .. RecordCount(file) : IsRecord(file[i])
         /\ file[RecordCount(file) + 1] = Manifest(RecordCount(file))
         /\ file[RecordCount(file) + 2] = Seal(RecordCount(file))
         /\ RecordCount(file) \in Nat
<1>. DEFINE m == RecordCount(file)
            end == <<Manifest(m), Seal(m)>>
            S == Lines \cup {Manifest(m), Seal(m)}
<1>1. /\ Records(file) \in Seq(S) /\ Len(Records(file)) = m
      /\ m \in 0 .. Len(file) /\ \A i \in 1 .. m : IsRecord(file[i])
  BY RecordsAre, RecordCountIs
<1>2. m \in Nat
  BY <1>1
<1>3. end \in Seq(S) /\ Len(end) = 2 /\ end[1] = Manifest(m) /\ end[2] = Seal(m)
  OBVIOUS
<1>4. file = Records(file) \o end
  BY <1>1 DEF Verified
<1>. HIDE DEF end, m, S
<1>5. /\ Len(Records(file) \o end) = Len(Records(file)) + Len(end)
      /\ \A i \in 1 .. Len(Records(file)) + Len(end) :
           (Records(file) \o end)[i] = IF i <= Len(Records(file)) THEN Records(file)[i]
                                       ELSE end[i - Len(Records(file))]
  BY <1>1, <1>3, ConcatProperties
<1>6. file[m + 1] = end[1] /\ file[m + 2] = end[2]
  BY <1>1, <1>2, <1>3, <1>4, <1>5
<1>. QED  BY <1>1, <1>2, <1>3, <1>4, <1>5, <1>6 DEF m

-----------------------------------------------------------------------------
(***************************************************************************)
(* Types.                                                                  *)
(***************************************************************************)
LEMMA Constants ==
  /\ NoSide \in Sides /\ Fresh \in Sides /\ NoState \in Memories /\ NoOp \in Holders
  /\ 0 \in 0 .. MaxRecords
<1>1. NoSide \in Sides /\ Fresh \in Sides
  BY DEF NoSide, Fresh, Sides
<1>2. NoOp \in Holders
  BY DEF NoOp, Holders
<1>3. 0 \in 0 .. MaxRecords /\ <<>> \in Seq(1 .. MaxRecords)
  BY ArchiveAssumption DEF ArchiveAssumption
<1>4. NoState \in Memories
  BY <1>1, <1>3 DEF NoState, Memories
<1>. QED  BY <1>1, <1>2, <1>3, <1>4

LEMMA LineIs ==
  /\ Torn \in Lines
  /\ \A i \in 1 .. MaxRecords : Record(i) \in Lines
  /\ \A n \in 0 .. MaxRecords : Manifest(n) \in Lines /\ Seal(n) \in Lines
  /\ \A n : /\ IsRecord(Record(n)) /\ ~IsRecord(Manifest(n)) /\ ~IsRecord(Seal(n))
            /\ Record(n).n = n
  /\ ~IsRecord(Torn)
  BY ArchiveAssumption DEF ArchiveAssumption, Torn, Record, Manifest, Seal, Lines, IsRecord

(* A state that was loaded says what the sidecar says. *)
LEMMA LoadedIs ==
  /\ Loaded.stage = "ready" /\ Loaded.side = side /\ Loaded.queue = <<>>
  /\ Loaded.appending = FALSE /\ Loaded.failure = FALSE /\ Loaded.fenced = FALSE
  /\ Loaded.closed = (side.phase # "active")
  /\ Loaded.count = IF side.phase = "active" THEN Len(spool) ELSE 0
  BY DEF Loaded, NoState

LEMMA LoadableCounts ==
  ASSUME TypeOK, Rising(spool), Loadable
  PROVE  \A n \in Nat : 0 < n /\ Below(spool, n) => Loaded.count < n
<1>. SUFFICES ASSUME NEW n \in Nat, 0 < n, Below(spool, n) PROVE Loaded.count < n
  OBVIOUS
<1>1. spool \in Seq(Lines) /\ Loaded.count = IF side.phase = "active" THEN Len(spool) ELSE 0
  BY LoadedIs DEF TypeOK
<1>2. CASE side.phase = "active" /\ spool # <<>>
  <2>1. Records(spool) = spool
    BY <1>2 DEF Loadable
  <2>2. Len(spool) = RecordCount(spool)
    BY <1>1, <2>1, RecordsAre
  <2>. QED  BY <1>1, <1>2, <2>2, CountIsBelow
<1>3. CASE side.phase = "active" /\ spool = <<>>
  BY <1>1, <1>3
<1>4. CASE side.phase # "active"
  BY <1>1, <1>4
<1>. QED  BY <1>2, <1>3, <1>4

LEMMA LoadedType ==
  ASSUME TypeOK, NumberInv, Loadable
  PROVE  Loaded \in Memories
<1>1. next \in Nat /\ 0 < next /\ next <= MaxRecords + 1
  BY ArchiveAssumption DEF TypeOK, ArchiveAssumption
<1>2. Loaded.count < next
  BY <1>1, LoadableCounts DEF NumberInv
<1>3. Len(spool) \in Nat
  BY DEF TypeOK
<1>4. Loaded.count \in 0 .. MaxRecords
  BY <1>1, <1>2, <1>3, LoadedIs, ArchiveAssumption DEF ArchiveAssumption
<1>5. ASSUME NEW c \in 0 .. MaxRecords, NEW b \in BOOLEAN, NEW d \in Sides
      PROVE  [NoState EXCEPT !.stage = "ready", !.side = d, !.closed = b, !.count = c] \in Memories
  BY Constants DEF Memories
<1>6. side \in Sides /\ (side.phase # "active") \in BOOLEAN
  BY DEF TypeOK
<1>7. Loaded.count = IF side.phase = "active" THEN Len(spool) ELSE 0
  BY LoadedIs
<1>. QED  BY <1>4, <1>5, <1>6, <1>7 DEF Loaded

(***************************************************************************)
(* A closing that goes wrong fails, or is rebuilt.                         *)
(***************************************************************************)
Failing ==
  /\ mem' \in Memories /\ op' \in Holders /\ op'.kind = op.kind
  /\ mem'.stage = mem.stage /\ mem'.queue = mem.queue /\ mem'.count = mem.count
  /\ mem'.appending = mem.appending /\ mem'.failure = mem.failure
  /\ mem.fenced => mem'.fenced
  /\ mem'.side.ready = mem.side.ready
  /\ \/ /\ op'.pc = "fail"
        /\ mem'.side.phase = "FINALIZATION_FAILED" /\ mem'.closed
     \/ /\ op'.pc = "rebuild"
        /\ mem'.side.phase = mem.side.phase /\ mem'.closed = mem.closed
        /\ op.kind = "finalize" => mem.side.phase = "finalizing"

LEMMA FailedSideIs ==
  ASSUME mem \in Memories, NEW b \in BOOLEAN
  PROVE  /\ FailedSide(b) \in Sides /\ FailedSide(b).phase = "FINALIZATION_FAILED"
         /\ FailedSide(b).ready = mem.side.ready
<1>1. mem.side \in Sides
  BY DEF Memories
<1>2. ASSUME NEW k \in {"none", "governed", "immediate"}
      PROVE  LET s == [mem.side EXCEPT !.phase = "FINALIZATION_FAILED", !.kept = k]
             IN  s \in Sides /\ s.phase = "FINALIZATION_FAILED" /\ s.ready = mem.side.ready
  BY <1>1 DEF Sides
<1>3. mem.side.kept \in {"none", "governed", "immediate"}
  BY <1>1 DEF Sides
<1>. QED  BY <1>2, <1>3 DEF FailedSide

LEMMA FailIs ==
  ASSUME mem \in Memories, op \in Holders, StepFails
  PROVE  Failing
<1>1. CASE /\ mem' = [mem EXCEPT !.closed = TRUE, !.fenced = TRUE, !.side = FailedSide(TRUE)]
           /\ Goto("fail")
  <2>1. op' \in Holders /\ op'.kind = op.kind /\ op'.pc = "fail"
    BY <1>1 DEF Goto, Holders
  <2>2. ASSUME NEW s \in Sides, mem' = [mem EXCEPT !.closed = TRUE, !.fenced = TRUE, !.side = s]
        PROVE  /\ mem' \in Memories /\ mem'.side = s /\ mem'.closed /\ mem'.fenced
               /\ mem'.stage = mem.stage /\ mem'.queue = mem.queue /\ mem'.count = mem.count
               /\ mem'.appending = mem.appending /\ mem'.failure = mem.failure
    BY <2>2 DEF Memories
  <2>. QED  BY <1>1, <2>1, <2>2, FailedSideIs DEF Failing
<1>2. CASE /\ Rebuildable
           /\ mem' = [mem EXCEPT !.side.rebuilt = TRUE]
           /\ op' = [op EXCEPT !.pc = "rebuild", !.again = TRUE]
  <2>1. op' \in Holders /\ op'.kind = op.kind /\ op'.pc = "rebuild"
    BY <1>2 DEF Holders
  <2>2. mem.side \in Sides
    BY DEF Memories
  <2>3. /\ mem'.side = [mem.side EXCEPT !.rebuilt = TRUE]
        /\ mem'.stage = mem.stage /\ mem'.queue = mem.queue /\ mem'.count = mem.count
        /\ mem'.appending = mem.appending /\ mem'.failure = mem.failure
        /\ mem'.fenced = mem.fenced /\ mem'.closed = mem.closed
    BY <1>2 DEF Memories
  <2>4. /\ mem'.side \in Sides /\ mem'.side.ready = mem.side.ready
        /\ mem'.side.phase = mem.side.phase
    BY <2>2, <2>3 DEF Sides
  <2>5. mem' \in Memories
    BY <1>2, <2>3, <2>4 DEF Memories
  <2>. QED  BY <1>2, <2>1, <2>3, <2>4, <2>5 DEF Failing, Rebuildable
<1>3. CASE /\ mem' = [mem EXCEPT !.closed = TRUE, !.side = FailedSide(FALSE)]
           /\ Goto("fail")
  <2>1. op' \in Holders /\ op'.kind = op.kind /\ op'.pc = "fail"
    BY <1>3 DEF Goto, Holders
  <2>2. ASSUME NEW s \in Sides, mem' = [mem EXCEPT !.closed = TRUE, !.side = s]
        PROVE  /\ mem' \in Memories /\ mem'.side = s /\ mem'.closed /\ mem'.fenced = mem.fenced
               /\ mem'.stage = mem.stage /\ mem'.queue = mem.queue /\ mem'.count = mem.count
               /\ mem'.appending = mem.appending /\ mem'.failure = mem.failure
    BY <2>2 DEF Memories
  <2>. QED  BY <1>3, <2>1, <2>2, FailedSideIs DEF Failing
<1>. QED  BY <1>1, <1>2, <1>3 DEF StepFails

(* A step is one of these, or changes nothing. *)
Recorder ==
  \/ InitializeState \/ EvictState \/ Persist \/ EnqueuePersist \/ BeginAppend
  \/ RefuseRecord \/ AppendLands \/ AppendFails \/ LateCleanup \/ PreflightRecorder
Closer ==
  \/ FinalizeStart \/ SaveSide \/ FinalizeTail \/ Rescan \/ AppendManifest
  \/ AppendSeal \/ PromoteArchive \/ MarkCancelled \/ FinishSealed \/ StepFaults
Eraser ==
  \/ EraseKey \/ EraseFiles \/ AuditDeletion \/ CompleteDeletion
  \/ (\E byOwner \in BOOLEAN : BeginDeletion(byOwner)) \/ ResumeDeletion \/ DeletionFaults

LEMMA StepKinds ==
  ASSUME [Next]_vars
  PROVE  Recorder \/ Finalize \/ Abort \/ Closer \/ Eraser \/ Crash \/ Recover \/ UNCHANGED vars
  BY DEF Next, Operations, Recorder, Closer, Eraser

(***************************************************************************)
(* Who runs.                                                               *)
(***************************************************************************)
LEMMA OpStep == TypeOK /\ OpInv /\ PhaseInv /\ [Next]_vars => OpInv'
<1>. SUFFICES ASSUME TypeOK, OpInv, PhaseInv, [Next]_vars PROVE OpInv'
  OBVIOUS
<1>. USE DEF OpInv, Closing
<1>1. mem \in Memories /\ op \in Holders
  BY DEF TypeOK
<1>2. CASE UNCHANGED <<op, receipt, crashes, answer, process>>
  BY <1>2
<1>3. CASE Recorder
  <2>1. UNCHANGED <<op, receipt, crashes, answer, process>>
    BY <1>3 DEF Recorder, InitializeState, EvictState, Persist, EnqueuePersist, BeginAppend,
      RefuseRecord, AppendLands, AppendFails, LateCleanup, PreflightRecorder, disk, calls, Fault
  <2>. QED  BY <1>2, <2>1
<1>4. CASE Finalize
  BY <1>4 DEF Finalize, FirstLife, NoOp, disk, calls
<1>5. CASE Abort
  BY <1>2, <1>5 DEF Abort, disk, calls
<1>6. ASSUME Failing, Closing, UNCHANGED <<receipt, crashes, answer, process>> PROVE OpInv'
  BY <1>6, <1>1 DEF Failing, Holders
<1>7. CASE Closer
  <2>1. CASE FinalizeStart
    BY <1>1, <1>6, <2>1, FailIs DEF FinalizeStart, Holds, Goto, opVars, Holders
  <2>2. CASE SaveSide
    BY <1>1, <2>2 DEF SaveSide, AtStep, Goto, NoOp, calls, Holders, TypeOK
  <2>3. CASE FinalizeTail
    BY <1>1, <1>6, <2>3, FailIs DEF FinalizeTail, Holds, Goto, opVars, Holders
  <2>4. CASE Rescan
    BY <1>1, <1>6, <2>4, FailIs DEF Rescan, AtStep, Goto, opVars, Holders
  <2>5. CASE AppendManifest
    BY <1>1, <1>6, <2>5, FailIs DEF AppendManifest, AtStep, Goto, opVars, Holders
  <2>6. CASE AppendSeal
    BY <1>1, <1>6, <2>6, FailIs DEF AppendSeal, AtStep, Goto, opVars, Holders
  <2>7. CASE PromoteArchive
    BY <1>1, <1>6, <2>7, FailIs DEF PromoteArchive, AtStep, Goto, opVars, Holders
  <2>8. CASE MarkCancelled
    BY <1>1, <1>6, <2>8, FailIs DEF MarkCancelled, AtStep, opVars
  <2>9. CASE FinishSealed
    BY <1>1, <1>6, <2>9, FailIs DEF FinishSealed, AtStep, NoOp, disk, calls, Cancelled
  <2>10. CASE StepFaults
    BY <1>1, <1>6, <2>10, FailIs DEF StepFaults, NoOp, calls
  <2>. QED  BY <1>7, <2>1, <2>2, <2>3, <2>4, <2>5, <2>6, <2>7, <2>8, <2>9, <2>10 DEF Closer
<1>8. CASE Eraser
  BY <1>1, <1>8 DEF Eraser, EraseKey, EraseFiles, AuditDeletion, CompleteDeletion, BeginDeletion,
    ResumeDeletion, DeletionFaults, Holds, Goto, NoOp, disk, calls, Holders
<1>9. CASE Crash
  BY <1>9 DEF Crash, NoOp
<1>10. CASE Recover
  <2>1. receipt \in {"none", "pending", "completed"} /\ answer \in {"none", "sealed", "failed", "rejected"}
    BY DEF TypeOK
  <2>2. receipt = "none" /\ side.phase \in {"active", "finalizing"} => answer \in {"none", "rejected"}
    BY <2>1 DEF PhaseInv
  <2>3. process = "down" /\ op = NoOp /\ UNCHANGED <<crashes, answer>>
    BY <1>10 DEF Recover
  <2>4. CASE receipt = "pending"
    BY <1>10, <2>3, <2>4 DEF Recover, RecoverWith, disk
  <2>5. CASE receipt = "completed"
    BY <1>10, <2>3, <2>5, <1>2 DEF Recover, NoOp
  <2>6. CASE receipt = "none" /\ side.phase = "finalizing"
    BY <1>10, <2>2, <2>3, <2>6 DEF Recover, RecoverWith, RecoveryPhase, disk
  <2>7. CASE receipt = "none" /\ side.phase = "active"
    BY <1>10, <2>2, <2>3, <2>7 DEF Recover, RecoverWith, RecoveryPhase, disk
  <2>8. CASE receipt = "none" /\ side.phase \notin {"active", "finalizing"}
    BY <1>10, <2>3, <2>8 DEF Recover, RecoveryPhase, NoOp, disk
  <2>. QED  BY <2>1, <2>4, <2>5, <2>6, <2>7, <2>8
<1>11. CASE UNCHANGED vars
  BY <1>2, <1>11 DEF vars
<1>. QED  BY <1>3, <1>4, <1>5, <1>7, <1>8, <1>9, <1>10, <1>11, StepKinds

(***************************************************************************)
(* What the larger steps do to memory and to the sidecar.                  *)
(***************************************************************************)
Stays(m, n) ==
  /\ n.stage = m.stage /\ n.queue = m.queue /\ n.appending = m.appending
  /\ n.failure = m.failure /\ n.fenced = m.fenced

LEMMA WithQueue ==
  ASSUME NEW m \in Memories, NEW q \in Seq(1 .. MaxRecords)
  PROVE  LET n == [m EXCEPT !.queue = q]
         IN  /\ n \in Memories /\ n.queue = q
             /\ n.stage = m.stage /\ n.side = m.side /\ n.count = m.count
             /\ n.appending = m.appending /\ n.closed = m.closed
             /\ n.failure = m.failure /\ n.fenced = m.fenced
BY DEF Memories

LEMMA InitializeIs ==
  ASSUME TypeOK, NumberInv, MemInv, InitializeState
  PROVE  /\ mem.stage = "initializing" /\ mem' \in Memories
         /\ UNCHANGED <<process, spool, archive, receipt, calls, op, before, aborted, answer,
                        faults, crashes>>
         /\ \/ /\ Loadable /\ side' = side
               /\ mem'.stage = "ready" /\ mem'.side = side /\ mem'.queue = mem.queue
               /\ mem'.closed = (side.phase # "active") /\ ~mem'.appending /\ ~mem'.fenced
               /\ mem'.count = Loaded.count
            \/ mem' = NoState /\ side' = side
            \/ /\ side = NoSide /\ receipt = "none" /\ side' = Fresh
               /\ mem'.stage = "ready" /\ mem'.side = Fresh /\ mem'.queue = mem.queue
               /\ ~mem'.closed /\ ~mem'.appending /\ ~mem'.fenced /\ mem'.count = 0
<1>1. mem \in Memories /\ mem.queue \in Seq(1 .. MaxRecords)
  BY DEF TypeOK, Memories
<1>2. CASE side # NoSide /\ Loadable
  <2>1. mem' = [Loaded EXCEPT !.queue = mem.queue] /\ side' = side
    BY <1>2 DEF InitializeState
  <2>2. Loaded \in Memories
    BY <1>2, LoadedType
  <2>3. /\ mem' \in Memories /\ mem'.queue = mem.queue /\ mem'.stage = Loaded.stage
        /\ mem'.side = Loaded.side /\ mem'.count = Loaded.count /\ mem'.closed = Loaded.closed
        /\ mem'.appending = Loaded.appending /\ mem'.fenced = Loaded.fenced
    BY <1>1, <2>1, <2>2, WithQueue
  <2>. QED  BY <1>2, <2>1, <2>3, LoadedIs DEF InitializeState
<1>3. CASE side # NoSide /\ ~Loadable
  BY <1>3, Constants DEF InitializeState
<1>4. CASE side = NoSide /\ receipt # "none"
  BY <1>4, Constants DEF InitializeState
<1>5. CASE side = NoSide /\ receipt = "none"
  <2>1. mem' = [mem EXCEPT !.stage = "ready"] /\ side' = Fresh /\ mem.stage = "initializing"
    BY <1>5 DEF InitializeState
  <2>2. /\ mem' \in Memories /\ mem'.stage = "ready" /\ mem'.side = mem.side
        /\ mem'.queue = mem.queue /\ mem'.closed = mem.closed /\ mem'.appending = mem.appending
        /\ mem'.fenced = mem.fenced /\ mem'.count = mem.count
    BY <1>1, <2>1 DEF Memories
  <2>3. mem.side = Fresh /\ ~mem.closed /\ ~mem.appending /\ ~mem.fenced /\ mem.count = 0
    BY <2>1 DEF MemInv
  <2>. QED  BY <1>5, <2>1, <2>2, <2>3 DEF InitializeState
<1>. QED  BY <1>2, <1>3, <1>4, <1>5

(* An enqueued record waits in the state that is there, or in a new one. *)
LEMMA StateIs ==
  ASSUME TypeOK, MemInv
  PROVE  /\ StateForSession \in Memories
         /\ StateForSession.queue = mem.queue /\ StateForSession.appending = mem.appending
         /\ StateForSession.closed = mem.closed /\ StateForSession.fenced = mem.fenced
         /\ StateForSession.count = mem.count
         /\ \/ mem # NoState /\ StateForSession = mem
            \/ /\ mem = NoState
               /\ StateForSession.stage = "initializing" /\ StateForSession.side = Fresh
               /\ mem.queue = <<>> /\ ~mem.appending /\ ~mem.closed /\ ~mem.fenced /\ mem.count = 0
<1>1. CASE mem # NoState
  BY <1>1 DEF StateForSession, TypeOK
<1>2. CASE mem = NoState
  <2>1. StateForSession = [NoState EXCEPT !.stage = "initializing", !.side = Fresh]
    BY <1>2 DEF StateForSession
  <2>3. /\ StateForSession \in Memories
        /\ StateForSession.queue = <<>> /\ ~StateForSession.appending
        /\ ~StateForSession.closed /\ ~StateForSession.fenced /\ StateForSession.count = 0
        /\ StateForSession.stage = "initializing" /\ StateForSession.side = Fresh
    BY <2>1, Constants DEF NoState, Memories
  <2>4. mem.queue = <<>> /\ mem.appending = FALSE /\ mem.closed = FALSE /\ mem.fenced = FALSE
        /\ mem.count = 0
    BY <1>2 DEF NoState
  <2>5. StateForSession.appending = FALSE /\ StateForSession.closed = FALSE
        /\ StateForSession.fenced = FALSE
    BY <2>1 DEF NoState
  <2>. QED  BY <1>2, <2>1, <2>3, <2>4, <2>5
<1>. QED  BY <1>1, <1>2

LEMMA DeletionIs ==
  ASSUME TypeOK, NumberInv, MemInv, NEW byOwner \in BOOLEAN, BeginDeletion(byOwner)
  PROVE  /\ process = "serving" /\ op = NoOp /\ receipt = "none" /\ receipt' = "pending"
         /\ mem.stage # "initializing"
         /\ mem' \in Memories /\ mem'.stage = "ready" /\ mem'.closed
         /\ op'.kind = "delete" /\ op'.pc = "key" /\ op' \in Holders
         /\ mem'.side.phase \in {"sealed", "FINALIZATION_FAILED"}
         /\ side' \in Sides /\ (side' = side \/ side' = mem'.side)
         /\ UNCHANGED <<process, spool, archive, calls, before, aborted, answer, faults, crashes>>
         /\ \/ /\ mem.stage = "ready" /\ mem.queue # <<>>
               /\ mem'.side.phase = mem.side.phase /\ Stays(mem, mem') /\ mem'.count = mem.count
            \/ /\ side.phase = mem'.side.phase
               /\ mem'.queue = <<>> /\ ~mem'.appending /\ mem'.count = 0
<1>. DEFINE known == IF mem.stage = "ready" /\ mem.queue # <<>> THEN mem ELSE Loaded
            marked == [known.side EXCEPT !.audited = TRUE]
<1>1. /\ process = "serving" /\ op = NoOp /\ receipt = "none" /\ receipt' = "pending"
      /\ mem.stage # "initializing" /\ (known = mem \/ Loadable)
      /\ known.side.phase \in {"sealed", "FINALIZATION_FAILED"}
      /\ op' = [kind |-> "delete", pc |-> "key", again |-> FALSE]
      /\ \/ side' = marked /\ mem' = [known EXCEPT !.closed = TRUE, !.side = marked]
         \/ side' = side /\ mem' = [known EXCEPT !.closed = TRUE]
      /\ UNCHANGED <<process, spool, archive, calls, before, aborted, answer, faults, crashes>>
  BY Zenon DEF BeginDeletion
<1>2. \/ mem.stage = "ready" /\ mem.queue # <<>> /\ known = mem
      \/ known = Loaded
  OBVIOUS
<1>3. known \in Memories /\ known.stage = "ready"
  <2>1. CASE known = mem
    <3>1. mem \in Memories
      BY DEF TypeOK
    <3>2. known # Loaded => mem.stage = "ready"
      BY <1>2
    <3>. QED  BY <2>1, <3>1, <3>2, LoadedIs
  <2>2. CASE known = Loaded /\ Loadable
    BY <2>2, LoadedIs, LoadedType
  <2>. QED  BY <1>1, <1>2, <2>1, <2>2
<1>. HIDE DEF known
<1>4. marked \in Sides /\ marked.phase = known.side.phase
  BY <1>3 DEF Memories, Sides
<1>. HIDE DEF marked
<1>5. /\ mem' \in Memories /\ mem'.closed /\ Stays(known, mem') /\ mem'.count = known.count
      /\ mem'.side.phase = known.side.phase
      /\ (side' = side \/ side' = mem'.side)
  <2>1. CASE side' = marked /\ mem' = [known EXCEPT !.closed = TRUE, !.side = marked]
    BY <1>3, <1>4, <2>1 DEF Memories, Stays
  <2>2. CASE side' = side /\ mem' = [known EXCEPT !.closed = TRUE]
    BY <1>3, <2>2 DEF Memories, Stays
  <2>. QED  BY <1>1, <2>1, <2>2
<1>6. op' \in Holders /\ op'.kind = "delete" /\ op'.pc = "key"
  BY <1>1 DEF Holders
<1>7. side' \in Sides
  BY <1>5 DEF TypeOK, Memories
<1>8. CASE mem.stage = "ready" /\ mem.queue # <<>> /\ known = mem
  BY <1>1, <1>3, <1>5, <1>6, <1>7, <1>8 DEF Stays
<1>9. CASE known = Loaded
  <2>1. known.side = side /\ known.queue = <<>> /\ known.appending = FALSE
    BY <1>9, LoadedIs
  <2>2. known.count = 0
    BY <1>1, <1>9, <2>1, LoadedIs
  <2>3. mem'.count = 0 /\ mem'.queue = <<>> /\ ~mem'.appending /\ side.phase = mem'.side.phase
    BY <1>5, <2>1, <2>2 DEF Stays
  <2>4. mem'.stage = "ready"
    BY <1>3, <1>5 DEF Stays
  <2>5. mem'.side.phase \in {"sealed", "FINALIZATION_FAILED"}
    BY <1>1, <1>5
  <2>. QED  BY <1>1, <1>5, <1>6, <1>7, <2>3, <2>4, <2>5
<1>. QED  BY <1>2, <1>8, <1>9

Uncounted == [stage : {"ready"}, side : Sides, count : Nat, queue : Seq(1 .. MaxRecords),
              appending : BOOLEAN, closed : BOOLEAN, failure : BOOLEAN, fenced : BOOLEAN]

LEMMA RecoverIs ==
  ASSUME TypeOK, OpInv, NumberInv, Recover
  PROVE  /\ process = "down" /\ op.kind = "none" /\ mem' \in Memories /\ op' \in Holders
         /\ UNCHANGED <<calls, before, aborted, answer, faults, crashes>>
         /\ \/ /\ receipt = "pending" /\ process' = "recovering"
               /\ op'.kind = "delete" /\ op'.pc = "key" /\ mem' = NoState /\ UNCHANGED disk
            \/ /\ receipt = "completed" /\ process' = "serving" /\ side' = NoSide
               /\ spool' = <<>> /\ archive' = <<>> /\ UNCHANGED <<receipt, mem, op>>
            \/ /\ receipt = "none" /\ side.phase \in {"finalizing", "active"}
               /\ process' = "recovering" /\ op'.kind = "recover" /\ UNCHANGED disk
               /\ mem'.stage = "ready" /\ mem'.queue = <<>> /\ ~mem'.appending /\ mem'.count = 0
               /\ mem'.side.ready = side.ready /\ mem'.closed
               /\ \/ /\ side.phase = "finalizing" /\ op'.pc = "promote"
                     /\ mem'.side.phase = "finalizing"
                  \/ /\ side.phase = "active" /\ op'.pc = "fail"
                     /\ mem'.side.phase = "FINALIZATION_FAILED"
            \/ /\ receipt = "none" /\ side.phase \notin {"finalizing", "active"}
               /\ process' = "serving" /\ UNCHANGED <<disk, mem, op>>
<1>1. /\ process = "down" /\ op.kind = "none" /\ op = NoOp
      /\ UNCHANGED <<calls, before, aborted, answer, faults, crashes>>
      /\ mem \in Memories /\ op \in Holders /\ side \in Sides
      /\ receipt \in {"none", "pending", "completed"}
  BY DEF Recover, OpInv, TypeOK
<1>2. CASE receipt = "pending"
  <2>1. /\ mem' = NoState /\ process' = "recovering" /\ UNCHANGED disk
        /\ op' = [kind |-> "delete", pc |-> "key", again |-> FALSE]
    BY <1>2 DEF Recover, RecoverWith
  <2>2. op' \in Holders /\ op'.kind = "delete" /\ op'.pc = "key"
    BY <2>1 DEF Holders
  <2>. QED  BY <1>1, <1>2, <2>1, <2>2, Constants
<1>3. CASE receipt = "completed"
  BY <1>1, <1>3 DEF Recover
<1>4. CASE receipt = "none" /\ side.phase = "finalizing"
  <2>1. /\ mem' = Loaded /\ process' = "recovering" /\ UNCHANGED disk
        /\ op' = [kind |-> "recover", pc |-> "promote", again |-> archive # <<>>]
    BY <1>4 DEF Recover, RecoverWith, RecoveryPhase
  <2>2. op' \in Holders /\ op'.kind = "recover" /\ op'.pc = "promote"
    BY <2>1 DEF Holders
  <2>3. Loadable
    BY <1>4 DEF Loadable, NoSide
  <2>4. mem' \in Memories
    BY <2>1, <2>3, LoadedType
  <2>5. /\ mem'.stage = "ready" /\ mem'.queue = <<>> /\ ~mem'.appending /\ mem'.count = 0
        /\ mem'.side = side /\ mem'.closed
    BY <1>4, <2>1, LoadedIs
  <2>. QED  BY <1>1, <1>4, <2>1, <2>2, <2>4, <2>5
<1>5. CASE receipt = "none" /\ side.phase = "active"
  <2>. DEFINE kept == IF Readable(spool) \/ side.ready THEN "governed" ELSE "immediate"
  <2>1. /\ process' = "recovering" /\ UNCHANGED disk
        /\ op' = [kind |-> "recover", pc |-> "fail", again |-> FALSE]
        /\ mem' = [Loaded EXCEPT !.closed = TRUE, !.count = 0,
                        !.side.phase = "FINALIZATION_FAILED", !.side.kept = kept]
    BY <1>5 DEF Recover, RecoverWith, RecoveryPhase
  <2>2. op' \in Holders /\ op'.kind = "recover" /\ op'.pc = "fail"
    BY <2>1 DEF Holders
  <2>3. kept \in {"none", "governed", "immediate"}
    OBVIOUS
  <2>. HIDE DEF kept
  <2>4. /\ mem'.stage = Loaded.stage /\ mem'.queue = Loaded.queue
        /\ mem'.appending = Loaded.appending /\ mem'.count = 0 /\ mem'.closed
        /\ mem'.side = [Loaded.side EXCEPT !.phase = "FINALIZATION_FAILED", !.kept = kept]
    BY <2>1 DEF Loaded, NoState
  <2>5. /\ mem'.side \in Sides /\ mem'.side.phase = "FINALIZATION_FAILED"
        /\ mem'.side.ready = side.ready
    <3>1. mem'.side = [side EXCEPT !.phase = "FINALIZATION_FAILED", !.kept = kept]
      BY <2>4, LoadedIs
    <3>. QED  BY <1>1, <2>3, <3>1 DEF Sides
  <2>6. Loaded \in Uncounted
    <3>1. ASSUME NEW c \in Nat, NEW b \in BOOLEAN, NEW d \in Sides
          PROVE  [NoState EXCEPT !.stage = "ready", !.side = d, !.closed = b, !.count = c] \in Uncounted
      BY Constants DEF Memories, Uncounted
    <3>2. Len(spool) \in Nat
      BY DEF TypeOK
    <3>. QED  BY <1>1, <1>5, <3>1, <3>2 DEF Loaded
  <2>7. mem' \in Memories
    <3>1. ASSUME NEW l \in Uncounted, NEW d \in Sides
          PROVE  [l EXCEPT !.closed = TRUE, !.count = 0, !.side = d] \in Memories
      BY Constants DEF Memories, Uncounted
    <3>2. mem' = [Loaded EXCEPT !.closed = TRUE, !.count = 0, !.side = mem'.side]
      BY <2>1, <2>4
    <3>. QED  BY <2>5, <2>6, <3>1, <3>2
  <2>. QED  BY <1>1, <1>5, <2>1, <2>2, <2>4, <2>5, <2>7, LoadedIs
<1>6. CASE receipt = "none" /\ side.phase \notin {"active", "finalizing"}
  BY <1>1, <1>6 DEF Recover, RecoveryPhase
<1>. QED  BY <1>1, <1>2, <1>3, <1>4, <1>5, <1>6

(* The first pending record, and what comes behind it. *)
LEMMA HeadIs ==
  ASSUME TypeOK, mem.queue # <<>>
  PROVE  /\ Head(mem.queue) \in 1 .. MaxRecords /\ Tail(mem.queue) \in Seq(1 .. MaxRecords)
         /\ 1 \in DOMAIN mem.queue /\ Head(mem.queue) = mem.queue[1]
         /\ \A k \in DOMAIN Tail(mem.queue) :
              k + 1 \in DOMAIN mem.queue /\ 1 < k + 1 /\ Tail(mem.queue)[k] = mem.queue[k + 1]
<1>1. mem.queue \in Seq(1 .. MaxRecords)
  BY DEF TypeOK, Memories
<1>2. /\ Head(mem.queue) \in 1 .. MaxRecords /\ Tail(mem.queue) \in Seq(1 .. MaxRecords)
      /\ Len(Tail(mem.queue)) = Len(mem.queue) - 1
      /\ \A k \in 1 .. Len(Tail(mem.queue)) : Tail(mem.queue)[k] = mem.queue[k + 1]
  BY <1>1, HeadTailProperties
<1>3. DOMAIN mem.queue = 1 .. Len(mem.queue) /\ Len(mem.queue) \in Nat /\ Len(mem.queue) # 0
      /\ Head(mem.queue) = mem.queue[1] /\ DOMAIN Tail(mem.queue) = 1 .. Len(Tail(mem.queue))
  BY <1>1, <1>2
<1>. QED  BY <1>2, <1>3

LEMMA NumberTypes ==
  ASSUME TypeOK
  PROVE  /\ next \in Nat /\ 0 < next /\ entering \in Nat /\ mem.count \in Nat
         /\ mem.queue \in Seq(1 .. MaxRecords)
         /\ \A k \in DOMAIN mem.queue : mem.queue[k] \in Nat /\ 0 < mem.queue[k]
         /\ spool \in Seq(Lines) /\ mem \in Memories
<1>1. /\ next \in 1 .. (MaxRecords + 1) /\ entering \in 0 .. MaxRecords
      /\ mem.count \in 0 .. MaxRecords /\ mem.queue \in Seq(1 .. MaxRecords)
      /\ spool \in Seq(Lines) /\ mem \in Memories
  BY DEF TypeOK, Memories
<1>2. \A k \in DOMAIN mem.queue : mem.queue[k] \in 1 .. MaxRecords
  <2>1. ASSUME NEW S, NEW q \in Seq(S) PROVE \A k \in DOMAIN q : q[k] \in S
    OBVIOUS
  <2>. QED  BY <1>1, <2>1
<1>. QED  BY <1>1, <1>2, ArchiveAssumption DEF ArchiveAssumption

(* What an append leaves behind when it does not come to its end. *)
LEMMA RemainsAre ==
  ASSUME NEW file \in Seq(Lines), Rising(file), NEW line \in Lines,
         IsRecord(line) => 0 < line.n /\ Below(file, line.n),
         NEW s \in Remains(file, line)
  PROVE  /\ s \in Seq(Lines) /\ Rising(s)
         /\ \A n : Below(file, n) /\ (IsRecord(line) => line.n < n) => Below(s, n)
         /\ Noted(file) => Noted(s)
         /\ Ids(file) \subseteq Ids(s)
<1>1. Torn \in Lines /\ ~IsRecord(Torn)
  BY LineIs
<1>2. CASE s = file
  BY <1>2
<1>3. CASE s = Append(file, line)
  BY <1>3, AppendLine
<1>4. CASE s = Append(file, Torn)
  BY <1>1, <1>4, AppendLine
<1>. QED  BY <1>2, <1>3, <1>4 DEF Remains

LEMMA PendingIs ==
  ASSUME TypeOK, NumberInv, mem.queue # <<>>
  PROVE  /\ Record(Head(mem.queue)) \in Lines /\ IsRecord(Record(Head(mem.queue)))
         /\ Record(Head(mem.queue)).n = Head(mem.queue)
         /\ 0 < Head(mem.queue) /\ Below(spool, Head(mem.queue)) /\ Head(mem.queue) < next
         /\ mem.count < Head(mem.queue) /\ Head(mem.queue) \in Nat
         /\ Append(spool, Record(Head(mem.queue))) \in Remains(spool, Record(Head(mem.queue)))
<1>1. /\ 1 \in DOMAIN mem.queue /\ Head(mem.queue) = mem.queue[1]
      /\ Head(mem.queue) \in 1 .. MaxRecords
  BY HeadIs
<1>. QED  BY <1>1, LineIs, NumberTypes DEF NumberInv, Remains

(* What a crash leaves of the writes that were on their way. *)
LEMMA InFlightIs ==
  ASSUME TypeOK, MemInv, NumberInv, NEW s \in InFlight
  PROVE  /\ s \in Seq(Lines) /\ Rising(s) /\ Below(s, next)
         /\ Noted(spool) => Noted(s)
         /\ Ids(spool) \subseteq Ids(s)
<1>. DEFINE behind(file) ==
              IF AtStep("manifest") THEN Remains(file, Manifest(mem.count))
              ELSE IF AtStep("seal") THEN Remains(file, Seal(mem.count)) ELSE {file}
<1>1. Manifest(mem.count) \in Lines /\ Seal(mem.count) \in Lines
      /\ ~IsRecord(Manifest(mem.count)) /\ ~IsRecord(Seal(mem.count))
  BY LineIs DEF TypeOK, Memories
<1>2. ASSUME NEW file \in Seq(Lines), Rising(file), Below(file, next), s \in behind(file)
      PROVE  /\ s \in Seq(Lines) /\ Rising(s) /\ Below(s, next)
             /\ Noted(file) => Noted(s)
             /\ Ids(file) \subseteq Ids(s)
  <2>1. \/ s \in Remains(file, Manifest(mem.count))
        \/ s \in Remains(file, Seal(mem.count))
        \/ s = file
    BY <1>2
  <2>2. CASE s \in Remains(file, Manifest(mem.count))
    BY <1>1, <1>2, <2>2, RemainsAre
  <2>3. CASE s \in Remains(file, Seal(mem.count))
    BY <1>1, <1>2, <2>3, RemainsAre
  <2>. QED  BY <1>2, <2>1, <2>2, <2>3
<1>3. spool \in Seq(Lines) /\ Rising(spool) /\ Below(spool, next)
  BY DEF TypeOK, NumberInv
<1>4. CASE mem.appending
  <2>1. PICK file \in Remains(spool, Record(Head(mem.queue))) : s \in behind(file)
    BY <1>4 DEF InFlight
  <2>2. mem.queue # <<>>
    BY <1>4 DEF MemInv
  <2>. HIDE DEF behind
  <2>3. /\ file \in Seq(Lines) /\ Rising(file) /\ Below(file, next)
        /\ Noted(spool) => Noted(file)
        /\ Ids(spool) \subseteq Ids(file)
    BY <1>3, <2>2, PendingIs, RemainsAre
  <2>. QED  BY <1>2, <2>1, <2>3
<1>5. CASE ~mem.appending
  <2>1. s \in behind(spool)
    BY <1>5 DEF InFlight
  <2>. HIDE DEF behind
  <2>. QED  BY <1>2, <1>3, <2>1
<1>. QED  BY <1>4, <1>5

LEMMA TypeStep == TypeOK /\ OpInv /\ MemInv /\ NumberInv /\ [Next]_vars => TypeOK'
<1>. SUFFICES ASSUME TypeOK, OpInv, MemInv, NumberInv, [Next]_vars PROVE TypeOK'
  OBVIOUS
<1>1. /\ process \in {"serving", "down", "recovering"}
      /\ spool \in Seq(Lines) /\ archive \in Seq(Lines)
      /\ side \in Sides /\ receipt \in {"none", "pending", "completed"}
      /\ mem \in Memories /\ mem.side \in Sides /\ mem.queue \in Seq(1 .. MaxRecords)
      /\ mem.count \in 0 .. MaxRecords
      /\ entering \in 0 .. MaxRecords /\ landing \in BOOLEAN
      /\ op \in Holders
      /\ next \in 1 .. (MaxRecords + 1)
      /\ acked \subseteq 1 .. MaxRecords /\ before \subseteq 1 .. MaxRecords
      /\ aborted \in BOOLEAN /\ answer \in {"none", "sealed", "failed", "rejected"}
      /\ faults \in 0 .. MaxFaults /\ crashes \in 0 .. MaxCrashes
      /\ MaxRecords \in Nat /\ MaxFaults \in Nat /\ MaxCrashes \in Nat
  BY ArchiveAssumption DEF TypeOK, Memories, ArchiveAssumption
<1>2. Fault => faults' \in 0 .. MaxFaults
  BY <1>1 DEF Fault
<1>3. <<>> \in Seq(Lines)
  OBVIOUS
<1>4. \A line \in Lines : /\ Append(spool, line) \in Seq(Lines)
                         /\ \A s \in Remains(spool, line) : s \in Seq(Lines)
  BY <1>1, LineIs, AppendLine DEF Remains
<1>5. CASE Recorder
  <2>1. CASE InitializeState
    BY <1>1, <2>1, InitializeIs, Constants DEF TypeOK, calls
  <2>2. CASE EvictState
    BY <1>1, <2>2, Constants DEF EvictState, TypeOK, disk, calls
  <2>3. CASE Persist
    BY <1>1, <2>3 DEF Persist, TypeOK, disk
  <2>4. CASE EnqueuePersist
    <3>1. /\ StateForSession \in Memories /\ StateForSession.queue = mem.queue
          /\ Append(mem.queue, entering) \in Seq(1 .. MaxRecords)
      BY <1>1, <2>4, StateIs DEF EnqueuePersist
    <3>2. mem' = mem \/ mem' = [StateForSession EXCEPT !.queue = Append(mem.queue, entering)]
      BY <2>4, <3>1 DEF EnqueuePersist, Memories
    <3>3. [StateForSession EXCEPT !.queue = Append(mem.queue, entering)] \in Memories
      BY <3>1, WithQueue
    <3>4. mem' \in Memories
      BY <1>1, <3>2, <3>3
    <3>. QED  BY <1>1, <2>4, <3>4 DEF EnqueuePersist, TypeOK, disk
  <2>5. CASE BeginAppend
    <3>1. mem' \in Memories
      BY <1>1, <2>5 DEF BeginAppend, Memories
    <3>. QED  BY <1>1, <2>5, <3>1 DEF BeginAppend, TypeOK, disk, calls
  <2>6. CASE RefuseRecord
    <3>1. Tail(mem.queue) \in Seq(1 .. MaxRecords)
      BY <2>6, HeadIs DEF RefuseRecord, PersistTurn
    <3>2. mem' \in Memories /\ mem.fenced \in BOOLEAN
      BY <1>1, <2>6, <3>1 DEF RefuseRecord, Memories
    <3>. QED  BY <1>1, <2>6, <3>2 DEF RefuseRecord, TypeOK, disk
  <2>7. CASE AppendLands
    <3>1. /\ Head(mem.queue) \in 1 .. MaxRecords /\ Tail(mem.queue) \in Seq(1 .. MaxRecords)
          /\ mem.count < Head(mem.queue)
      BY <2>7, HeadIs DEF AppendLands, MemInv, NumberInv
    <3>2. Record(Head(mem.queue)) \in Lines
      BY <3>1, LineIs
    <3>3. spool' \in Seq(Lines)
      BY <1>1, <2>7, <3>2 DEF AppendLands
    <3>4. mem.count + 1 \in 0 .. MaxRecords
      BY <1>1, <3>1
    <3>5. mem' \in Memories
      <4>1. \/ mem' = [mem EXCEPT !.queue = Tail(mem.queue), !.appending = FALSE,
                                   !.failure = TRUE]
            \/ mem' = [mem EXCEPT !.queue = Tail(mem.queue), !.appending = FALSE,
                                   !.count = mem.count + 1]
        BY <1>1, <2>7 DEF AppendLands, Memories
      <4>. QED  BY <1>1, <3>1, <3>4, <4>1 DEF Memories
    <3>. QED  BY <1>1, <2>7, <3>1, <3>3, <3>5 DEF AppendLands, TypeOK
  <2>8. CASE AppendFails
    <3>1. Head(mem.queue) \in 1 .. MaxRecords /\ Tail(mem.queue) \in Seq(1 .. MaxRecords)
      BY <2>8, HeadIs DEF AppendFails, MemInv
    <3>2. spool' \in Seq(Lines)
      BY <1>4, <2>8, <3>1, LineIs DEF AppendFails
    <3>3. mem' \in Memories /\ mem.fenced \in BOOLEAN
      BY <1>1, <2>8, <3>1 DEF AppendFails, Memories
    <3>. QED  BY <1>1, <1>2, <2>8, <3>2, <3>3 DEF AppendFails, TypeOK
  <2>9. CASE LateCleanup
    BY <1>1, <1>3, <2>9 DEF LateCleanup, TypeOK
  <2>10. CASE PreflightRecorder
    <3>1. mem' \in Memories /\ mem'.side \in Sides
      BY <1>1, <2>10 DEF PreflightRecorder, Memories, Sides
    <3>. QED  BY <1>1, <1>2, <2>10, <3>1 DEF PreflightRecorder, TypeOK, calls
  <2>. QED  BY <1>5, <2>1, <2>2, <2>3, <2>4, <2>5, <2>6, <2>7, <2>8, <2>9, <2>10 DEF Recorder
<1>6. CASE Finalize
  <2>1. op' \in Holders
    BY <1>6 DEF Finalize, Holders
  <2>. QED  BY <1>1, <1>6, <2>1, StateIs DEF Finalize, TypeOK, disk, calls
<1>7. CASE Abort
  BY <1>1, <1>7 DEF Abort, TypeOK, disk, calls
<1>8. CASE Closer
  <2>1. CASE FinalizeStart
    <3>1. CASE Cancelled \/ ~mem.side.ready
      BY <1>1, <2>1, <3>1, FailIs DEF FinalizeStart, Failing, TypeOK, opVars, disk, calls
    <3>2. CASE ~(Cancelled \/ ~mem.side.ready)
      <4>1. /\ mem' = [mem EXCEPT !.side.phase = "finalizing", !.side.kept = "governed"]
            /\ Goto("request")
        BY <2>1, <3>2 DEF FinalizeStart
      <4>2. mem' = [mem EXCEPT !.side = [mem.side EXCEPT !.phase = "finalizing",
                                                        !.kept = "governed"]]
        BY <1>1, <4>1 DEF Memories, Sides
      <4>3. [mem.side EXCEPT !.phase = "finalizing", !.kept = "governed"] \in Sides
        BY <1>1 DEF Sides
      <4>4. mem' \in Memories
        BY <1>1, <4>2, <4>3 DEF Memories
      <4>5. op' \in Holders
        BY <1>1, <4>1 DEF Goto, Holders
      <4>. QED  BY <1>1, <2>1, <4>4, <4>5 DEF FinalizeStart, TypeOK, opVars, disk, calls
    <3>. QED  BY <3>1, <3>2
  <2>2. CASE SaveSide
    <3>1. op' \in Holders
      BY <1>1, <2>2, Constants DEF SaveSide, Goto, Holders
    <3>. QED  BY <1>1, <2>2, <3>1 DEF SaveSide, TypeOK, calls
  <2>3. CASE FinalizeTail
    <3>1. mem' \in Memories /\ op' \in Holders
      <4>1. CASE StepFails
        BY <1>1, <4>1, FailIs DEF Failing
      <4>2. CASE mem' = [mem EXCEPT !.closed = TRUE] /\ Goto("manifest")
        BY <1>1, <4>2 DEF Goto, Memories, Holders
      <4>. QED  BY <2>3, <4>1, <4>2 DEF FinalizeTail
    <3>. QED  BY <1>1, <2>3, <3>1 DEF FinalizeTail, TypeOK, opVars, disk, calls
  <2>4. CASE Rescan
    <3>1. CASE Readable(spool)
      <4>1. Records(spool) \in Seq(Lines) /\ Len(Records(spool)) = RecordCount(spool)
        BY <1>1, RecordsAre
      <4>2. RecordCount(spool) < next /\ RecordCount(spool) \in Nat
        BY <1>1, CountIsBelow, RecordCountIs DEF NumberInv
      <4>3. RecordCount(spool) \in 0 .. MaxRecords
        BY <1>1, <4>2
      <4>4. mem' \in Memories /\ op' \in Holders
        <5>1. /\ mem' = [mem EXCEPT !.count = Len(Records(spool))]
              /\ op' = [op EXCEPT !.pc = "manifest"]
          BY <2>4, <3>1 DEF Rescan, Goto
        <5>2. mem' \in Memories
          BY <1>1, <4>1, <4>3, <5>1 DEF Memories
        <5>. QED  BY <1>1, <5>1, <5>2 DEF Holders
      <4>. QED  BY <1>1, <2>4, <3>1, <4>1, <4>4 DEF Rescan, TypeOK, opVars, calls
    <3>2. CASE ~Readable(spool)
      <4>1. mem' \in Memories /\ op' \in Holders
        BY <1>1, <2>4, <3>2, FailIs DEF Rescan, Failing
      <4>. QED  BY <1>1, <2>4, <3>2, <4>1 DEF Rescan, TypeOK, opVars, calls
    <3>. QED  BY <3>1, <3>2
  <2>5. CASE AppendManifest
    <3>1. mem' \in Memories /\ op' \in Holders
      BY <1>1, <2>5, FailIs DEF AppendManifest, Failing, Goto, Holders
    <3>2. spool' \in Seq(Lines)
      BY <1>1, <1>4, <2>5, LineIs DEF AppendManifest
    <3>. QED  BY <1>1, <2>5, <3>1, <3>2 DEF AppendManifest, TypeOK, opVars, calls
  <2>6. CASE AppendSeal
    <3>1. mem' \in Memories /\ op' \in Holders
      BY <1>1, <2>6, FailIs DEF AppendSeal, Failing, Goto, Holders
    <3>2. spool' \in Seq(Lines)
      BY <1>1, <1>4, <2>6, LineIs DEF AppendSeal
    <3>. QED  BY <1>1, <2>6, <3>1, <3>2 DEF AppendSeal, TypeOK, opVars, calls
  <2>7. CASE PromoteArchive
    <3>1. SealedSide \in Sides
      BY <1>1 DEF SealedSide, Sides
    <3>2. mem' \in Memories /\ op' \in Holders
      <4>1. CASE StepFails
        BY <1>1, <4>1, FailIs DEF Failing
      <4>2. CASE mem' = [mem EXCEPT !.side = SealedSide] /\ Goto("mark")
        BY <1>1, <3>1, <4>2 DEF Goto, Memories, Holders
      <4>. QED  BY <2>7, <4>1, <4>2 DEF PromoteArchive
    <3>3. spool' \in Seq(Lines) /\ archive' \in Seq(Lines)
      BY <1>1, <1>3, <2>7 DEF PromoteArchive
    <3>. QED  BY <1>1, <2>7, <3>2, <3>3 DEF PromoteArchive, TypeOK, opVars, calls
  <2>8. CASE MarkCancelled
    BY <1>1, <2>8, FailIs DEF MarkCancelled, Failing, TypeOK, opVars, disk, calls
  <2>9. CASE FinishSealed
    <3>1. mem' \in Memories /\ op' \in Holders
      BY <1>1, <2>9, FailIs, Constants DEF FinishSealed, Failing
    <3>. QED  BY <1>1, <2>9, <3>1 DEF FinishSealed, TypeOK, disk, calls
  <2>10. CASE StepFaults
    <3>1. mem' \in Memories /\ op' \in Holders
      BY <1>1, <2>10, FailIs, Constants DEF StepFaults, Failing
    <3>2. spool' \in Seq(Lines)
      <4>1. Manifest(mem.count) \in Lines /\ Seal(mem.count) \in Lines
        BY <1>1, LineIs
      <4>2. \/ spool' \in Remains(spool, Manifest(mem.count))
            \/ spool' \in Remains(spool, Seal(mem.count))
            \/ spool' = spool
        BY <2>10 DEF StepFaults
      <4>. QED  BY <1>1, <1>4, <4>1, <4>2
    <3>. QED  BY <1>1, <1>2, <2>10, <3>1, <3>2 DEF StepFaults, TypeOK, calls
  <2>. QED  BY <1>8, <2>1, <2>2, <2>3, <2>4, <2>5, <2>6, <2>7, <2>8, <2>9, <2>10 DEF Closer
<1>9. CASE Eraser
  <2>1. CASE EraseKey
    <3>1. op' \in Holders
      BY <1>1, <2>1 DEF EraseKey, Goto, Holders
    <3>. QED  BY <1>1, <2>1, <3>1, Constants DEF EraseKey, TypeOK, calls
  <2>2. CASE EraseFiles
    <3>1. op' \in Holders
      BY <1>1, <2>2 DEF EraseFiles, Goto, Holders
    <3>. QED  BY <1>1, <1>3, <2>2, <3>1 DEF EraseFiles, TypeOK, calls
  <2>3. CASE AuditDeletion
    <3>1. op' \in Holders
      BY <1>1, <2>3 DEF AuditDeletion, Goto, Holders
    <3>2. mem' \in Memories /\ side' \in Sides
      <4>1. CASE mem.stage = "ready" /\ ~mem.side.audited
        <5>1. mem' = [mem EXCEPT !.side.audited = TRUE] /\ side' = mem'.side
          BY <2>3, <4>1 DEF AuditDeletion
        <5>2. [mem.side EXCEPT !.audited = TRUE] \in Sides
          BY <1>1 DEF Sides
        <5>3. mem'.side = [mem.side EXCEPT !.audited = TRUE]
          BY <1>1, <5>1 DEF Memories
        <5>. QED  BY <1>1, <5>1, <5>2, <5>3 DEF Memories
      <4>2. CASE ~(mem.stage = "ready" /\ ~mem.side.audited)
        BY <1>1, <2>3, <4>2 DEF AuditDeletion
      <4>. QED  BY <4>1, <4>2
    <3>. QED  BY <1>1, <2>3, <3>1, <3>2 DEF AuditDeletion, TypeOK, calls
  <2>4. CASE CompleteDeletion
    BY <1>1, <2>4, Constants DEF CompleteDeletion, TypeOK, calls
  <2>5. ASSUME NEW byOwner \in BOOLEAN, BeginDeletion(byOwner) PROVE TypeOK'
    BY <1>1, <2>5, DeletionIs DEF TypeOK, calls
  <2>6. CASE ResumeDeletion
    <3>1. op' \in Holders
      BY <2>6 DEF ResumeDeletion, Holders
    <3>. QED  BY <1>1, <2>6, <3>1 DEF ResumeDeletion, TypeOK, disk, calls
  <2>7. CASE DeletionFaults
    BY <1>1, <1>2, <2>7, Constants DEF DeletionFaults, TypeOK, disk, calls
  <2>. QED  BY <1>9, <2>1, <2>2, <2>3, <2>4, <2>5, <2>6, <2>7 DEF Eraser
<1>10. CASE Crash
  <2>1. spool' \in Seq(Lines)
    BY <1>10, InFlightIs DEF Crash
  <2>2. crashes' \in 0 .. MaxCrashes
    BY <1>1, <1>10 DEF Crash
  <2>. QED  BY <1>1, <1>10, <2>1, <2>2, Constants DEF Crash, TypeOK
<1>11. CASE Recover
  BY <1>1, <1>3, <1>11, RecoverIs, Constants DEF TypeOK, calls, disk
<1>12. CASE UNCHANGED vars
  BY <1>1, <1>12 DEF vars, TypeOK
<1>. QED  BY <1>5, <1>6, <1>7, <1>8, <1>9, <1>10, <1>11, <1>12, StepKinds

(***************************************************************************)
(* Memory.                                                                 *)
(***************************************************************************)
LEMMA MemStep == TypeOK /\ OpInv /\ MemInv /\ PhaseInv /\ NumberInv /\ [Next]_vars => MemInv'
<1>. SUFFICES ASSUME TypeOK, OpInv, MemInv, PhaseInv, NumberInv, [Next]_vars PROVE MemInv'
  OBVIOUS
<1>. USE DEF MemInv, Closing
<1>1. /\ mem \in Memories /\ mem.queue \in Seq(1 .. MaxRecords) /\ op \in Holders
      /\ crashes \in Nat /\ side \in Sides /\ mem.side \in Sides
      /\ process \in {"serving", "down", "recovering"}
  BY DEF TypeOK, Memories
<1>2. /\ NoState.stage = "none" /\ NoState.queue = <<>> /\ NoState.appending = FALSE
      /\ NoState.closed = FALSE
  BY DEF NoState
<1>3. CASE Recorder
  <2>1. CASE InitializeState
    <3>1. UNCHANGED <<op, crashes, process, entering>>
      BY <2>1, InitializeIs DEF calls
    <3>2. Fresh.phase = "active"
      BY DEF Fresh, NoSide
    <3>3. Closing => op.pc = "start"
      BY <2>1, InitializeIs
    <3>4. ~mem'.appending /\ mem'.stage # "initializing"
      BY <2>1, <1>2, InitializeIs
    <3>5. mem'.stage = "none" => mem' = NoState
      BY <2>1, InitializeIs
    <3>6. mem'.closed => mem'.side.phase # "active"
      BY <1>2, <2>1, <3>2, InitializeIs
    <3>7. crashes > 0 => FALSE
      BY <2>1, InitializeIs
    <3>. QED  BY <3>1, <3>3, <3>4, <3>5, <3>6, <3>7
  <2>2. CASE EvictState
    BY <1>1, <1>2, <2>2 DEF EvictState, calls
  <2>3. CASE Persist
    BY <1>1, <2>3 DEF Persist, FirstLife
  <2>4. CASE EnqueuePersist
    <3>1. /\ entering # 0 /\ entering' = 0 /\ UNCHANGED <<op, crashes, process>>
          /\ \/ mem' = mem
             \/ mem' = [StateForSession EXCEPT !.queue = Append(@, entering)]
      BY <2>4 DEF EnqueuePersist
    <3>2. ~(crashes > 0)
      BY <3>1
    <3>3. CASE mem' = mem
      BY <3>1, <3>2, <3>3
    <3>4. CASE mem' = [StateForSession EXCEPT !.queue = Append(@, entering)]
      <4>1. /\ StateForSession \in Memories /\ StateForSession.queue = mem.queue
            /\ Append(mem.queue, entering) \in Seq(1 .. MaxRecords)
            /\ Append(mem.queue, entering) # <<>>
        BY <1>1, <3>1, StateIs DEF TypeOK
      <4>2. mem' = [StateForSession EXCEPT !.queue = Append(mem.queue, entering)]
        BY <3>4, <4>1 DEF Memories
      <4>3. /\ mem'.queue # <<>> /\ mem'.stage = StateForSession.stage
            /\ mem'.side = StateForSession.side /\ mem'.count = StateForSession.count
            /\ mem'.appending = StateForSession.appending
            /\ mem'.closed = StateForSession.closed /\ mem'.fenced = StateForSession.fenced
        BY <4>1, <4>2, WithQueue
      <4>4. CASE mem # NoState /\ StateForSession = mem
        BY <1>2, <3>1, <3>2, <4>3, <4>4
      <4>5. CASE /\ mem = NoState
                 /\ StateForSession.stage = "initializing" /\ StateForSession.side = Fresh
                 /\ ~mem.appending /\ ~mem.closed /\ ~mem.fenced /\ mem.count = 0
        <5>1. mem'.stage = "initializing" /\ mem'.side = Fresh /\ mem'.count = 0
              /\ ~mem'.appending /\ ~mem'.closed /\ ~mem'.fenced
          BY <4>3, <4>5, StateIs
        <5>2. Closing => op.pc = "start"
          BY <1>2, <4>5
        <5>. QED  BY <3>1, <3>2, <5>1, <5>2
      <4>. QED  BY <4>4, <4>5, StateIs
    <3>. QED  BY <3>1, <3>3, <3>4
  <2>5. CASE BeginAppend
    BY <1>1, <2>5 DEF BeginAppend, PersistTurn, calls, Memories
  <2>6. CASE RefuseRecord
    BY <1>1, <2>6 DEF RefuseRecord, PersistTurn, Memories
  <2>7. CASE AppendLands
    BY <1>1, <2>7 DEF AppendLands, Memories
  <2>8. CASE AppendFails
    BY <1>1, <2>8 DEF AppendFails, Memories
  <2>9. CASE LateCleanup
    BY <1>1, <2>9 DEF LateCleanup
  <2>10. CASE PreflightRecorder
    BY <1>1, <2>10 DEF PreflightRecorder, FirstLife, Memories, calls
  <2>. QED  BY <1>3, <2>1, <2>2, <2>3, <2>4, <2>5, <2>6, <2>7, <2>8, <2>9, <2>10 DEF Recorder
<1>4. CASE Finalize
  <2>1. /\ mem' = StateForSession /\ op'.pc = "start" /\ UNCHANGED <<crashes, process, entering>>
        /\ crashes = 0
    BY <1>4 DEF Finalize, FirstLife, calls
  <2>. QED  BY <1>2, <2>1, StateIs
<1>5. CASE Abort
  BY <1>5 DEF Abort, calls
<1>6. ASSUME Failing, Closing, mem.stage = "ready", UNCHANGED <<crashes, process, entering>>
      PROVE  MemInv'
  BY <1>1, <1>6 DEF Failing
<1>7. CASE Closer
  <2>1. Closing /\ mem.stage = "ready" /\ UNCHANGED <<crashes, entering>>
    BY <1>7 DEF Closer, FinalizeStart, SaveSide, FinalizeTail, Rescan, AppendManifest, AppendSeal,
      PromoteArchive, MarkCancelled, FinishSealed, StepFaults, Holds, AtStep, opVars, calls
  <2>2. CASE FinalizeStart
    <3>1. CASE Cancelled \/ ~mem.side.ready
      BY <1>1, <1>6, <2>1, <2>2, <3>1, FailIs DEF FinalizeStart, opVars
    <3>2. CASE ~(Cancelled \/ ~mem.side.ready)
      <4>1. /\ mem' = [mem EXCEPT !.side.phase = "finalizing", !.side.kept = "governed"]
            /\ UNCHANGED <<process, crashes>>
        BY <2>2, <3>2 DEF FinalizeStart, opVars
      <4>2. mem'.stage = mem.stage /\ mem'.queue = mem.queue /\ mem'.appending = mem.appending
            /\ mem'.side.phase = "finalizing"
        BY <1>1, <4>1 DEF Memories, Sides
      <4>. QED  BY <2>1, <4>1, <4>2
    <3>. QED  BY <3>1, <3>2
  <2>3. CASE SaveSide
    BY <1>1, <2>1, <2>3 DEF SaveSide, OpInv
  <2>4. CASE FinalizeTail
    <3>1. mem.side.phase = "finalizing"
      BY <2>4 DEF FinalizeTail, Holds, PhaseInv
    <3>. QED  BY <1>1, <1>6, <2>1, <2>4, <3>1, FailIs DEF FinalizeTail, opVars, Memories
  <2>5. CASE Rescan
    BY <1>1, <1>6, <2>1, <2>5, FailIs DEF Rescan, opVars, Memories
  <2>6. CASE AppendManifest
    BY <1>1, <1>6, <2>1, <2>6, FailIs DEF AppendManifest, opVars
  <2>7. CASE AppendSeal
    BY <1>1, <1>6, <2>1, <2>7, FailIs DEF AppendSeal, opVars
  <2>8. CASE PromoteArchive
    <3>1. SealedSide.phase = "sealed"
      BY <1>1 DEF SealedSide, Sides
    <3>. QED  BY <1>1, <1>6, <2>1, <2>8, <3>1, FailIs DEF PromoteArchive, opVars, Memories
  <2>9. CASE MarkCancelled
    BY <1>1, <1>6, <2>1, <2>9, FailIs DEF MarkCancelled, opVars
  <2>10. CASE FinishSealed
    <3>1. CASE mem' = mem /\ process' = "serving"
      BY <2>1, <3>1
    <3>. QED  BY <1>1, <1>6, <2>1, <2>10, <3>1, FailIs DEF FinishSealed
  <2>11. CASE StepFaults
    <3>1. CASE mem' = mem /\ process' = "serving"
      BY <2>1, <3>1
    <3>. QED  BY <1>1, <1>6, <2>1, <2>11, <3>1, FailIs DEF StepFaults
  <2>. QED  BY <1>7, <2>2, <2>3, <2>4, <2>5, <2>6, <2>7, <2>8, <2>9, <2>10, <2>11 DEF Closer
<1>8. CASE Eraser
  <2>1. CASE \/ EraseKey \/ EraseFiles \/ CompleteDeletion \/ ResumeDeletion \/ DeletionFaults
    <3>1. /\ mem' = mem /\ ~Closing' /\ UNCHANGED <<entering, crashes>>
          /\ process' = process \/ process' = "serving"
      BY <1>1, <2>1 DEF EraseKey, EraseFiles, CompleteDeletion, ResumeDeletion, DeletionFaults,
        Holds, Goto, NoOp, calls, Holders
    <3>. QED  BY <3>1
  <2>2. CASE AuditDeletion
    <3>1. /\ ~Closing' /\ UNCHANGED <<entering, crashes, process>>
      BY <1>1, <2>2 DEF AuditDeletion, Holds, Goto, calls, Holders
    <3>2. CASE mem.stage = "ready" /\ ~mem.side.audited
      <4>1. mem' = [mem EXCEPT !.side.audited = TRUE]
        BY <2>2, <3>2 DEF AuditDeletion
      <4>2. /\ mem'.stage = mem.stage /\ mem'.queue = mem.queue
            /\ mem'.appending = mem.appending /\ mem'.closed = mem.closed
            /\ mem'.side.phase = mem.side.phase
        BY <1>1, <4>1 DEF Memories, Sides
      <4>. QED  BY <3>1, <3>2, <4>2
    <3>3. CASE ~(mem.stage = "ready" /\ ~mem.side.audited)
      BY <2>2, <3>1, <3>3 DEF AuditDeletion
    <3>. QED  BY <3>2, <3>3
  <2>3. ASSUME NEW byOwner \in BOOLEAN, BeginDeletion(byOwner) PROVE MemInv'
    <3>1. crashes > 0 => mem'.queue = <<>>
      BY <2>3, DeletionIs DEF Stays
    <3>. QED  BY <1>1, <2>3, <3>1, DeletionIs DEF Stays, calls
  <2>. QED  BY <1>8, <2>1, <2>2, <2>3 DEF Eraser
<1>9. CASE Crash
  <2>1. crashes' > 0 /\ entering' = 0 /\ mem' = NoState /\ op' = NoOp
    BY <1>1, <1>9 DEF Crash
  <2>. QED  BY <1>2, <2>1 DEF NoOp
<1>10. CASE Recover
  <2>1. UNCHANGED <<crashes, entering>> /\ crashes > 0 /\ entering = 0
    BY <1>1, <1>10, RecoverIs DEF calls
  <2>2. CASE mem' = mem /\ ~Closing'
    BY <2>1, <2>2
  <2>3. CASE mem' = NoState /\ ~Closing'
    BY <1>2, <2>1, <2>3
  <2>4. CASE /\ mem'.stage = "ready" /\ mem'.queue = <<>> /\ ~mem'.appending
             /\ mem'.side.phase # "active"
    BY <2>1, <2>4
  <2>. QED  BY <1>10, <2>2, <2>3, <2>4, RecoverIs
<1>11. CASE UNCHANGED vars
  BY <1>11 DEF vars
<1>. QED  BY <1>3, <1>4, <1>5, <1>7, <1>8, <1>9, <1>10, <1>11, StepKinds

LEMMA CloserIs ==
  ASSUME OpInv, MemInv, Closer
  PROVE  /\ Closing /\ mem.stage = "ready" /\ receipt = "none" /\ answer \in {"none", "rejected"}
         /\ UNCHANGED <<receipt, crashes, entering, landing, next, acked, before>>
<1>1. Closing /\ mem.stage = "ready"
  BY DEF Closer, FinalizeStart, SaveSide, FinalizeTail, Rescan, AppendManifest, AppendSeal,
    PromoteArchive, MarkCancelled, FinishSealed, StepFaults, Holds, AtStep, Closing, MemInv
<1>2. UNCHANGED <<receipt, crashes, entering, landing, next, acked, before>>
  BY DEF Closer, FinalizeStart, SaveSide, FinalizeTail, Rescan, AppendManifest, AppendSeal,
    PromoteArchive, MarkCancelled, FinishSealed, StepFaults, opVars, calls, disk
<1>. QED  BY <1>1, <1>2 DEF OpInv, Closing

(***************************************************************************)
(* The phase in the sidecar and the phase in memory.                       *)
(***************************************************************************)
LEMMA PhaseStep ==
  TypeOK /\ OpInv /\ MemInv /\ PhaseInv /\ NumberInv /\ [Next]_vars => PhaseInv'
<1>. SUFFICES ASSUME TypeOK, OpInv, MemInv, PhaseInv, NumberInv, [Next]_vars PROVE PhaseInv'
  OBVIOUS
<1>1. /\ mem \in Memories /\ op \in Holders /\ crashes \in Nat
      /\ side \in Sides /\ mem.side \in Sides
      /\ answer \in {"none", "sealed", "failed", "rejected"}
  BY DEF TypeOK, Memories
<1>2. /\ Fresh.phase = "active" /\ NoSide.phase = "none" /\ NoState.stage = "none"
      /\ NoState.side = NoSide
  BY DEF Fresh, NoSide, NoState
<1>3. ASSUME UNCHANGED <<op, receipt, crashes, answer, side>>, receipt = "none" => archive' = archive,
             mem'.stage = mem.stage, mem'.side.phase = mem.side.phase
      PROVE  PhaseInv'
  BY <1>3 DEF PhaseInv, Unasked
<1>4. ASSUME receipt' # "none", op'.pc \in {"none", "key", "files", "audit", "receipt"}
      PROVE  PhaseInv'
  BY <1>4 DEF PhaseInv, Unasked
<1>5. CASE Recorder
  <2>1. CASE InitializeState
    <3>1. UNCHANGED <<op, receipt, crashes, answer, archive>> /\ mem.stage = "initializing"
      BY <2>1, InitializeIs
    <3>2. op.pc \in {"none", "start", "key", "files", "audit", "receipt"}
      BY <1>1, <3>1 DEF MemInv, OpInv, Closing, Holders
    <3>3. CASE Loadable /\ side' = side /\ mem'.stage = "ready" /\ mem'.side = side
      <4>1. receipt = "none" => side.phase # "none"
        BY <3>3 DEF PhaseInv, Loadable
      <4>. QED  BY <3>1, <3>2, <3>3, <4>1 DEF PhaseInv, Unasked
    <3>4. CASE mem' = NoState /\ side' = side
      BY <1>2, <3>1, <3>2, <3>4 DEF PhaseInv, Unasked
    <3>5. CASE side' = Fresh /\ mem'.stage = "ready" /\ mem'.side = Fresh /\ receipt = "none"
               /\ side = NoSide
      BY <1>2, <3>1, <3>2, <3>5 DEF PhaseInv, Unasked
    <3>. QED  BY <2>1, <3>3, <3>4, <3>5, InitializeIs
  <2>2. CASE EvictState
    <3>1. /\ mem' = NoState /\ op.kind \notin {"finalize", "recover"}
          /\ UNCHANGED <<op, receipt, crashes, answer, archive, side>>
      BY <2>2 DEF EvictState, disk
    <3>2. op.pc \in {"none", "key", "files", "audit", "receipt"}
      BY <1>1, <3>1 DEF OpInv, Holders
    <3>. QED  BY <1>2, <3>1, <3>2 DEF PhaseInv, Unasked
  <2>3. CASE Persist
    BY <1>3, <2>3 DEF Persist, disk
  <2>4. CASE EnqueuePersist
    <3>1. /\ entering # 0 /\ UNCHANGED <<op, receipt, crashes, answer, archive, side>>
          /\ \/ mem' = mem
             \/ mem' = [StateForSession EXCEPT !.queue = Append(@, entering)]
      BY <2>4 DEF EnqueuePersist, disk
    <3>2. CASE mem' = mem
      BY <1>3, <3>1, <3>2
    <3>3. CASE mem' = [StateForSession EXCEPT !.queue = Append(@, entering)]
      <4>1. mem'.stage = StateForSession.stage /\ mem'.side = StateForSession.side
        BY <3>3, StateIs DEF Memories
      <4>2. CASE StateForSession = mem
        BY <1>3, <3>1, <4>1, <4>2
      <4>3. CASE mem = NoState /\ StateForSession.stage = "initializing"
                 /\ StateForSession.side = Fresh
        <5>1. op.pc \in {"none", "start", "key", "files", "audit", "receipt"}
          BY <1>1, <1>2, <4>3 DEF MemInv, OpInv, Closing, Holders
        <5>. QED  BY <1>2, <3>1, <4>1, <4>3, <5>1 DEF PhaseInv, Unasked
      <4>. QED  BY <4>2, <4>3, StateIs
    <3>. QED  BY <3>1, <3>2, <3>3
  <2>5. CASE BeginAppend
    BY <1>1, <1>3, <2>5 DEF BeginAppend, disk, Memories
  <2>6. CASE RefuseRecord
    BY <1>1, <1>3, <2>6 DEF RefuseRecord, disk, Memories
  <2>7. CASE AppendLands
    BY <1>1, <1>3, <2>7 DEF AppendLands, Memories
  <2>8. CASE AppendFails
    BY <1>1, <1>3, <2>8 DEF AppendFails, Memories
  <2>9. CASE LateCleanup
    BY <1>1, <1>3, <2>9 DEF LateCleanup
  <2>10. CASE PreflightRecorder
    <3>1. /\ op = NoOp /\ receipt = "none" /\ mem.stage = "ready" /\ mem.side.phase = "active"
          /\ mem' = [mem EXCEPT !.side.ready = TRUE] /\ (side' = mem'.side \/ side' = side)
          /\ UNCHANGED <<op, receipt, crashes, answer, archive>>
      BY <2>10 DEF PreflightRecorder
    <3>2. mem'.stage = "ready" /\ mem'.side.phase = "active"
      BY <1>1, <3>1 DEF Memories, Sides
    <3>3. side.phase = "active" /\ side'.phase = "active"
      BY <3>1, <3>2 DEF PhaseInv
    <3>. QED  BY <3>1, <3>2, <3>3 DEF PhaseInv, Unasked
  <2>. QED  BY <1>5, <2>1, <2>2, <2>3, <2>4, <2>5, <2>6, <2>7, <2>8, <2>9, <2>10 DEF Recorder
<1>6. CASE Finalize
  <2>1. /\ crashes = 0 /\ op = NoOp /\ answer = "none" /\ receipt = "none"
        /\ mem' = StateForSession /\ op'.pc = "start"
        /\ UNCHANGED <<receipt, crashes, answer, archive, side>>
    BY <1>6 DEF Finalize, FirstLife, disk
  <2>2. Unasked
    BY <2>1 DEF Unasked, NoOp
  <2>3. CASE mem' = mem
    BY <2>1, <2>2, <2>3 DEF PhaseInv, Unasked
  <2>4. CASE mem'.stage = "initializing" /\ mem'.side = Fresh
    BY <1>2, <2>1, <2>2, <2>4 DEF PhaseInv, Unasked
  <2>. QED  BY <2>1, <2>3, <2>4, StateIs
<1>7. CASE Abort
  BY <1>3, <1>7 DEF Abort, disk
<1>8. ASSUME Failing, Closing, op.pc \notin {"start", "fail"},
             UNCHANGED <<side, receipt, crashes, answer>>
      PROVE  PhaseInv'
  <2>1. /\ op.pc \in {"request", "tail", "rebuild", "rescan", "manifest", "seal", "promote",
                      "mark", "sealed"}
        /\ receipt = "none"
    BY <1>1, <1>8 DEF OpInv, Closing, Holders
  <2>2. /\ side.phase \in {"active", "finalizing", "sealed"}
        /\ mem.side.phase \in {"finalizing", "sealed"}
        /\ side.phase = "active" => mem.side.phase = "finalizing"
        /\ side.phase = "sealed" => mem.side.phase = "sealed"
    BY <2>1 DEF PhaseInv
  <2>3. answer \in {"none", "rejected"}
    BY <1>8 DEF OpInv, Closing
  <2>. QED  BY <1>8, <2>1, <2>2, <2>3 DEF PhaseInv, Unasked, Failing
<1>9. CASE Closer
  <2>1. Closing /\ mem.stage = "ready" /\ receipt = "none" /\ UNCHANGED <<receipt, crashes>>
        /\ answer \in {"none", "rejected"}
    BY <1>9, CloserIs
  <2>2. CASE FinalizeStart
    <3>1. op.pc = "start" /\ op.kind = "finalize" /\ UNCHANGED <<side, archive, answer>>
      BY <2>2 DEF FinalizeStart, Holds, disk, opVars
    <3>2. Unasked
      BY <2>1, <3>1 DEF Unasked, OpInv
    <3>3. side.phase = "active" /\ mem.side.phase \in {"none", "active"}
      BY <2>1, <3>2 DEF PhaseInv
    <3>4. CASE Cancelled \/ ~mem.side.ready
      <4>1. Failing
        BY <1>1, <2>2, <3>4, FailIs DEF FinalizeStart
      <4>2. op'.pc = "fail" /\ mem'.side.phase = "FINALIZATION_FAILED"
        BY <3>1, <3>3, <4>1 DEF Failing
      <4>. QED  BY <2>1, <3>1, <3>2, <3>3, <4>2 DEF PhaseInv, Unasked
    <3>5. CASE ~(Cancelled \/ ~mem.side.ready)
      <4>1. /\ mem' = [mem EXCEPT !.side.phase = "finalizing", !.side.kept = "governed"]
            /\ op' = [op EXCEPT !.pc = "request"]
        BY <2>2, <3>5 DEF FinalizeStart, Goto
      <4>2. mem'.side.phase = "finalizing" /\ op'.pc = "request"
        BY <1>1, <4>1 DEF Memories, Sides, Holders
      <4>. QED  BY <2>1, <3>1, <3>2, <3>3, <4>2 DEF PhaseInv, Unasked
    <3>. QED  BY <3>4, <3>5
  <2>3. CASE SaveSide
    <3>1. side' = mem.side /\ mem' = mem
      BY <2>3 DEF SaveSide
    <3>2. CASE op.pc = "request" /\ Goto("tail") /\ UNCHANGED answer
      <4>1. op'.pc = "tail"
        BY <1>1, <3>2 DEF Goto, Holders
      <4>. QED  BY <2>1, <3>1, <3>2, <4>1 DEF PhaseInv, Unasked
    <3>3. CASE op.pc = "rebuild" /\ Goto("rescan") /\ UNCHANGED answer
      <4>1. op'.pc = "rescan"
        BY <1>1, <3>3 DEF Goto, Holders
      <4>. QED  BY <2>1, <3>1, <3>3, <4>1 DEF PhaseInv, Unasked
    <3>4. CASE op.pc = "mark" /\ Goto("sealed") /\ UNCHANGED answer
      <4>1. op'.pc = "sealed"
        BY <1>1, <3>4 DEF Goto, Holders
      <4>. QED  BY <2>1, <3>1, <3>4, <4>1 DEF PhaseInv, Unasked
    <3>5. CASE /\ op.pc = "fail" /\ op' = NoOp
               /\ answer' = IF op.kind = "finalize" THEN "failed" ELSE answer
      <4>1. op'.pc = "none"
        BY <3>5 DEF NoOp
      <4>2. op.kind # "finalize" => crashes > 0
        BY <1>1, <2>1 DEF OpInv, MemInv, Closing
      <4>3. side'.phase = "FINALIZATION_FAILED" /\ mem'.side.phase = "FINALIZATION_FAILED"
        BY <3>1, <3>5 DEF PhaseInv
      <4>4. answer' \in {"none", "failed", "rejected"} /\ ~Unasked'
        BY <2>1, <3>5, <4>2 DEF Unasked
      <4>. QED  BY <4>1, <4>3, <4>4 DEF PhaseInv
    <3>. QED  BY <2>3, <3>2, <3>3, <3>4, <3>5 DEF SaveSide, AtStep
  <2>4. CASE FinalizeTail
    <3>1. op.pc = "tail" /\ UNCHANGED <<side, answer>>
      BY <2>4 DEF FinalizeTail, Holds, disk, opVars
    <3>2. CASE StepFails
      BY <1>1, <1>8, <2>1, <3>1, <3>2, FailIs
    <3>3. CASE mem' = [mem EXCEPT !.closed = TRUE] /\ Goto("manifest")
      <4>1. op'.pc = "manifest" /\ mem'.side = mem.side
        BY <1>1, <3>3 DEF Goto, Holders, Memories
      <4>. QED  BY <2>1, <3>1, <4>1 DEF PhaseInv, Unasked
    <3>. QED  BY <2>4, <3>2, <3>3 DEF FinalizeTail
  <2>5. CASE Rescan \/ AppendManifest \/ AppendSeal
    <3>1. op.pc \in {"rescan", "manifest", "seal"} /\ UNCHANGED <<side, answer>>
      BY <2>5 DEF Rescan, AppendManifest, AppendSeal, AtStep, opVars
    <3>2. CASE StepFails
      BY <1>1, <1>8, <2>1, <3>1, <3>2, FailIs
    <3>3. ASSUME NEW c, mem' = mem \/ mem' = [mem EXCEPT !.count = c],
                 NEW pc \in {"manifest", "seal", "promote"}, Goto(pc)
          PROVE  PhaseInv'
      <4>1. op'.pc = pc /\ mem'.side = mem.side
        BY <1>1, <3>3 DEF Goto, Holders, Memories
      <4>. QED  BY <2>1, <3>1, <4>1 DEF PhaseInv, Unasked
    <3>. QED  BY <2>5, <3>2, <3>3 DEF Rescan, AppendManifest, AppendSeal
  <2>6. CASE PromoteArchive
    <3>1. op.pc = "promote" /\ UNCHANGED <<side, answer>>
      BY <2>6 DEF PromoteArchive, AtStep, opVars
    <3>2. CASE StepFails
      BY <1>1, <1>8, <2>1, <3>1, <3>2, FailIs
    <3>3. CASE mem' = [mem EXCEPT !.side = SealedSide] /\ Goto("mark")
      <4>1. op'.pc = "mark" /\ mem'.side.phase = "sealed"
        BY <1>1, <3>3 DEF Goto, Holders, Memories, SealedSide, Sides
      <4>. QED  BY <2>1, <3>1, <4>1 DEF PhaseInv, Unasked
    <3>. QED  BY <2>6, <3>2, <3>3 DEF PromoteArchive
  <2>7. CASE MarkCancelled
    BY <1>1, <1>8, <2>1, <2>7, FailIs DEF MarkCancelled, AtStep, opVars, disk
  <2>8. CASE FinishSealed
    <3>1. op.pc = "sealed" /\ UNCHANGED side
      BY <2>8 DEF FinishSealed, AtStep, disk
    <3>2. CASE StepFails /\ UNCHANGED answer
      BY <1>1, <1>8, <2>1, <3>1, <3>2, FailIs
    <3>3. CASE /\ op' = NoOp /\ mem' = mem
               /\ answer' = IF op.kind = "finalize" THEN "sealed" ELSE answer
      <4>1. op'.pc = "none"
        BY <3>3 DEF NoOp
      <4>2. op.kind # "finalize" => crashes > 0
        BY <1>1, <2>1 DEF OpInv, MemInv, Closing
      <4>3. side'.phase = "sealed" /\ mem'.side.phase = "sealed"
        BY <3>1, <3>3 DEF PhaseInv
      <4>4. answer' \in {"none", "sealed", "rejected"} /\ ~Unasked'
        BY <2>1, <3>3, <4>2 DEF Unasked
      <4>. QED  BY <4>1, <4>3, <4>4 DEF PhaseInv
    <3>. QED  BY <2>8, <3>2, <3>3 DEF FinishSealed
  <2>9. CASE StepFaults
    <3>1. op.pc \notin {"start", "sealed"} /\ UNCHANGED side
      BY <2>9 DEF StepFaults
    <3>2. CASE op.pc # "fail" /\ StepFails /\ UNCHANGED answer
      BY <1>1, <1>8, <2>1, <3>1, <3>2, FailIs
    <3>3. CASE /\ op.pc = "fail" /\ op' = NoOp /\ mem' = mem
               /\ answer' = IF op.kind = "finalize" THEN "rejected" ELSE answer
      <4>1. op'.pc = "none"
        BY <3>3 DEF NoOp
      <4>2. op.kind # "finalize" => crashes > 0
        BY <1>1, <2>1 DEF OpInv, MemInv, Closing
      <4>3. side.phase # "none" /\ mem'.side.phase = "FINALIZATION_FAILED"
        BY <3>3 DEF PhaseInv
      <4>4. answer' \in {"none", "rejected"} /\ ~Unasked'
        BY <2>1, <3>3, <4>2 DEF Unasked
      <4>. QED  BY <3>1, <4>1, <4>3, <4>4 DEF PhaseInv
    <3>. QED  BY <2>9, <3>2, <3>3 DEF StepFaults
  <2>. QED  BY <1>9, <2>2, <2>3, <2>4, <2>5, <2>6, <2>7, <2>8, <2>9 DEF Closer
<1>10. CASE Eraser
  <2>1. ASSUME NEW byOwner \in BOOLEAN, BeginDeletion(byOwner) PROVE PhaseInv'
    BY <1>4, <2>1, DeletionIs
  <2>2. CASE ~(\E byOwner \in BOOLEAN : BeginDeletion(byOwner))
    <3>1. receipt' \in {"pending", "completed"}
      BY <1>10, <2>2 DEF Eraser, EraseKey, EraseFiles, AuditDeletion, CompleteDeletion,
        ResumeDeletion, DeletionFaults, Holds, OpInv, disk
    <3>2. op'.pc \in {"none", "key", "files", "audit", "receipt"}
      BY <1>1, <1>10, <2>2 DEF Eraser, EraseKey, EraseFiles, AuditDeletion, CompleteDeletion,
        ResumeDeletion, DeletionFaults, Holds, Goto, NoOp, Holders
    <3>. QED  BY <1>4, <3>1, <3>2
  <2>. QED  BY <2>1, <2>2
<1>11. CASE Crash
  <2>1. /\ crashes' > 0 /\ mem' = NoState /\ op' = NoOp
        /\ UNCHANGED <<side, receipt, answer, archive>>
    BY <1>1, <1>11 DEF Crash
  <2>. QED  BY <1>2, <2>1 DEF NoOp, PhaseInv, Unasked
<1>12. CASE Recover
  <2>1. UNCHANGED <<answer, crashes>> /\ crashes > 0
    BY <1>1, <1>12, RecoverIs DEF MemInv
  <2>2. CASE receipt = "pending"
    BY <1>4, <1>12, <2>2, RecoverIs DEF disk
  <2>3. CASE receipt = "completed"
    <3>1. receipt' = "completed" /\ op'.pc = "none"
      BY <1>12, <2>3, RecoverIs DEF OpInv
    <3>. QED  BY <1>4, <3>1
  <2>4. CASE receipt = "none" /\ side.phase \in {"finalizing", "active"}
    <3>1. answer \notin {"sealed", "failed"}
      BY <2>4 DEF PhaseInv
    <3>2. /\ UNCHANGED disk
          /\ mem'.side.phase \in {"finalizing", "FINALIZATION_FAILED"}
          /\ \/ side.phase = "finalizing" /\ op'.pc = "promote" /\ mem'.side.phase = "finalizing"
             \/ op'.pc = "fail" /\ mem'.side.phase = "FINALIZATION_FAILED"
      BY <1>12, <2>4, RecoverIs
    <3>. QED  BY <2>1, <2>4, <3>1, <3>2 DEF PhaseInv, Unasked, disk
  <2>5. CASE receipt = "none" /\ side.phase \notin {"finalizing", "active"}
    BY <1>3, <1>12, <2>1, <2>5, RecoverIs DEF disk
  <2>. QED  BY <2>2, <2>3, <2>4, <2>5 DEF TypeOK
<1>13. CASE UNCHANGED vars
  BY <1>3, <1>13 DEF vars
<1>. QED  BY <1>5, <1>6, <1>7, <1>9, <1>10, <1>11, <1>12, <1>13, StepKinds

(***************************************************************************)
(* A deletion and the records on their way.                                *)
(***************************************************************************)
LEMMA DeletionStep ==
  TypeOK /\ OpInv /\ OpInv' /\ MemInv /\ NumberInv /\ DeletionInv /\ [Next]_vars => DeletionInv'
<1>. SUFFICES ASSUME TypeOK, OpInv, OpInv', MemInv, NumberInv, DeletionInv, [Next]_vars
              PROVE  DeletionInv'
  OBVIOUS
<1>1. /\ mem \in Memories /\ mem.queue \in Seq(1 .. MaxRecords) /\ op \in Holders
      /\ side \in Sides /\ mem.side \in Sides /\ receipt \in {"none", "pending", "completed"}
  BY DEF TypeOK, Memories
<1>2. /\ NoState.stage = "none" /\ NoState.appending = FALSE /\ NoSide.phase = "none"
      /\ NoOp.pc = "none" /\ NoOp.kind = "none"
  BY DEF NoState, NoSide, NoOp
<1>3. /\ KeyGone => receipt # "none"
      /\ KeyGone' => receipt' # "none"
      /\ FilesGone => KeyGone
      /\ FilesGone' => KeyGone'
  BY DEF KeyGone, FilesGone, OpInv
<1>4. CASE receipt' = "none"
  BY <1>3, <1>4 DEF DeletionInv
<1>5. ASSUME UNCHANGED <<op, receipt, process>>
      PROVE  (KeyGone' <=> KeyGone) /\ (FilesGone' <=> FilesGone)
  BY <1>5 DEF KeyGone, FilesGone
<1>6. CASE Recorder /\ receipt' # "none"
  <2>1. CASE InitializeState
    <3>1. /\ UNCHANGED <<op, receipt, process, entering, landing, spool, archive>>
          /\ mem.stage = "initializing" /\ entering = 0
      BY <1>6, <2>1, InitializeIs DEF calls, DeletionInv
    <3>2. CASE mem' = NoState /\ side' = side
      BY <1>2, <1>5, <3>1, <3>2 DEF DeletionInv
    <3>3. CASE /\ side' = side /\ mem'.stage = "ready"
               /\ mem'.closed = (side.phase # "active") /\ ~mem'.appending
      BY <1>5, <3>1, <3>3 DEF DeletionInv
    <3>. QED  BY <1>6, <2>1, <3>1, <3>2, <3>3, InitializeIs
  <2>2. CASE EvictState
    <3>1. /\ UNCHANGED <<op, receipt, process, entering, landing, spool, archive, side>>
          /\ mem' = NoState
      BY <2>2 DEF EvictState, disk, calls
    <3>. QED  BY <1>2, <1>5, <3>1 DEF DeletionInv, Recording
  <2>3. CASE Persist
    <3>1. /\ UNCHANGED <<op, receipt, process, mem, landing, spool, archive, side>>
          /\ entering' = 0
      BY <1>6, <2>3 DEF Persist, disk
    <3>. QED  BY <1>5, <3>1 DEF DeletionInv, Recording
  <2>4. CASE EnqueuePersist
    <3>1. /\ UNCHANGED <<op, receipt, process, landing, spool, archive, side>>
          /\ entering # 0 /\ entering' = 0
          /\ \/ mem' = mem
             \/ mem' = [StateForSession EXCEPT !.queue = Append(@, entering)]
      BY <2>4 DEF EnqueuePersist, disk
    <3>2. ~Recording /\ mem.stage # "initializing"
      BY <1>6, <3>1 DEF DeletionInv
    <3>3. CASE mem' = mem
      BY <1>5, <3>1, <3>3 DEF DeletionInv
    <3>4. CASE mem' = [StateForSession EXCEPT !.queue = Append(@, entering)]
      <4>1. /\ mem'.stage = StateForSession.stage
            /\ mem'.appending = mem.appending
            /\ mem'.closed = mem.closed /\ mem'.fenced = mem.fenced
        BY <3>4, StateIs DEF Memories
      <4>2. mem'.stage = "ready" => mem'.closed
        BY <3>2, <4>1, StateIs DEF Recording
      <4>3. KeyGone => side.phase # "active" /\ (mem.appending => mem.fenced)
        BY <3>1 DEF DeletionInv
      <4>. QED  BY <1>5, <3>1, <4>1, <4>2, <4>3 DEF DeletionInv
    <3>. QED  BY <3>1, <3>3, <3>4
  <2>5. CASE BeginAppend
    <3>1. /\ UNCHANGED <<op, receipt, process, entering, landing, spool, archive, side>>
          /\ mem.stage = "ready" /\ mem.queue # <<>> /\ ~mem.closed /\ ~mem.fenced
          /\ mem' = [mem EXCEPT !.appending = TRUE]
      BY <2>5 DEF BeginAppend, PersistTurn, MayWrite, disk, calls
    <3>2. ~KeyGone
      BY <3>1 DEF DeletionInv
    <3>3. mem'.stage = mem.stage /\ mem'.closed = mem.closed
      BY <1>1, <3>1 DEF Memories
    <3>. QED  BY <1>3, <1>5, <3>1, <3>2, <3>3 DEF DeletionInv, Recording
  <2>6. CASE RefuseRecord
    <3>1. /\ UNCHANGED <<op, receipt, process, entering, spool, archive, side>>
          /\ landing => landing'
          /\ mem' = [mem EXCEPT !.queue = Tail(@), !.failure = TRUE]
      BY <2>6 DEF RefuseRecord, disk
    <3>2. /\ mem'.stage = mem.stage /\ mem'.closed = mem.closed /\ mem'.fenced = mem.fenced
          /\ mem'.appending = mem.appending
      BY <1>1, <3>1 DEF Memories
    <3>3. mem.queue # <<>>
      BY <2>6 DEF RefuseRecord, PersistTurn
    <3>. QED  BY <1>5, <3>1, <3>2, <3>3 DEF DeletionInv, Recording
  <2>7. CASE AppendLands \/ AppendFails
    <3>1. /\ UNCHANGED <<op, receipt, process, entering, archive, side>>
          /\ mem.appending /\ (mem.fenced => landing')
      BY <2>7 DEF AppendLands, AppendFails
    <3>2. /\ mem'.stage = mem.stage /\ mem'.closed = mem.closed /\ mem'.fenced = mem.fenced
          /\ mem'.appending = FALSE
      BY <1>1, <2>7 DEF AppendLands, AppendFails, Memories
    <3>3. mem.queue # <<>> /\ mem.stage = "ready"
      BY <3>1 DEF MemInv
    <3>. QED  BY <1>3, <1>5, <3>1, <3>2, <3>3 DEF DeletionInv, Recording
  <2>8. CASE LateCleanup
    <3>1. /\ UNCHANGED <<op, receipt, process, entering, mem, side>>
          /\ spool' = <<>> /\ archive' = <<>>
      BY <1>6, <2>8 DEF LateCleanup
    <3>. QED  BY <1>5, <3>1 DEF DeletionInv, Recording
  <2>9. CASE PreflightRecorder
    BY <1>6, <2>9 DEF PreflightRecorder
  <2>. QED  BY <1>6, <2>1, <2>2, <2>3, <2>4, <2>5, <2>6, <2>7, <2>8, <2>9 DEF Recorder
<1>7. CASE Finalize \/ Abort
  BY <1>4, <1>7 DEF Finalize, Abort, OpInv, Closing, disk
<1>8. CASE Closer
  BY <1>4, <1>8, CloserIs
<1>9. CASE Eraser
  <2>1. CASE EraseKey
    <3>1. /\ UNCHANGED <<receipt, process, entering, mem, landing, spool, archive>>
          /\ side' = NoSide /\ op.kind = "delete" /\ op'.pc = "files"
          /\ mem.queue = <<>> \/ mem.fenced
      BY <1>1, <2>1 DEF EraseKey, Holds, Goto, calls, Holders
    <3>2. ~FilesGone'
      BY <3>1 DEF FilesGone, OpInv
    <3>3. mem.appending => mem.fenced
      BY <3>1 DEF MemInv
    <3>. QED  BY <1>2, <3>1, <3>2, <3>3 DEF DeletionInv, Recording
  <2>2. CASE EraseFiles
    <3>1. /\ UNCHANGED <<receipt, process, entering, mem, landing, side>>
          /\ spool' = <<>> /\ archive' = <<>> /\ KeyGone
      BY <2>2 DEF EraseFiles, Holds, calls, KeyGone
    <3>. QED  BY <3>1 DEF DeletionInv, Recording
  <2>3. CASE AuditDeletion
    <3>1. /\ UNCHANGED <<receipt, process, entering, landing, spool, archive>>
          /\ KeyGone /\ FilesGone
      BY <2>3 DEF AuditDeletion, Holds, calls, KeyGone, FilesGone
    <3>2. CASE mem.stage = "ready" /\ ~mem.side.audited
      <4>1. mem' = [mem EXCEPT !.side.audited = TRUE] /\ side' = mem'.side
        BY <2>3, <3>2 DEF AuditDeletion
      <4>2. /\ mem'.stage = mem.stage /\ mem'.queue = mem.queue /\ mem'.fenced = mem.fenced
            /\ mem'.appending = mem.appending /\ mem'.closed = mem.closed
            /\ mem'.side.phase = mem.side.phase
        BY <1>1, <4>1 DEF Memories, Sides
      <4>3. entering # 0 => mem.side.phase # "active"
        BY <1>3, <3>1, <3>2 DEF DeletionInv, Recording, MemInv
      <4>. QED  BY <3>1, <3>2, <4>1, <4>2, <4>3 DEF DeletionInv, Recording
    <3>3. CASE ~(mem.stage = "ready" /\ ~mem.side.audited)
      BY <2>3, <3>1, <3>3 DEF AuditDeletion, DeletionInv, Recording
    <3>. QED  BY <3>2, <3>3
  <2>4. CASE CompleteDeletion
    <3>1. /\ UNCHANGED <<entering, mem, landing, spool, archive, side>>
          /\ KeyGone /\ FilesGone /\ op.kind = "delete"
      BY <2>4 DEF CompleteDeletion, Holds, calls, KeyGone, FilesGone
    <3>2. process # "down"
      BY <3>1 DEF OpInv
    <3>. QED  BY <1>3, <3>1, <3>2 DEF DeletionInv, Recording
  <2>5. ASSUME NEW byOwner \in BOOLEAN, BeginDeletion(byOwner) PROVE DeletionInv'
    <3>1. mem'.stage = "ready" /\ mem'.closed /\ receipt' = "pending" /\ op'.pc = "key"
      BY <2>5, DeletionIs
    <3>. QED  BY <3>1 DEF DeletionInv, Recording, KeyGone, FilesGone
  <2>6. CASE ResumeDeletion \/ DeletionFaults
    <3>1. /\ UNCHANGED <<receipt, entering, mem>> /\ receipt = "pending"
          /\ op'.pc \in {"key", "none"}
      BY <1>2, <2>6 DEF ResumeDeletion, DeletionFaults, OpInv, disk, calls
    <3>. QED  BY <3>1 DEF DeletionInv, Recording, KeyGone, FilesGone
  <2>. QED  BY <1>9, <2>1, <2>2, <2>3, <2>4, <2>5, <2>6 DEF Eraser
<1>10. CASE Crash
  <2>1. process' = "down" /\ mem' = NoState /\ entering' = 0
    BY <1>10 DEF Crash
  <2>. QED  BY <1>2, <2>1 DEF DeletionInv
<1>11. CASE Recover
  <2>1. UNCHANGED <<entering, landing>>
    BY <1>11, RecoverIs DEF calls
  <2>2. CASE receipt = "pending"
    <3>1. mem' = NoState /\ receipt' = "pending" /\ op'.pc = "key"
      BY <1>11, <2>2, RecoverIs DEF disk
    <3>. QED  BY <1>2, <3>1 DEF DeletionInv, Recording, KeyGone, FilesGone
  <2>3. CASE receipt = "completed"
    <3>1. /\ mem' = mem /\ UNCHANGED receipt /\ side' = NoSide /\ spool' = <<>> /\ archive' = <<>>
          /\ KeyGone
      BY <1>11, <2>3, RecoverIs DEF KeyGone
    <3>. QED  BY <1>2, <2>1, <2>3, <3>1 DEF DeletionInv, Recording
  <2>4. CASE receipt = "none"
    BY <1>4, <1>11, <2>4, RecoverIs DEF disk
  <2>. QED  BY <1>1, <2>2, <2>3, <2>4
<1>12. CASE UNCHANGED vars
  <2>1. UNCHANGED <<op, receipt, process, entering, landing, spool, archive, side, mem>>
    BY <1>12 DEF vars
  <2>. QED  BY <1>5, <2>1 DEF DeletionInv, Recording
<1>. QED  BY <1>4, <1>6, <1>7, <1>8, <1>9, <1>10, <1>11, <1>12, StepKinds

(***************************************************************************)
(* Recovery.                                                               *)
(***************************************************************************)
LEMMA RecoveryStep ==
  TypeOK /\ OpInv /\ MemInv /\ MemInv' /\ PhaseInv /\ NumberInv /\ RecoveryInv /\ [Next]_vars
    => RecoveryInv'
<1>. SUFFICES ASSUME TypeOK, OpInv, MemInv, MemInv', PhaseInv, NumberInv, RecoveryInv, [Next]_vars
              PROVE  RecoveryInv'
  OBVIOUS
<1>1. /\ mem \in Memories /\ mem.queue \in Seq(1 .. MaxRecords) /\ op \in Holders
      /\ side \in Sides /\ mem.side \in Sides /\ receipt \in {"none", "pending", "completed"}
      /\ crashes \in Nat /\ crashes' \in Nat /\ faults \in Nat
      /\ process \in {"serving", "down", "recovering"}
  <2>1. crashes' \in Nat
    BY TypeStep DEF TypeOK
  <2>. QED  BY <2>1 DEF TypeOK, Memories
<1>2. /\ NoState.stage = "none" /\ NoState.side.phase = "none" /\ NoSide.phase = "none"
      /\ NoOp.pc = "none" /\ NoOp.kind = "none"
  BY DEF NoState, NoSide, NoOp
<1>3. CASE crashes' = 0
  BY <1>3 DEF RecoveryInv, MemInv
<1>4. ASSUME UNCHANGED <<process, crashes, faults, op, mem, side>> PROVE RecoveryInv'
  BY <1>4 DEF RecoveryInv
<1>5. CASE crashes > 0 /\ Recorder
  <2>1. mem.stage # "initializing" /\ mem.queue = <<>> /\ entering = 0 /\ crashes # 0
        /\ ~mem.appending
    BY <1>1, <1>5 DEF MemInv
  <2>2. EvictState \/ LateCleanup
    BY <1>5, <2>1 DEF Recorder, InitializeState, Persist, EnqueuePersist, BeginAppend, RefuseRecord,
      AppendLands, AppendFails, PreflightRecorder, PersistTurn, FirstLife
  <2>3. CASE EvictState
    <3>1. UNCHANGED <<process, crashes, faults, op, side>> /\ mem' = NoState
      BY <2>3 DEF EvictState, disk
    <3>. QED  BY <1>2, <3>1 DEF RecoveryInv, Ended
  <2>4. CASE LateCleanup
    BY <1>4, <2>4 DEF LateCleanup
  <2>. QED  BY <2>2, <2>3, <2>4
<1>6. CASE Finalize
  BY <1>3, <1>6 DEF Finalize, FirstLife
<1>7. CASE Abort
  BY <1>4, <1>7 DEF Abort, disk
<1>8. CASE crashes > 0 /\ Closer
  <2>1. op.kind = "recover" /\ process = "recovering"
    BY <1>1, <1>8, CloserIs DEF OpInv, Closing
  <2>2. ASSUME process' = "recovering", op'.kind = "recover" PROVE RecoveryInv'
    BY <2>2 DEF RecoveryInv
  <2>3. ASSUME Failing, UNCHANGED process PROVE RecoveryInv'
    BY <2>1, <2>2, <2>3 DEF Failing
  <2>4. ASSUME NEW pc, Goto(pc), UNCHANGED process PROVE RecoveryInv'
    <3>1. op'.kind = op.kind
      BY <1>1, <2>4 DEF Goto, Holders
    <3>. QED  BY <2>1, <2>2, <2>4, <3>1
  <2>5. CASE SaveSide
    <3>1. CASE op' = NoOp /\ op.pc = "fail"
      <4>1. mem.side.phase = "FINALIZATION_FAILED" /\ side' = mem.side /\ mem' = mem
            /\ process' = "serving"
        BY <2>5, <3>1 DEF SaveSide, PhaseInv
      <4>. QED  BY <4>1 DEF RecoveryInv, Ended
    <3>2. ASSUME NEW pc \in {"tail", "rescan", "sealed"}, Goto(pc) PROVE RecoveryInv'
      <4>1. op'.pc = pc
        BY <1>1, <3>2 DEF Goto, Holders
      <4>2. op' # NoOp
        BY <1>2, <4>1
      <4>. QED  BY <2>4, <2>5, <3>2, <4>2 DEF SaveSide
    <3>. QED  BY <2>5, <3>1, <3>2 DEF SaveSide, AtStep
  <2>6. CASE FinalizeStart \/ FinalizeTail
    BY <2>1, <2>6 DEF FinalizeStart, FinalizeTail, Holds
  <2>7. CASE Rescan \/ AppendManifest \/ AppendSeal \/ PromoteArchive \/ MarkCancelled
    <3>1. UNCHANGED process /\ (StepFails \/ \E pc \in {"manifest", "seal", "promote", "mark"} : Goto(pc))
      BY <2>7 DEF Rescan, AppendManifest, AppendSeal, PromoteArchive, MarkCancelled, opVars
    <3>. QED  BY <1>1, <2>3, <2>4, <3>1, FailIs
  <2>8. CASE FinishSealed
    <3>1. CASE mem' = mem /\ op' = NoOp /\ process' = "serving"
      <4>1. side'.phase = "sealed" /\ mem'.side.phase = "sealed"
        BY <2>8, <3>1 DEF FinishSealed, AtStep, PhaseInv, disk
      <4>. QED  BY <3>1, <4>1 DEF RecoveryInv, Ended
    <3>. QED  BY <1>1, <2>3, <2>8, <3>1, FailIs DEF FinishSealed
  <2>9. CASE StepFaults
    <3>1. faults' # 0
      BY <1>1, <2>9 DEF StepFaults, Fault
    <3>2. CASE op' = NoOp /\ process' = "serving"
      BY <1>2, <3>1, <3>2 DEF RecoveryInv
    <3>. QED  BY <1>1, <2>3, <2>9, <3>2, FailIs DEF StepFaults
  <2>. QED  BY <1>8, <2>5, <2>6, <2>7, <2>8, <2>9 DEF Closer
<1>9. CASE crashes > 0 /\ Eraser
  <2>1. CASE EraseKey \/ EraseFiles
    <3>1. /\ UNCHANGED <<process, crashes, faults, mem>> /\ op.kind = "delete"
          /\ side'.phase = "none" \/ (side' = side /\ op.pc = "files")
      BY <1>2, <2>1 DEF EraseKey, EraseFiles, Holds, calls
    <3>2. process # "down"
      BY <3>1 DEF OpInv
    <3>. QED  BY <1>9, <3>1, <3>2 DEF RecoveryInv, Ended
  <2>2. CASE AuditDeletion
    <3>1. /\ UNCHANGED <<process, crashes, faults>> /\ op.kind = "delete" /\ op.pc = "audit"
      BY <2>2 DEF AuditDeletion, Holds, calls
    <3>2. process # "down"
      BY <3>1 DEF OpInv
    <3>3. CASE mem.stage = "ready" /\ ~mem.side.audited
      <4>1. mem' = [mem EXCEPT !.side.audited = TRUE] /\ side' = mem'.side
        BY <2>2, <3>3 DEF AuditDeletion
      <4>2. mem'.side.phase = mem.side.phase /\ side'.phase = mem.side.phase
        BY <1>1, <4>1 DEF Memories, Sides
      <4>3. process # "recovering"
        BY <1>2, <3>1, <3>3 DEF RecoveryInv
      <4>. QED  BY <1>9, <3>1, <3>2, <4>2, <4>3 DEF RecoveryInv
    <3>4. CASE ~(mem.stage = "ready" /\ ~mem.side.audited)
      <4>1. UNCHANGED <<mem, side>>
        BY <2>2, <3>4 DEF AuditDeletion
      <4>. QED  BY <1>9, <3>1, <3>2, <4>1 DEF RecoveryInv
    <3>. QED  BY <3>3, <3>4
  <2>3. CASE CompleteDeletion
    <3>1. /\ UNCHANGED <<crashes, faults, mem, side>> /\ process' = "serving"
          /\ op.kind = "delete" /\ op.pc = "receipt"
      BY <2>3 DEF CompleteDeletion, Holds, calls
    <3>2. process # "down"
      BY <3>1 DEF OpInv
    <3>3. CASE process = "serving"
      BY <1>9, <3>1, <3>3 DEF RecoveryInv
    <3>4. CASE process = "recovering"
      BY <1>2, <3>1, <3>4 DEF RecoveryInv, Ended
    <3>. QED  BY <1>1, <3>2, <3>3, <3>4
  <2>4. ASSUME NEW byOwner \in BOOLEAN, BeginDeletion(byOwner) PROVE RecoveryInv'
    <3>1. /\ process' = "serving" /\ UNCHANGED <<crashes, faults>> /\ process = "serving"
          /\ mem'.side.phase \in {"sealed", "FINALIZATION_FAILED"}
          /\ side' = side \/ side' = mem'.side
      BY <2>4, DeletionIs
    <3>. QED  BY <1>9, <3>1 DEF RecoveryInv, Ended
  <2>5. CASE ResumeDeletion
    <3>1. /\ UNCHANGED <<crashes, faults, mem, side, process>> /\ process = "serving"
      BY <2>5 DEF ResumeDeletion, disk
    <3>. QED  BY <1>9, <3>1 DEF RecoveryInv
  <2>6. CASE DeletionFaults
    <3>1. faults' # 0 /\ process' = "serving"
      BY <1>1, <2>6 DEF DeletionFaults, Fault
    <3>. QED  BY <3>1 DEF RecoveryInv
  <2>. QED  BY <1>9, <2>1, <2>2, <2>3, <2>4, <2>5, <2>6 DEF Eraser
<1>10. CASE Crash
  <2>1. process' = "down" /\ mem' = NoState
    BY <1>10 DEF Crash
  <2>. QED  BY <2>1 DEF RecoveryInv
<1>11. CASE Recover
  <2>1. mem = NoState
    BY <1>11, RecoverIs DEF RecoveryInv
  <2>2. CASE receipt = "pending"
    BY <1>11, <2>2, RecoverIs DEF RecoveryInv
  <2>3. CASE receipt = "completed"
    BY <1>2, <1>11, <2>1, <2>3, RecoverIs DEF RecoveryInv, Ended
  <2>4. CASE receipt = "none" /\ side.phase \in {"finalizing", "active"}
    BY <1>11, <2>4, RecoverIs DEF RecoveryInv
  <2>5. CASE receipt = "none" /\ side.phase \notin {"finalizing", "active"}
    <3>1. process' = "serving" /\ mem' = mem /\ side' = side
      BY <1>11, <2>5, RecoverIs DEF disk
    <3>2. side.phase \in Ended
      BY <1>1, <2>5 DEF Sides, Ended
    <3>. QED  BY <1>2, <2>1, <3>1, <3>2 DEF RecoveryInv, Ended
  <2>. QED  BY <1>1, <2>2, <2>3, <2>4, <2>5
<1>12. CASE UNCHANGED vars
  BY <1>4, <1>12 DEF vars
<1>13. crashes > 0 \/ crashes = 0
  BY <1>1
<1>14. CASE crashes = 0 /\ (Recorder \/ Closer \/ Eraser)
  <2>1. CASE Recorder
    <3>1. crashes' = crashes
      BY <2>1 DEF Recorder, InitializeState, EvictState, Persist, EnqueuePersist, BeginAppend,
        RefuseRecord, AppendLands, AppendFails, LateCleanup, PreflightRecorder
    <3>. QED  BY <1>3, <1>14, <3>1
  <2>2. CASE Closer
    BY <1>3, <1>14, <2>2, CloserIs
  <2>3. CASE Eraser
    <3>1. crashes' = crashes
      BY <2>3 DEF Eraser, EraseKey, EraseFiles, AuditDeletion, CompleteDeletion, BeginDeletion,
        ResumeDeletion, DeletionFaults
    <3>. QED  BY <1>3, <1>14, <3>1
  <2>. QED  BY <1>14, <2>1, <2>2, <2>3
<1>. QED  BY <1>5, <1>6, <1>7, <1>8, <1>9, <1>10, <1>11, <1>12, <1>13, <1>14, StepKinds

(***************************************************************************)
(* The numbers of the records.                                             *)
(***************************************************************************)
LEMMA EmptyFile == Rising(<<>>) /\ \A n : Below(<<>>, n)
  BY DEF Rising, Below

LEMMA NumbersKeep ==
  ASSUME TypeOK, NumberInv, next' = next, entering' = entering \/ entering' = 0,
         mem'.queue = mem.queue \/ mem'.queue = <<>>, Rising(spool'),
         \A n \in Nat : 0 < n /\ Below(spool, n) /\ mem.count < n
                          => Below(spool', n) /\ mem'.count < n
  PROVE  NumberInv'
<1>1. /\ next \in Nat /\ 0 < next /\ entering \in Nat
      /\ \A k \in DOMAIN mem.queue : mem.queue[k] \in Nat /\ 0 < mem.queue[k]
  BY NumberTypes
<1>2. Below(spool', next) /\ mem'.count < next
  BY <1>1 DEF NumberInv
<1>3. entering # 0 => entering < next /\ Below(spool', entering) /\ mem'.count < entering
  BY <1>1 DEF NumberInv
<1>4. \A k \in DOMAIN mem.queue :
        /\ mem.queue[k] < next /\ Below(spool', mem.queue[k]) /\ mem'.count < mem.queue[k]
        /\ entering # 0 => mem.queue[k] < entering
  BY <1>1 DEF NumberInv
<1>5. \A k, l \in DOMAIN mem.queue : k < l => mem.queue[k] < mem.queue[l]
  BY DEF NumberInv
<1>6. CASE mem'.queue = mem.queue
  BY <1>2, <1>3, <1>4, <1>5, <1>6 DEF NumberInv
<1>7. CASE mem'.queue = <<>>
  BY <1>2, <1>3, <1>7 DEF NumberInv
<1>. QED  BY <1>6, <1>7

LEMMA NumbersLeave ==
  ASSUME TypeOK, NumberInv, next' = next, entering' = entering,
         mem.queue # <<>>, mem'.queue = Tail(mem.queue), Rising(spool'),
         \A n \in Nat : Head(mem.queue) < n /\ Below(spool, n) /\ mem.count < n
                          => Below(spool', n) /\ mem'.count < n
  PROVE  NumberInv'
<1>1. /\ next \in Nat /\ 0 < next /\ entering \in Nat
      /\ mem.queue \in Seq(1 .. MaxRecords)
      /\ \A k \in DOMAIN mem.queue : mem.queue[k] \in Nat /\ 0 < mem.queue[k]
  BY NumberTypes
<1>2. /\ 1 \in DOMAIN mem.queue /\ Head(mem.queue) = mem.queue[1]
      /\ \A k \in DOMAIN Tail(mem.queue) :
           k + 1 \in DOMAIN mem.queue /\ 1 < k + 1 /\ Tail(mem.queue)[k] = mem.queue[k + 1]
  BY HeadIs
<1>3. Below(spool', next) /\ mem'.count < next
  BY <1>1, <1>2 DEF NumberInv
<1>4. entering # 0 => entering < next /\ Below(spool', entering) /\ mem'.count < entering
  BY <1>1, <1>2 DEF NumberInv
<1>5. \A k \in DOMAIN mem.queue : 1 < k =>
        /\ mem.queue[k] < next /\ Below(spool', mem.queue[k]) /\ mem'.count < mem.queue[k]
        /\ entering # 0 => mem.queue[k] < entering
  <2>. SUFFICES ASSUME NEW k \in DOMAIN mem.queue, 1 < k
                PROVE  /\ mem.queue[k] < next /\ Below(spool', mem.queue[k])
                       /\ mem'.count < mem.queue[k]
                       /\ entering # 0 => mem.queue[k] < entering
    OBVIOUS
  <2>1. Head(mem.queue) < mem.queue[k]
    BY <1>2 DEF NumberInv
  <2>. QED  BY <1>1, <2>1 DEF NumberInv
<1>6. \A k \in DOMAIN mem'.queue :
        /\ mem'.queue[k] < next /\ Below(spool', mem'.queue[k]) /\ mem'.count < mem'.queue[k]
        /\ entering # 0 => mem'.queue[k] < entering
  BY <1>2, <1>5
<1>7. \A k, l \in DOMAIN mem'.queue : k < l => mem'.queue[k] < mem'.queue[l]
  <2>. SUFFICES ASSUME NEW k \in DOMAIN mem'.queue, NEW l \in DOMAIN mem'.queue, k < l
                PROVE  mem'.queue[k] < mem'.queue[l]
    OBVIOUS
  <2>1. k \in Nat /\ l \in Nat
    <3>1. Tail(mem.queue) \in Seq(1 .. MaxRecords)
      BY HeadIs
    <3>. QED  BY <3>1
  <2>2. k + 1 \in DOMAIN mem.queue /\ l + 1 \in DOMAIN mem.queue /\ k + 1 < l + 1
    BY <1>2, <2>1
  <2>3. mem.queue[k + 1] < mem.queue[l + 1]
    BY <2>2 DEF NumberInv
  <2>. QED  BY <1>2, <2>3
<1>. QED  BY <1>3, <1>4, <1>6, <1>7 DEF NumberInv

LEMMA NumberStep == TypeOK /\ OpInv /\ MemInv /\ NumberInv /\ [Next]_vars => NumberInv'
<1>. SUFFICES ASSUME TypeOK, OpInv, MemInv, NumberInv, [Next]_vars PROVE NumberInv'
  OBVIOUS
<1>1. /\ next \in Nat /\ 0 < next /\ entering \in Nat /\ mem.count \in Nat
      /\ mem.queue \in Seq(1 .. MaxRecords)
      /\ \A k \in DOMAIN mem.queue : mem.queue[k] \in Nat /\ 0 < mem.queue[k]
      /\ spool \in Seq(Lines) /\ mem \in Memories
  BY NumberTypes
<1>2. NoState.queue = <<>> /\ NoState.count = 0
  BY DEF NoState
<1>3. ASSUME next' = next, entering' = entering \/ entering' = 0,
             mem'.queue = mem.queue \/ mem'.queue = <<>>,
             mem'.count = mem.count \/ mem'.count = 0,
             spool' = spool \/ spool' = <<>>
      PROVE  NumberInv'
  <2>1. Rising(spool') /\ \A n : Below(spool, n) => Below(spool', n)
    BY <1>3, EmptyFile DEF NumberInv
  <2>2. \A n \in Nat : 0 < n /\ mem.count < n => mem'.count < n
    BY <1>3
  <2>. QED  BY <1>3, <2>1, <2>2, NumbersKeep
<1>4. CASE Recorder
  <2>1. CASE InitializeState
    <3>1. UNCHANGED <<next, entering, spool>>
      BY <2>1, InitializeIs DEF calls
    <3>2. CASE Loadable /\ mem'.queue = mem.queue /\ mem'.count = Loaded.count
      <4>1. \A n \in Nat : 0 < n /\ Below(spool, n) => mem'.count < n
        BY <3>2, LoadableCounts DEF NumberInv
      <4>. QED  BY <3>1, <3>2, <4>1, NumbersKeep DEF NumberInv
    <3>3. CASE (mem'.queue = mem.queue /\ mem'.count = 0) \/ mem' = NoState
      BY <1>2, <1>3, <3>1, <3>3
    <3>. QED  BY <2>1, <3>2, <3>3, InitializeIs
  <2>2. CASE EvictState
    BY <1>2, <1>3, <2>2 DEF EvictState, disk, calls
  <2>3. CASE Persist
    <3>1. /\ next' = next + 1 /\ (entering' = next \/ entering' = 0)
          /\ UNCHANGED <<mem, spool>>
      BY <2>3 DEF Persist, disk
    <3>2. Below(spool, next + 1)
      <4>1. \A i \in DOMAIN spool : IsRecord(spool[i]) =>
              spool[i].n \in Int /\ 0 < spool[i].n /\ spool[i].n < next
        BY <1>1, LineType, ArchiveAssumption DEF NumberInv, Below, ArchiveAssumption
      <4>. QED  BY <1>1, <4>1 DEF Below
    <3>3. Rising(spool) /\ Below(spool, next) /\ mem.count < next /\ mem.count < next + 1
      BY <1>1 DEF NumberInv
    <3>4. \A k \in DOMAIN mem.queue :
            /\ mem.queue[k] < next /\ mem.queue[k] < next + 1
            /\ Below(spool, mem.queue[k]) /\ mem.count < mem.queue[k]
      BY <1>1 DEF NumberInv
    <3>5. \A k, l \in DOMAIN mem.queue : k < l => mem.queue[k] < mem.queue[l]
      BY DEF NumberInv
    <3>6. next < next + 1
      BY <1>1
    <3>. QED  BY <3>1, <3>2, <3>3, <3>4, <3>5, <3>6 DEF NumberInv
  <2>4. CASE EnqueuePersist
    <3>1. /\ entering # 0 /\ entering' = 0 /\ UNCHANGED <<next, spool>>
          /\ \/ mem' = mem
             \/ mem' = [StateForSession EXCEPT !.queue = Append(@, entering)]
      BY <2>4 DEF EnqueuePersist, disk, calls
    <3>2. CASE mem' = mem
      BY <1>3, <3>1, <3>2
    <3>3. CASE mem' = [StateForSession EXCEPT !.queue = Append(@, entering)]
      <4>1. /\ mem'.queue = Append(mem.queue, entering) /\ mem'.count = mem.count
        BY <3>3, StateIs DEF Memories
      <4>2. /\ DOMAIN mem.queue = 1 .. Len(mem.queue) /\ Len(mem.queue) \in Nat
            /\ DOMAIN mem'.queue = 1 .. Len(mem.queue) + 1
            /\ \A k \in 1 .. Len(mem.queue) : mem'.queue[k] = mem.queue[k]
            /\ mem'.queue[Len(mem.queue) + 1] = entering
        BY <1>1, <4>1
      <4>3. entering < next /\ Below(spool, entering) /\ mem.count < entering
        BY <3>1 DEF NumberInv
      <4>4. \A k \in DOMAIN mem.queue :
              /\ mem.queue[k] < next /\ Below(spool, mem.queue[k]) /\ mem.count < mem.queue[k]
              /\ mem.queue[k] < entering
        BY <3>1 DEF NumberInv
      <4>5. \A k \in DOMAIN mem'.queue :
              mem'.queue[k] < next /\ Below(spool, mem'.queue[k]) /\ mem.count < mem'.queue[k]
        BY <4>2, <4>3, <4>4
      <4>6. \A k, l \in DOMAIN mem'.queue : k < l => mem'.queue[k] < mem'.queue[l]
        <5>. SUFFICES ASSUME NEW k \in DOMAIN mem'.queue, NEW l \in DOMAIN mem'.queue, k < l
                      PROVE  mem'.queue[k] < mem'.queue[l]
          OBVIOUS
        <5>1. k \in DOMAIN mem.queue /\ (l \in DOMAIN mem.queue \/ l = Len(mem.queue) + 1)
          BY <4>2
        <5>2. CASE l \in DOMAIN mem.queue
          BY <4>2, <5>1, <5>2 DEF NumberInv
        <5>3. CASE l = Len(mem.queue) + 1
          BY <4>2, <4>4, <5>1, <5>3
        <5>. QED  BY <5>1, <5>2, <5>3
      <4>. QED  BY <3>1, <4>1, <4>5, <4>6 DEF NumberInv
    <3>. QED  BY <3>1, <3>2, <3>3
  <2>5. CASE BeginAppend \/ LateCleanup \/ PreflightRecorder
    <3>1. mem'.queue = mem.queue /\ mem'.count = mem.count
      BY <1>1, <2>5 DEF BeginAppend, LateCleanup, PreflightRecorder, Memories
    <3>2. UNCHANGED <<next, entering>> /\ (spool' = spool \/ spool' = <<>>)
      BY <2>5 DEF BeginAppend, LateCleanup, PreflightRecorder, disk, calls
    <3>. QED  BY <1>3, <3>1, <3>2
  <2>6. CASE RefuseRecord
    <3>1. /\ mem' = [mem EXCEPT !.queue = Tail(@), !.failure = TRUE]
          /\ UNCHANGED <<next, entering, spool>> /\ mem.queue # <<>>
      BY <2>6 DEF RefuseRecord, PersistTurn, disk
    <3>2. mem'.queue = Tail(mem.queue) /\ mem'.count = mem.count
      BY <1>1, <3>1 DEF Memories
    <3>. QED  BY <3>1, <3>2, NumbersLeave DEF NumberInv
  <2>7. CASE AppendLands \/ AppendFails
    <3>1. /\ UNCHANGED <<next, entering>> /\ mem.queue # <<>>
          /\ spool' \in Remains(spool, Record(Head(mem.queue)))
      BY <2>7, PendingIs DEF AppendLands, AppendFails, MemInv
    <3>2. mem'.queue = Tail(mem.queue) /\ (mem'.count = mem.count \/ mem'.count = mem.count + 1)
      BY <1>1, <2>7 DEF AppendLands, AppendFails, Memories
    <3>3. /\ Record(Head(mem.queue)) \in Lines
          /\ Record(Head(mem.queue)).n = Head(mem.queue)
          /\ 0 < Head(mem.queue) /\ Below(spool, Head(mem.queue))
          /\ mem.count < Head(mem.queue) /\ Head(mem.queue) \in Nat
      BY <3>1, PendingIs
    <3>4. /\ Rising(spool')
          /\ \A n \in Nat : Below(spool, n) /\ Head(mem.queue) < n => Below(spool', n)
      BY <1>1, <3>1, <3>3, RemainsAre DEF NumberInv
    <3>5. \A n \in Nat : Head(mem.queue) < n => mem'.count < n
      BY <1>1, <3>2, <3>3
    <3>. QED  BY <3>1, <3>2, <3>4, <3>5, NumbersLeave
  <2>. QED  BY <1>4, <2>1, <2>2, <2>3, <2>4, <2>5, <2>6, <2>7 DEF Recorder
<1>5. CASE Finalize
  <2>1. mem' = StateForSession /\ UNCHANGED <<spool, next, entering>>
    BY <1>5 DEF Finalize, disk, calls
  <2>. QED  BY <1>3, <2>1, StateIs
<1>6. CASE Abort
  BY <1>3, <1>6 DEF Abort, disk, calls
<1>7. CASE Closer
  <2>1. UNCHANGED <<next, entering>>
    BY <1>7, CloserIs
  <2>2. StepFails => mem'.queue = mem.queue /\ mem'.count = mem.count
    BY <1>1, FailIs DEF TypeOK, Failing
  <2>3. Manifest(mem.count) \in Lines /\ Seal(mem.count) \in Lines
        /\ ~IsRecord(Manifest(mem.count)) /\ ~IsRecord(Seal(mem.count))
    BY LineIs DEF TypeOK, Memories
  <2>4. ASSUME NEW line \in Lines, ~IsRecord(line), spool' \in Remains(spool, line),
               mem'.queue = mem.queue, mem'.count = mem.count
        PROVE  NumberInv'
    <3>1. Rising(spool') /\ \A n : Below(spool, n) => Below(spool', n)
      BY <1>1, <2>4, RemainsAre DEF NumberInv
    <3>. QED  BY <2>1, <2>4, <3>1, NumbersKeep
  <2>5. CASE FinalizeStart \/ FinalizeTail \/ MarkCancelled \/ FinishSealed \/ SaveSide
    <3>1. mem'.queue = mem.queue /\ mem'.count = mem.count
      BY <1>1, <2>2, <2>5 DEF FinalizeStart, FinalizeTail, MarkCancelled, FinishSealed, SaveSide, Memories
    <3>2. spool' = spool
      BY <2>5 DEF FinalizeStart, FinalizeTail, MarkCancelled, FinishSealed, SaveSide, disk
    <3>. QED  BY <1>3, <2>1, <3>1, <3>2
  <2>6. CASE PromoteArchive
    <3>1. mem'.queue = mem.queue /\ mem'.count = mem.count
      BY <1>1, <2>2, <2>6 DEF PromoteArchive, Memories
    <3>2. spool' = spool \/ spool' = <<>>
      BY <2>6 DEF PromoteArchive
    <3>. QED  BY <1>3, <2>1, <3>1, <3>2
  <2>7. CASE Rescan
    <3>1. CASE Readable(spool)
      <4>1. spool' = Records(spool) /\ mem' = [mem EXCEPT !.count = Len(Records(spool))]
        BY <2>7, <3>1 DEF Rescan
      <4>2. mem'.queue = mem.queue /\ mem'.count = RecordCount(spool)
        BY <1>1, <4>1, RecordsAre DEF Memories
      <4>3. Rising(spool') /\ \A n : Below(spool, n) => Below(spool', n)
        BY <1>1, <3>1, <4>1, RecordsKeep DEF NumberInv
      <4>4. \A n \in Nat : 0 < n /\ Below(spool, n) => RecordCount(spool) < n
        BY <1>1, CountIsBelow DEF NumberInv
      <4>. QED  BY <2>1, <4>2, <4>3, <4>4, NumbersKeep
    <3>2. CASE ~Readable(spool)
      BY <1>3, <2>1, <2>2, <2>7, <3>2 DEF Rescan
    <3>. QED  BY <3>1, <3>2
  <2>8. CASE AppendManifest \/ AppendSeal
    <3>1. mem'.queue = mem.queue /\ mem'.count = mem.count
      BY <2>2, <2>8 DEF AppendManifest, AppendSeal
    <3>2. \/ spool' \in Remains(spool, Manifest(mem.count))
          \/ spool' \in Remains(spool, Seal(mem.count))
      BY <2>8 DEF AppendManifest, AppendSeal, Remains
    <3>. QED  BY <2>3, <2>4, <3>1, <3>2
  <2>9. CASE StepFaults
    <3>1. mem'.queue = mem.queue /\ mem'.count = mem.count
      BY <2>2, <2>9 DEF StepFaults
    <3>2. \/ spool' \in Remains(spool, Manifest(mem.count))
          \/ spool' \in Remains(spool, Seal(mem.count))
          \/ spool' = spool
      BY <2>9 DEF StepFaults
    <3>. QED  BY <1>3, <2>1, <2>3, <2>4, <3>1, <3>2
  <2>. QED  BY <1>7, <2>5, <2>6, <2>7, <2>8, <2>9 DEF Closer
<1>8. CASE Eraser
  <2>1. ASSUME NEW byOwner \in BOOLEAN, BeginDeletion(byOwner) PROVE NumberInv'
    BY <1>3, <2>1, DeletionIs DEF calls, Stays
  <2>2. CASE ~(\E byOwner \in BOOLEAN : BeginDeletion(byOwner))
    <3>1. UNCHANGED <<next, entering>> /\ (spool' = spool \/ spool' = <<>>)
      BY <1>8, <2>2 DEF Eraser, EraseKey, EraseFiles, AuditDeletion, CompleteDeletion,
        ResumeDeletion, DeletionFaults, disk, calls
    <3>2. mem'.queue = mem.queue /\ mem'.count = mem.count
      BY <1>1, <1>8, <2>2 DEF Eraser, EraseKey, EraseFiles, AuditDeletion, CompleteDeletion,
        ResumeDeletion, DeletionFaults, Memories
    <3>. QED  BY <1>3, <3>1, <3>2
  <2>. QED  BY <2>1, <2>2
<1>9. CASE Crash
  <2>1. entering' = 0 /\ next' = next /\ mem' = NoState /\ spool' \in InFlight
    BY <1>9 DEF Crash
  <2>3. Rising(spool') /\ Below(spool', next)
    BY <2>1, InFlightIs
  <2>. QED  BY <1>1, <1>2, <2>1, <2>3 DEF NumberInv
<1>10. CASE Recover
  <2>1. UNCHANGED <<next, entering>>
    BY <1>10, RecoverIs DEF calls
  <2>2. (mem'.queue = mem.queue /\ mem'.count = mem.count) \/ (mem'.queue = <<>> /\ mem'.count = 0)
    BY <1>2, <1>10, RecoverIs
  <2>3. spool' = spool \/ spool' = <<>>
    BY <1>10, RecoverIs DEF disk
  <2>. QED  BY <1>3, <2>1, <2>2, <2>3
<1>11. CASE UNCHANGED vars
  BY <1>3, <1>11 DEF vars
<1>. QED  BY <1>4, <1>5, <1>6, <1>7, <1>8, <1>9, <1>10, <1>11, StepKinds

(***************************************************************************)
(* The ledger.                                                             *)
(***************************************************************************)
LEMMA PlainKeeps ==
  ASSUME NEW file \in Seq(Lines), Plain(file), NEW line \in Lines, IsRecord(line),
         NEW s \in Remains(file, line)
  PROVE  Plain(s)
<1>1. ASSUME NEW l \in Lines, IsRecord(l) \/ l = Torn PROVE Plain(Append(file, l))
  <2>. DEFINE new == Append(file, l)
  <2>1. /\ Len(file) \in Nat /\ DOMAIN file = 1 .. Len(file) /\ DOMAIN new = 1 .. Len(file) + 1
        /\ \A i \in 1 .. Len(file) : new[i] = file[i]
        /\ new[Len(file) + 1] = l
    OBVIOUS
  <2>. HIDE DEF new
  <2>2. \A i \in DOMAIN new : i \in DOMAIN file \/ i = Len(file) + 1
    BY <2>1
  <2>3. Plain(new)
    BY <1>1, <2>1, <2>2 DEF Plain
  <2>. QED  BY <2>3 DEF new
<1>. QED  BY <1>1, LineIs DEF Remains

LEMMA LedgerKeeps ==
  ASSUME LedgerInv, receipt = "none", UNCHANGED <<archive, before, acked>>,
         Ids(spool) \subseteq Ids(spool'), Noted(spool) => Noted(spool'),
         side'.ready \/ mem'.side.ready => side.ready \/ mem.side.ready,
         side'.phase = "sealed" \/ mem'.side.phase = "sealed"
           => side.phase = "sealed" \/ mem.side.phase = "sealed",
         side'.phase \in {"finalizing", "sealed"} => side'.ready,
         mem'.side.phase \in {"finalizing", "sealed"} => mem'.side.ready,
         side'.phase \in {"none", "active"} => Plain(spool')
  PROVE  LedgerInv'
<1>1. acked' \subseteq Ids(spool') \/ archive' # <<>>
  BY DEF LedgerInv
<1>2. before' \subseteq acked'
  BY DEF LedgerInv
<1>3. archive' # <<>> => /\ Verified(archive') /\ Rising(archive')
                         /\ before' \subseteq Ids(archive') /\ Noted(archive')
  BY DEF LedgerInv
<1>4. /\ side'.phase = "sealed" \/ mem'.side.phase = "sealed" => archive' # <<>>
      /\ side'.ready \/ mem'.side.ready => Noted(spool') \/ archive' # <<>>
  BY DEF LedgerInv
<1>. QED  BY <1>1, <1>2, <1>3, <1>4 DEF LedgerInv

LEMMA LedgerStep ==
  TypeOK /\ OpInv /\ MemInv /\ PhaseInv /\ NumberInv /\ LedgerInv /\ [Next]_vars => LedgerInv'
<1>. SUFFICES ASSUME TypeOK, OpInv, MemInv, PhaseInv, NumberInv, LedgerInv, [Next]_vars
              PROVE  LedgerInv'
  OBVIOUS
<1>1. /\ mem \in Memories /\ mem.queue \in Seq(1 .. MaxRecords) /\ op \in Holders
      /\ side \in Sides /\ mem.side \in Sides /\ receipt \in {"none", "pending", "completed"}
      /\ spool \in Seq(Lines) /\ Rising(spool)
  BY DEF TypeOK, Memories, NumberInv
<1>2. /\ NoState.side.phase = "none" /\ ~NoState.side.ready
      /\ Fresh.phase = "active" /\ ~Fresh.ready /\ NoOp.pc = "none" /\ NoSide.phase = "none"
  BY DEF NoState, NoSide, Fresh, NoOp
<1>3. CASE receipt' # "none"
  BY <1>3 DEF LedgerInv
<1>4. receipt = "none" =>
        /\ side.phase \in {"finalizing", "sealed"} => side.ready
        /\ mem.side.phase \in {"finalizing", "sealed"} => mem.side.ready
        /\ side.phase \in {"none", "active"} => Plain(spool)
  BY DEF LedgerInv
<1>5. ASSUME receipt = "none", UNCHANGED <<archive, before, acked, side>>,
             Ids(spool) \subseteq Ids(spool'), Noted(spool) => Noted(spool'),
             mem'.side.ready => side.ready \/ mem.side.ready,
             mem'.side.phase = "sealed" => side.phase = "sealed" \/ mem.side.phase = "sealed",
             mem'.side.phase \in {"finalizing", "sealed"} => mem'.side.ready,
             side.phase \in {"none", "active"} => Plain(spool')
      PROVE  LedgerInv'
  BY <1>4, <1>5, LedgerKeeps
<1>6. ASSUME receipt = "none", UNCHANGED <<archive, before, acked, side, spool>>, mem'.side = mem.side
      PROVE  LedgerInv'
  BY <1>4, <1>5, <1>6
<1>7. CASE Recorder /\ receipt' = "none"
  <2>0. receipt = "none"
    BY <1>7 DEF Recorder, InitializeState, EvictState, Persist, EnqueuePersist, BeginAppend,
      RefuseRecord, AppendLands, AppendFails, LateCleanup, PreflightRecorder, disk
  <2>1. CASE InitializeState
    <3>1. UNCHANGED <<archive, before, acked, spool>>
      BY <2>1, InitializeIs DEF calls
    <3>2. CASE side' = side /\ (mem' = NoState \/ mem'.side = side)
      BY <1>2, <1>4, <1>5, <2>0, <3>1, <3>2
    <3>3. CASE side = NoSide /\ side' = Fresh /\ mem'.side = Fresh
      <4>1. Plain(spool)
        BY <1>2, <1>4, <2>0, <3>3
      <4>. QED  BY <1>2, <2>0, <3>1, <3>3, <4>1, LedgerKeeps
    <3>. QED  BY <2>1, <3>2, <3>3, InitializeIs
  <2>2. CASE EvictState
    BY <1>2, <1>4, <1>5, <2>0, <2>2 DEF EvictState, disk, calls
  <2>3. CASE Persist
    BY <1>6, <2>0, <2>3 DEF Persist, disk
  <2>4. CASE EnqueuePersist
    <3>1. /\ UNCHANGED <<archive, before, acked, spool, side>>
          /\ \/ mem' = mem
             \/ mem' = [StateForSession EXCEPT !.queue = Append(@, entering)]
      BY <2>4 DEF EnqueuePersist, disk, calls
    <3>2. CASE mem' = mem
      BY <1>6, <2>0, <3>1, <3>2
    <3>3. CASE mem' = [StateForSession EXCEPT !.queue = Append(@, entering)]
      <4>1. mem'.side = StateForSession.side
        BY <3>3, StateIs DEF Memories
      <4>2. mem'.side = mem.side \/ mem'.side = Fresh
        BY <4>1, StateIs
      <4>. QED  BY <1>2, <1>4, <1>5, <2>0, <3>1, <4>2
    <3>. QED  BY <3>1, <3>2, <3>3
  <2>5. CASE BeginAppend \/ RefuseRecord \/ LateCleanup
    <3>1. mem'.side = mem.side /\ UNCHANGED <<archive, before, acked, spool, side>>
      BY <1>1, <2>0, <2>5 DEF BeginAppend, RefuseRecord, LateCleanup, disk, calls, Memories
    <3>. QED  BY <1>6, <2>0, <3>1
  <2>6. CASE AppendLands \/ AppendFails
    <3>1. /\ mem.queue # <<>>
          /\ spool' \in Remains(spool, Record(Head(mem.queue)))
          /\ UNCHANGED <<archive, before, side>>
      BY <2>6, PendingIs DEF AppendLands, AppendFails, MemInv
    <3>2. mem'.side = mem.side
      BY <1>1, <2>6 DEF AppendLands, AppendFails, Memories
    <3>3. /\ Record(Head(mem.queue)) \in Lines /\ IsRecord(Record(Head(mem.queue)))
          /\ Record(Head(mem.queue)).n = Head(mem.queue)
          /\ 0 < Head(mem.queue) /\ Below(spool, Head(mem.queue))
      BY <3>1, PendingIs
    <3>4. Ids(spool) \subseteq Ids(spool') /\ (Noted(spool) => Noted(spool'))
      BY <1>1, <3>1, <3>3, RemainsAre
    <3>5. side.phase \in {"none", "active"} => Plain(spool')
      BY <1>1, <1>4, <2>0, <3>1, <3>3, PlainKeeps
    <3>6. CASE acked' = acked
      BY <1>4, <1>5, <2>0, <3>1, <3>2, <3>4, <3>5, <3>6
    <3>7. CASE AppendLands /\ acked' = acked \cup {Head(mem.queue)}
      <4>1. Head(mem.queue) \in Ids(spool')
        BY <1>1, <3>3, <3>7, AppendLine DEF AppendLands
      <4>2. acked' \subseteq Ids(spool') \/ archive' # <<>>
        BY <2>0, <3>1, <3>4, <3>7, <4>1 DEF LedgerInv
      <4>3. before' \subseteq acked'
        BY <2>0, <3>1, <3>7 DEF LedgerInv
      <4>4. /\ archive' # <<>> => /\ Verified(archive') /\ Rising(archive')
                                  /\ before' \subseteq Ids(archive') /\ Noted(archive')
            /\ side'.phase = "sealed" \/ mem'.side.phase = "sealed" => archive' # <<>>
            /\ side'.ready \/ mem'.side.ready => Noted(spool') \/ archive' # <<>>
        BY <2>0, <3>1, <3>2, <3>4 DEF LedgerInv
      <4>. QED  BY <1>4, <2>0, <3>1, <3>2, <3>5, <4>2, <4>3, <4>4 DEF LedgerInv
    <3>. QED  BY <2>6, <3>6, <3>7 DEF AppendLands, AppendFails
  <2>7. CASE PreflightRecorder
    <3>1. /\ mem.stage = "ready" /\ mem.side.phase = "active" /\ Readable(spool)
          /\ mem' = [mem EXCEPT !.side.ready = TRUE] /\ (side' = mem'.side \/ side' = side)
          /\ UNCHANGED <<archive, before, acked, spool>>
      BY <2>7 DEF PreflightRecorder, calls
    <3>2. mem'.side.phase = "active"
      BY <1>1, <3>1 DEF Memories, Sides
    <3>3. side.phase = "active" /\ Plain(spool)
      BY <1>4, <2>0, <3>1 DEF PhaseInv
    <3>4. Noted(spool)
      <4>1. 1 \in DOMAIN spool /\ spool[1] # Torn
        <5>1. spool # <<>> /\ Torn \notin Range(spool)
          BY <3>1 DEF Readable
        <5>2. 1 \in DOMAIN spool
          BY <1>1, <5>1
        <5>. QED  BY <5>1, <5>2 DEF Range
      <4>. QED  BY <3>3, <4>1 DEF Plain, Noted
    <3>5. side'.phase = "active"
      BY <3>1, <3>2, <3>3
    <3>6. acked' \subseteq Ids(spool') \/ archive' # <<>>
      BY <2>0, <3>1 DEF LedgerInv
    <3>7. /\ before' \subseteq acked'
          /\ archive' # <<>> => /\ Verified(archive') /\ Rising(archive')
                                /\ before' \subseteq Ids(archive') /\ Noted(archive')
      BY <2>0, <3>1 DEF LedgerInv
    <3>. QED  BY <3>1, <3>2, <3>3, <3>4, <3>5, <3>6, <3>7 DEF LedgerInv
  <2>. QED  BY <1>7, <2>1, <2>2, <2>3, <2>4, <2>5, <2>6, <2>7 DEF Recorder
<1>8. CASE Finalize
  <2>1. /\ receipt = "none" /\ Unasked /\ mem' = StateForSession /\ before' = acked
        /\ UNCHANGED <<archive, acked, spool, side, receipt>>
    BY <1>2, <1>8 DEF Finalize, FirstLife, Unasked, disk, calls
  <2>2. archive = <<>>
    BY <2>1 DEF PhaseInv
  <2>3. mem'.side = mem.side \/ mem'.side = Fresh
    BY <2>1, StateIs
  <2>. QED  BY <1>2, <2>1, <2>2, <2>3 DEF LedgerInv
<1>9. CASE Abort
  BY <1>3, <1>6, <1>9 DEF Abort, disk, calls
<1>10. CASE Closer
  <2>1. receipt = "none" /\ UNCHANGED <<acked, before>>
    BY <1>10, CloserIs
  <2>2. ASSUME StepFails, UNCHANGED <<archive, side>>, Ids(spool) \subseteq Ids(spool'),
               Noted(spool) => Noted(spool'), side.phase \in {"none", "active"} => Plain(spool')
        PROVE  LedgerInv'
    <3>1. /\ mem'.side.ready = mem.side.ready
          /\ mem'.side.phase = "FINALIZATION_FAILED" \/ mem'.side.phase = mem.side.phase
      BY <1>1, <2>2, FailIs DEF Failing
    <3>. QED  BY <1>4, <1>5, <2>1, <2>2, <3>1
  <2>3. CASE FinalizeStart
    <3>1. UNCHANGED <<archive, side, spool>>
      BY <2>3 DEF FinalizeStart, disk
    <3>2. CASE Cancelled \/ ~mem.side.ready
      BY <1>4, <2>1, <2>2, <2>3, <3>1, <3>2 DEF FinalizeStart
    <3>3. CASE ~(Cancelled \/ ~mem.side.ready)
      <4>1. mem' = [mem EXCEPT !.side.phase = "finalizing", !.side.kept = "governed"]
        BY <2>3, <3>3 DEF FinalizeStart
      <4>2. mem'.side.phase = "finalizing" /\ mem'.side.ready /\ mem.side.ready
        BY <1>1, <3>3, <4>1 DEF Memories, Sides
      <4>. QED  BY <1>4, <1>5, <2>1, <3>1, <4>2
    <3>. QED  BY <3>2, <3>3
  <2>4. CASE SaveSide
    <3>1. side' = mem.side /\ mem' = mem /\ UNCHANGED <<spool, archive>>
          /\ op.pc \in {"request", "rebuild", "mark", "fail"}
      BY <2>4 DEF SaveSide, AtStep
    <3>2. mem.side.phase \notin {"none", "active"}
      BY <3>1 DEF PhaseInv
    <3>. QED  BY <1>4, <2>1, <3>1, <3>2, LedgerKeeps
  <2>5. CASE FinalizeTail
    <3>1. UNCHANGED <<archive, side, spool>>
      BY <2>5 DEF FinalizeTail, disk
    <3>2. CASE StepFails
      BY <1>4, <2>1, <2>2, <3>1, <3>2
    <3>3. CASE mem' = [mem EXCEPT !.closed = TRUE]
      <4>1. mem'.side = mem.side
        BY <1>1, <3>3 DEF Memories
      <4>. QED  BY <1>6, <2>1, <3>1, <4>1
    <3>. QED  BY <2>5, <3>2, <3>3 DEF FinalizeTail
  <2>6. CASE Rescan
    <3>1. op.pc = "rescan" /\ UNCHANGED <<archive, side>>
      BY <2>6 DEF Rescan, AtStep
    <3>2. side.phase \notin {"none", "active"}
      BY <3>1 DEF PhaseInv
    <3>3. CASE Readable(spool)
      <4>1. spool' = Records(spool) /\ mem' = [mem EXCEPT !.count = Len(Records(spool))]
        BY <2>6, <3>3 DEF Rescan
      <4>2. mem'.side = mem.side
        BY <1>1, <4>1 DEF Memories
      <4>3. Ids(spool) \subseteq Ids(spool') /\ (Noted(spool) => Noted(spool'))
        BY <1>1, <3>3, <4>1, RecordsKeep
      <4>. QED  BY <1>4, <1>5, <2>1, <3>1, <3>2, <4>2, <4>3
    <3>4. CASE ~Readable(spool)
      BY <2>2, <2>6, <3>1, <3>2, <3>4 DEF Rescan
    <3>. QED  BY <3>3, <3>4
  <2>7. Manifest(mem.count) \in Lines /\ Seal(mem.count) \in Lines
        /\ ~IsRecord(Manifest(mem.count)) /\ ~IsRecord(Seal(mem.count))
    BY LineIs DEF TypeOK, Memories
  <2>8. CASE AppendManifest \/ AppendSeal
    <3>1. op.pc \in {"manifest", "seal"} /\ UNCHANGED <<archive, side>>
          /\ (mem' = mem \/ StepFails)
      BY <2>8 DEF AppendManifest, AppendSeal, AtStep
    <3>2. side.phase \notin {"none", "active"}
      BY <3>1 DEF PhaseInv
    <3>3. \/ spool' \in Remains(spool, Manifest(mem.count))
          \/ spool' \in Remains(spool, Seal(mem.count))
      BY <2>8 DEF AppendManifest, AppendSeal, Remains
    <3>4. Ids(spool) \subseteq Ids(spool') /\ (Noted(spool) => Noted(spool'))
      BY <1>1, <2>7, <3>3, RemainsAre
    <3>. QED  BY <1>4, <1>5, <2>1, <2>2, <3>1, <3>2, <3>4
  <2>9. CASE PromoteArchive
    <3>1. op.pc = "promote" /\ UNCHANGED side
      BY <2>9 DEF PromoteArchive, AtStep
    <3>2. CASE StepFails /\ UNCHANGED <<spool, archive>>
      BY <1>4, <2>1, <2>2, <3>1, <3>2
    <3>3. CASE /\ mem' = [mem EXCEPT !.side = SealedSide]
               /\ archive' = IF archive # <<>> THEN archive ELSE spool
               /\ spool' = IF archive # <<>> THEN spool ELSE <<>>
               /\ Verified(archive')
      <4>1. mem.side.phase = side.phase /\ side.phase \in {"finalizing", "sealed"} /\ mem.side.ready
            /\ side.ready
        BY <1>4, <2>1, <3>1 DEF PhaseInv
      <4>2. mem'.side.phase = "sealed" /\ mem'.side.ready
        BY <1>1, <3>3, <4>1 DEF Memories, SealedSide, Sides
      <4>3. archive' # <<>>
        BY <3>3 DEF Verified, Readable
      <4>4. before' \subseteq acked'
        BY <2>1 DEF LedgerInv
      <4>5. Rising(archive') /\ before' \subseteq Ids(archive') /\ Noted(archive')
        <5>1. CASE archive # <<>>
          BY <2>1, <3>3, <5>1 DEF LedgerInv
        <5>2. CASE archive = <<>>
          BY <1>1, <2>1, <3>3, <4>1, <5>2 DEF LedgerInv
        <5>. QED  BY <5>1, <5>2
      <4>. QED  BY <3>1, <3>3, <4>1, <4>2, <4>3, <4>4, <4>5 DEF LedgerInv
    <3>. QED  BY <2>9, <3>2, <3>3 DEF PromoteArchive
  <2>10. CASE MarkCancelled
    BY <1>4, <2>1, <2>2, <2>10 DEF MarkCancelled, disk
  <2>11. CASE FinishSealed
    <3>1. CASE mem' = mem
      BY <1>6, <2>1, <2>11, <3>1 DEF FinishSealed, disk
    <3>2. CASE StepFails
      BY <1>4, <2>1, <2>2, <2>11, <3>2 DEF FinishSealed, disk
    <3>. QED  BY <2>11, <3>1, <3>2 DEF FinishSealed
  <2>12. CASE StepFaults
    <3>1. UNCHANGED <<archive, side>> /\ (mem' = mem \/ StepFails)
      BY <2>12 DEF StepFaults
    <3>2. \/ op.pc = "manifest" /\ spool' \in Remains(spool, Manifest(mem.count))
          \/ op.pc = "seal" /\ spool' \in Remains(spool, Seal(mem.count))
          \/ spool' = spool
      BY <2>12 DEF StepFaults
    <3>3. side.phase \in {"none", "active"} => Plain(spool')
      BY <1>4, <2>1, <3>2 DEF PhaseInv
    <3>4. Ids(spool) \subseteq Ids(spool') /\ (Noted(spool) => Noted(spool'))
      BY <1>1, <2>7, <3>2, RemainsAre
    <3>. QED  BY <1>4, <1>5, <2>1, <2>2, <3>1, <3>3, <3>4
  <2>. QED  BY <1>10, <2>3, <2>4, <2>5, <2>6, <2>8, <2>9, <2>10, <2>11, <2>12 DEF Closer
<1>11. CASE Eraser
  <2>1. ASSUME NEW byOwner \in BOOLEAN, BeginDeletion(byOwner) PROVE LedgerInv'
    BY <1>3, <2>1, DeletionIs
  <2>2. CASE ~(\E byOwner \in BOOLEAN : BeginDeletion(byOwner))
    <3>1. receipt' = receipt \/ receipt' = "completed"
      BY <1>11, <2>2 DEF Eraser, EraseKey, EraseFiles, AuditDeletion, CompleteDeletion,
        ResumeDeletion, DeletionFaults, disk
    <3>2. op.kind = "delete" \/ receipt = "pending"
      BY <1>11, <2>2 DEF Eraser, EraseKey, EraseFiles, AuditDeletion, CompleteDeletion,
        ResumeDeletion, DeletionFaults, Holds
    <3>3. receipt' # "none"
      BY <3>1, <3>2 DEF OpInv
    <3>. QED  BY <1>3, <3>3
  <2>. QED  BY <2>1, <2>2
<1>12. CASE Crash /\ receipt' = "none"
  <2>1. /\ receipt = "none" /\ mem' = NoState /\ spool' \in InFlight
        /\ UNCHANGED <<archive, side, acked, before>>
    BY <1>12 DEF Crash
  <2>2. Ids(spool) \subseteq Ids(spool') /\ (Noted(spool) => Noted(spool'))
    BY <2>1, InFlightIs
  <2>3. side.phase \in {"none", "active"} => Plain(spool')
    <3>1. SUFFICES ASSUME side.phase \in {"none", "active"} PROVE Plain(spool')
      OBVIOUS
    <3>2. ~AtStep("manifest") /\ ~AtStep("seal")
      BY <3>1 DEF AtStep, PhaseInv
    <3>3. CASE mem.appending
      <4>1. spool' \in Remains(spool, Record(Head(mem.queue))) /\ mem.queue # <<>>
        BY <2>1, <3>2, <3>3 DEF InFlight, MemInv
      <4>. QED  BY <1>1, <1>4, <2>1, <3>1, <4>1, PendingIs, PlainKeeps
    <3>4. CASE ~mem.appending
      BY <1>4, <2>1, <3>1, <3>2, <3>4 DEF InFlight
    <3>. QED  BY <3>3, <3>4
  <2>. QED  BY <1>2, <1>5, <2>1, <2>2, <2>3
<1>13. CASE Recover
  <2>1. UNCHANGED <<acked, before>>
    BY <1>13, RecoverIs DEF calls
  <2>2. CASE receipt # "none"
    BY <1>3, <1>13, <2>2, RecoverIs DEF disk
  <2>3. CASE receipt = "none" /\ side.phase \in {"finalizing", "active"}
    <3>1. /\ UNCHANGED disk /\ mem'.side.ready = side.ready
          /\ \/ side.phase = "finalizing" /\ mem'.side.phase = "finalizing"
             \/ mem'.side.phase = "FINALIZATION_FAILED"
      BY <1>13, <2>3, RecoverIs
    <3>. QED  BY <1>4, <1>5, <2>1, <2>3, <3>1 DEF disk
  <2>4. CASE receipt = "none" /\ side.phase \notin {"finalizing", "active"}
    BY <1>6, <1>13, <2>1, <2>4, RecoverIs DEF disk
  <2>. QED  BY <2>2, <2>3, <2>4
<1>14. CASE UNCHANGED vars
  BY <1>3, <1>6, <1>14 DEF vars
<1>. QED  BY <1>3, <1>7, <1>8, <1>9, <1>10, <1>11, <1>12, <1>13, <1>14, StepKinds

-----------------------------------------------------------------------------
(***************************************************************************)
(* What follows for every behaviour.                                       *)
(***************************************************************************)
LEMMA ArchiveStart == Init => ArchiveInv
<1>. SUFFICES ASSUME Init PROVE ArchiveInv
  OBVIOUS
<1>. USE ArchiveAssumption DEF Init, ArchiveAssumption
<1>1. TypeOK
  <2>1. <<>> \in Seq(Lines) /\ 1 \in 1 .. (MaxRecords + 1)
        /\ 0 \in 0 .. MaxRecords /\ 0 \in 0 .. MaxFaults /\ 0 \in 0 .. MaxCrashes
    OBVIOUS
  <2>. QED  BY <2>1, Constants DEF TypeOK
<1>2. OpInv /\ MemInv
  BY DEF OpInv, MemInv, Closing, NoOp, NoState
<1>3. PhaseInv /\ RecoveryInv
  BY DEF PhaseInv, RecoveryInv, Unasked, NoOp, NoState, NoSide
<1>4. DeletionInv
  BY DEF DeletionInv, KeyGone, FilesGone, NoOp, NoState
<1>5. NumberInv
  BY EmptyFile DEF NumberInv, NoState
<1>6. LedgerInv
  BY DEF LedgerInv, NoState, NoSide, Plain
<1>. QED  BY <1>1, <1>2, <1>3, <1>4, <1>5, <1>6 DEF ArchiveInv

LEMMA ArchiveStep == ArchiveInv /\ [Next]_vars => ArchiveInv'
<1>. SUFFICES ASSUME ArchiveInv, [Next]_vars PROVE ArchiveInv'
  OBVIOUS
<1>. USE DEF ArchiveInv
<1>1. TypeOK' /\ OpInv'
  BY TypeStep, OpStep
<1>2. MemInv' /\ NumberInv' /\ LedgerInv'
  BY MemStep, NumberStep, LedgerStep
<1>3. PhaseInv'
  BY PhaseStep
<1>4. DeletionInv'
  BY <1>1, DeletionStep
<1>5. RecoveryInv'
  BY <1>2, RecoveryStep
<1>. QED  BY <1>1, <1>2, <1>3, <1>4, <1>5

LEMMA ArchiveHolds == Spec => []ArchiveInv
<1>1. Init => ArchiveInv
  BY ArchiveStart
<1>2. ArchiveInv /\ [Next]_vars => ArchiveInv'
  BY ArchiveStep
<1>. QED  BY <1>1, <1>2, PTL DEF Spec

(* A sealed archive is a verified ledger with every record that was        *)
(* durable when its finalization was asked for, in the order of their      *)
(* numbers, and a recovered archive is closed: whatever rebuilds, aborts,  *)
(* faults and crashes come between (#finalizeOnce,                         *)
(* #rebuildFinalizationOnce, #recoverFinalization of the artifact store).  *)
THEOREM ArchivesAreWhole == Spec => []ClosedIsWhole
<1>1. ArchiveInv => ClosedIsWhole
  <2>. SUFFICES ASSUME ArchiveInv PROVE ClosedIsWhole
    OBVIOUS
  <2>. USE DEF ArchiveInv
  <2>1. SealedIsWhole
    <3>. SUFFICES ASSUME side.phase = "sealed", receipt = "none"
                  PROVE  /\ Len(archive) > 2 /\ before \subseteq Ids(archive)
                         /\ \A i \in 1 .. (Len(archive) - 2) : IsRecord(archive[i])
                         /\ \A i, j \in 1 .. (Len(archive) - 2) :
                              i < j => archive[i].n < archive[j].n
                         /\ archive[Len(archive) - 1] = Manifest(Len(archive) - 2)
                         /\ archive[Len(archive)] = Seal(Len(archive) - 2)
      BY DEF SealedIsWhole
    <3>. DEFINE m == RecordCount(archive)
    <3>1. /\ archive \in Seq(Lines) /\ Verified(archive) /\ Rising(archive)
          /\ before \subseteq Ids(archive) /\ Noted(archive)
      BY DEF LedgerInv, TypeOK
    <3>2. /\ Len(archive) = m + 2 /\ m \in Nat
          /\ \A i \in 1 .. m : IsRecord(archive[i])
          /\ archive[m + 1] = Manifest(m) /\ archive[m + 2] = Seal(m)
      BY <3>1, VerifiedIs
    <3>3. DOMAIN archive = 1 .. Len(archive)
      BY <3>1
    <3>. HIDE DEF m
    <3>4. m > 0
      <4>1. PICK i \in DOMAIN archive : IsRecord(archive[i])
        BY <3>1 DEF Noted
      <4>2. ~IsRecord(Manifest(m)) /\ ~IsRecord(Seal(m))
        BY LineIs
      <4>. QED  BY <3>2, <3>3, <4>1, <4>2
    <3>5. Len(archive) > 2 /\ Len(archive) - 2 = m /\ Len(archive) - 1 = m + 1
      BY <3>2, <3>4
    <3>6. \A i, j \in 1 .. m : i < j => archive[i].n < archive[j].n
      BY <3>1, <3>2, <3>3 DEF Rising
    <3>. QED  BY <3>1, <3>2, <3>5, <3>6
  <2>2. RecoveryCloses
    BY DEF RecoveryCloses, RecoveryInv, Ended
  <2>. QED  BY <2>1, <2>2 DEF ClosedIsWhole
<1>. QED  BY <1>1, ArchiveHolds, PTL

(* Of a deleted archive nothing is on disk once the appends that were on   *)
(* their way have settled: a fenced append cleans up behind the deletion   *)
(* that did not wait for it (deleteEvidence, #enqueuePersist).            *)
THEOREM DeletedIsGone == Spec => []CiphertextIsGone
<1>1. ArchiveInv => CiphertextIsGone
  BY DEF ArchiveInv, CiphertextIsGone, DeletionInv, FilesGone
<1>. QED  BY <1>1, ArchiveHolds, PTL

-----------------------------------------------------------------------------
(***************************************************************************)
(* The archive is governed.                                                *)
(***************************************************************************)
Standing ==
  IF receipt = "completed" THEN "erased"
  ELSE IF receipt = "pending" THEN "erasing"
  ELSE side.phase
Verdict ==
  CASE answer = "sealed" -> "sealed"
    [] answer = "failed" -> "FINALIZATION_FAILED"
    [] OTHER -> "none"

LEMMA VerdictIs ==
  /\ answer = "sealed" => Verdict = "sealed"
  /\ answer = "failed" => Verdict = "FINALIZATION_FAILED"
  /\ answer \in {"none", "rejected"} => Verdict = "none"
  BY DEF Verdict

LEMMA VerdictBecomes ==
  /\ answer' = "sealed" => Verdict' = "sealed"
  /\ answer' = "failed" => Verdict' = "FINALIZATION_FAILED"
  /\ answer' \in {"none", "rejected"} => Verdict' = "none"
  /\ answer' = answer => Verdict' = Verdict
  BY DEF Verdict

LEMMA GovernedStays ==
  ASSUME Standing' = Standing, Verdict' = Verdict
  PROVE  [Governed!Next]_Governed!vars
BY DEF Governed!vars, Standing, Verdict

LEMMA GovernedAdvances ==
  ASSUME \/ Standing = "none" /\ Standing' = "active"
         \/ Standing = "active" /\ Standing' = "finalizing",
         Verdict' = Verdict
  PROVE  [Governed!Next]_Governed!vars
BY DEF Governed!Next, Governed!Advance, Standing, Verdict

LEMMA GovernedCloses ==
  ASSUME Verdict = "none", Verdict' \in {"none", Standing'},
         \/ Standing = "finalizing" /\ Standing' = "sealed"
         \/ Standing \in {"active", "finalizing", "sealed"} /\ Standing' = "FINALIZATION_FAILED"
  PROVE  [Governed!Next]_Governed!vars
BY DEF Governed!Next, Governed!Close, Governed!Open, Standing, Verdict

LEMMA GovernedAnswers ==
  ASSUME Verdict = "none", Standing \in {"sealed", "FINALIZATION_FAILED"},
         Standing' = Standing, Verdict' = Standing
  PROVE  [Governed!Next]_Governed!vars
BY DEF Governed!Next, Governed!Answer, Governed!Closed, Standing, Verdict

LEMMA GovernedErases ==
  ASSUME Verdict' = Verdict,
         \/ Standing \in {"sealed", "FINALIZATION_FAILED"} /\ Standing' = "erasing"
         \/ Standing \in {"active", "finalizing"} /\ Verdict = "none" /\ Standing' = "erasing"
         \/ Standing = "erasing" /\ Standing' = "erased"
  PROVE  [Governed!Next]_Governed!vars
BY DEF Governed!Next, Governed!Erase, Governed!Closed, Governed!Open, Standing, Verdict

LEMMA GovernedStep == ArchiveInv /\ [Next]_vars => [Governed!Next]_Governed!vars
<1>. SUFFICES ASSUME ArchiveInv, [Next]_vars PROVE [Governed!Next]_Governed!vars
  OBVIOUS
<1>. USE DEF ArchiveInv
<1>1. /\ mem \in Memories /\ op \in Holders /\ side \in Sides /\ mem.side \in Sides
      /\ receipt \in {"none", "pending", "completed"}
      /\ answer \in {"none", "sealed", "failed", "rejected"}
  BY DEF TypeOK, Memories
<1>2. /\ receipt = "none" => Standing = side.phase
      /\ receipt = "pending" => Standing = "erasing"
      /\ receipt = "completed" => Standing = "erased"
  BY DEF Standing
<1>3. /\ receipt' = "none" => Standing' = side'.phase
      /\ receipt' = "pending" => Standing' = "erasing"
      /\ receipt' = "completed" => Standing' = "erased"
  BY DEF Standing
<1>4. ASSUME UNCHANGED <<receipt, answer>>, receipt = "none" => side'.phase = side.phase
      PROVE  [Governed!Next]_Governed!vars
  BY <1>1, <1>2, <1>3, <1>4, VerdictBecomes, GovernedStays
<1>5. CASE Recorder
  <2>1. CASE InitializeState
    <3>1. UNCHANGED <<receipt, answer>>
      BY <2>1, InitializeIs
    <3>2. CASE side' = side
      BY <1>4, <3>1, <3>2
    <3>3. CASE side = NoSide /\ receipt = "none" /\ side' = Fresh
      <4>1. Standing = "none" /\ Standing' = "active"
        BY <1>2, <1>3, <3>1, <3>3 DEF NoSide, Fresh
      <4>. QED  BY <3>1, <4>1, VerdictBecomes, GovernedAdvances
    <3>. QED  BY <2>1, <3>2, <3>3, InitializeIs
  <2>2. CASE PreflightRecorder
    <3>1. /\ receipt = "none" /\ mem.stage = "ready" /\ mem.side.phase = "active"
          /\ mem' = [mem EXCEPT !.side.ready = TRUE] /\ (side' = mem'.side \/ side' = side)
          /\ UNCHANGED <<receipt, answer>>
      BY <2>2 DEF PreflightRecorder
    <3>2. mem'.side.phase = "active" /\ side.phase = "active"
      BY <1>1, <3>1 DEF PhaseInv, Memories, Sides
    <3>. QED  BY <1>4, <3>1, <3>2
  <2>3. CASE ~InitializeState /\ ~PreflightRecorder
    <3>1. UNCHANGED <<receipt, answer, side>>
      BY <1>5, <2>3 DEF Recorder, EvictState, Persist, EnqueuePersist, BeginAppend, RefuseRecord,
        AppendLands, AppendFails, LateCleanup, disk
    <3>. QED  BY <1>4, <3>1
  <2>. QED  BY <2>1, <2>2, <2>3
<1>6. CASE Finalize \/ Abort
  BY <1>4, <1>6 DEF Finalize, Abort, disk
<1>7. CASE Closer
  <2>1. receipt = "none" /\ receipt' = receipt /\ answer \in {"none", "rejected"}
        /\ Standing = side.phase /\ Standing' = side'.phase /\ Verdict = "none"
    BY <1>2, <1>3, <1>7, CloserIs, VerdictIs
  <2>2. CASE SaveSide
    <3>1. side' = mem.side
      BY <2>2 DEF SaveSide
    <3>2. CASE op.pc = "request" /\ UNCHANGED answer
      <4>1. Standing = "active" /\ Standing' = "finalizing"
        BY <2>1, <3>1, <3>2 DEF PhaseInv
      <4>. QED  BY <3>2, <4>1, VerdictBecomes, GovernedAdvances
    <3>3. CASE op.pc = "rebuild" /\ UNCHANGED answer
      <4>1. /\ Standing \in {"active", "finalizing", "sealed"}
            /\ Standing' \in {"finalizing", "sealed"}
            /\ Standing = "active" => Standing' = "finalizing"
            /\ Standing = "sealed" => Standing' = "sealed"
        BY <2>1, <3>1, <3>3 DEF PhaseInv
      <4>2. Verdict' = Verdict
        BY <3>3, VerdictBecomes
      <4>3. CASE Standing = "active"
        BY <4>1, <4>2, <4>3, GovernedAdvances
      <4>4. CASE Standing = "finalizing" /\ Standing' = "sealed"
        BY <2>1, <4>2, <4>4, GovernedCloses
      <4>. QED  BY <4>1, <4>2, <4>3, <4>4, GovernedStays
    <3>4. CASE op.pc = "mark" /\ UNCHANGED answer
      <4>1. Standing \in {"finalizing", "sealed"} /\ Standing' = "sealed"
        BY <2>1, <3>1, <3>4 DEF PhaseInv
      <4>2. Verdict' = Verdict
        BY <3>4, VerdictBecomes
      <4>. QED  BY <2>1, <4>1, <4>2, GovernedCloses, GovernedStays
    <3>5. CASE op.pc = "fail" /\ (answer' = "failed" \/ answer' = answer)
      <4>1. Standing # "none" /\ Standing' = "FINALIZATION_FAILED"
        BY <2>1, <3>1, <3>5 DEF PhaseInv
      <4>2. Verdict' \in {"none", "FINALIZATION_FAILED"}
        BY <2>1, <3>5, VerdictBecomes
      <4>3. Standing \in {"active", "finalizing", "sealed", "FINALIZATION_FAILED"}
        BY <1>1, <2>1, <4>1 DEF Sides
      <4>4. CASE Standing = "FINALIZATION_FAILED"
        BY <2>1, <4>1, <4>2, <4>4, GovernedStays, GovernedAnswers
      <4>. QED  BY <2>1, <4>1, <4>2, <4>3, <4>4, GovernedCloses
    <3>. QED  BY <2>2, <3>2, <3>3, <3>4, <3>5 DEF SaveSide, AtStep
  <2>3. CASE FinishSealed
    <3>1. Standing = "sealed" /\ Standing' = "sealed"
      BY <2>1, <2>3 DEF FinishSealed, AtStep, disk, PhaseInv
    <3>2. answer' = "sealed" \/ answer' = answer
      BY <2>3 DEF FinishSealed
    <3>3. Verdict' = "sealed" \/ Verdict' = Verdict
      BY <3>2, VerdictBecomes
    <3>. QED  BY <2>1, <3>1, <3>3, GovernedStays, GovernedAnswers
  <2>4. CASE StepFaults
    <3>1. side' = side /\ (answer' = "rejected" \/ answer' = answer)
      BY <2>4 DEF StepFaults
    <3>2. Verdict' = Verdict
      BY <2>1, <3>1, VerdictBecomes
    <3>. QED  BY <2>1, <3>1, <3>2, GovernedStays
  <2>5. CASE ~SaveSide /\ ~FinishSealed /\ ~StepFaults
    <3>1. UNCHANGED <<side, answer>>
      BY <1>7, <2>5 DEF Closer, FinalizeStart, FinalizeTail, Rescan, AppendManifest, AppendSeal,
        PromoteArchive, MarkCancelled, opVars, disk
    <3>. QED  BY <1>4, <2>1, <3>1
  <2>. QED  BY <2>2, <2>3, <2>4, <2>5
<1>8. CASE Eraser
  <2>1. ASSUME NEW byOwner \in BOOLEAN, BeginDeletion(byOwner)
        PROVE  [Governed!Next]_Governed!vars
    <3>1. /\ receipt = "none" /\ receipt' = "pending" /\ answer' = answer
          /\ Standing = side.phase /\ Standing' = "erasing"
      BY <1>2, <1>3, <2>1, DeletionIs
    <3>2. mem.stage = "ready" \/ side.phase \in {"sealed", "FINALIZATION_FAILED"}
      BY <2>1, DeletionIs
    <3>3. side.phase # "none"
      BY <3>1, <3>2 DEF PhaseInv
    <3>4. side.phase \in {"active", "finalizing", "sealed", "FINALIZATION_FAILED"}
      BY <1>1, <3>3 DEF Sides
    <3>5. side.phase \in {"active", "finalizing"} => Verdict = "none"
      BY <1>1, <3>1, VerdictIs DEF PhaseInv
    <3>. QED  BY <3>1, <3>4, <3>5, VerdictBecomes, GovernedErases
  <2>2. CASE CompleteDeletion
    <3>1. receipt = "pending" /\ receipt' = "completed" /\ answer' = answer
      BY <2>2 DEF CompleteDeletion, Holds, OpInv
    <3>. QED  BY <1>2, <1>3, <3>1, VerdictBecomes, GovernedErases
  <2>3. CASE ~CompleteDeletion /\ ~(\E byOwner \in BOOLEAN : BeginDeletion(byOwner))
    <3>1. UNCHANGED <<receipt, answer>>
      BY <1>8, <2>3 DEF Eraser, EraseKey, EraseFiles, AuditDeletion, ResumeDeletion,
        DeletionFaults, disk
    <3>2. op.kind = "delete" \/ receipt = "pending"
      BY <1>8, <2>3 DEF Eraser, EraseKey, EraseFiles, AuditDeletion, ResumeDeletion,
        DeletionFaults, Holds
    <3>3. receipt # "none"
      BY <3>2 DEF OpInv
    <3>. QED  BY <1>4, <3>1, <3>3
  <2>. QED  BY <2>1, <2>2, <2>3
<1>9. CASE Crash
  BY <1>4, <1>9 DEF Crash
<1>10. CASE Recover
  <2>1. UNCHANGED <<receipt, answer>> /\ (receipt # "completed" => side' = side)
    BY <1>10, RecoverIs DEF disk
  <2>. QED  BY <1>4, <2>1
<1>11. CASE UNCHANGED vars
  BY <1>4, <1>11 DEF vars
<1>. QED  BY <1>5, <1>6, <1>7, <1>8, <1>9, <1>10, <1>11, StepKinds

(* Whatever its files go through, an archive is opened once, closed as     *)
(* sealed or as failed, never sealed after it failed, and erased for ever: *)
(* the verdict that finalize answered is the one on disk until then.       *)
THEOREM ArchiveIsGoverned == Spec => Governed!Spec /\ ImplementsGovernance
<1>1. Init => Governed!Init
  BY DEF Init, Governed!Init, NoSide
<1>2. ArchiveInv /\ [Next]_vars => [Governed!Next]_Governed!vars
  BY GovernedStep
<1>. QED  BY <1>1, <1>2, ArchiveHolds, PTL DEF Spec, Governed!Spec, ImplementsGovernance
=============================================================================
