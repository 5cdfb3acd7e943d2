------------------------------ MODULE ServerProofs ------------------------------
(***************************************************************************)
(* What holds of the sessions of the server and the glossary version they  *)
(* pin, and of the delivery of a session's events to a page, for any       *)
(* sessions, commands, places, histories, budgets and bounds.              *)
(***************************************************************************)
EXTENDS MCServer, FiniteSetTheorems, SequenceTheorems, TLAPS

-----------------------------------------------------------------------------
(***************************************************************************)
(* The inductive invariant, in three groups.                               *)
(***************************************************************************)

\* The sessions whose lease counts.
Held == {s \in Session : lease[s] \in {"request", "attached"}}
CountsHeld == IsFiniteSet(Held)
              /\ memory.count = Cardinality(Held) + (IF memory.import = "leased" THEN 1 ELSE 0)

\* From here on a shutdown gives leases back under sessions that did not end.
Released == stage \in {"root", "down"}

\* Where the request of a session stands says where its lease and its slot are,
\* and the lease of a session that is open is given back by a shutdown alone.
RequestsStand ==
  \A s \in Session :
    /\ request[s] \in {"leased", "opening", "opened", "returning"} => lease[s] = "request"
    /\ request[s] = "idle" => lease[s] = "none"
    /\ request[s] = "refused" => lease[s] \in {"none", "released"}
    /\ status[s] # "none" => request[s] \in {"opened", "done"}
    /\ releasing[s] # {} => lease[s] \in {"attached", "released"}
    /\ status[s] = "open" /\ ~Released => s \in Held /\ releasing[s] = {}

Leases == CountsHeld /\ RequestsStand

\* A held lease keeps the version, and a deletion goes from receipt to file.
HeldIsKept == Held # {} => disk.file /\ ~Deleted
Deleting ==
  memory.step # "idle" =>
    /\ disk.receipt.status = "pending" /\ memory.by \in {NoCommand, disk.receipt.command}
    /\ memory.step = "complete" => ~disk.file

Version == HeldIsKept /\ Deleting /\ PinnedIsKept /\ DeletedStaysGone

\* The slots of a shutdown: each session it has to end is active or opening,
\* then being ended, and its request is past its opening.
Past == {"opened", "done", "returning", "refused"}
SlotsOK ==
  \A s \in Session :
    /\ request[s] = "opening" <=> s \in managed.opening
    /\ s \in managed.active \cup managed.ending => request[s] \in {"opened", "done"}
Closing ==
  /\ stage = "relay" <=> managed.closing # "no"
  /\ managed.closing = "openings" =>
       \A s \in ghost.due :
         /\ request[s] \in Past \cup {"opening"}
         /\ s \in managed.active \cup managed.opening \/ status[s] # "open"
  /\ managed.closing = "ends" =>
       /\ managed.opening = {}
       /\ \A s \in ghost.due :
            /\ request[s] \in Past
            /\ managed.failed \/ s \in managed.ending \/ status[s] # "open"
  /\ stage \in {"drain", "leases", "root"} =>
       \A s \in ghost.due : request[s] \in Past /\ (managed.failed \/ status[s] # "open")

Shutdown == SlotsOK /\ Closing

Inv == TypeOK /\ Leases /\ Version /\ Shutdown

-----------------------------------------------------------------------------
(***************************************************************************)
(* Types.                                                                  *)
(***************************************************************************)
LEMMA CountPositive ==
  ASSUME TypeOK, CountsHeld
  PROVE  /\ memory.count \in Nat /\ Cardinality(Held) \in Nat
         /\ Held # {} \/ memory.import = "leased" => memory.count - 1 \in Nat
         /\ memory.count = 0 => Held = {}
<1>1. memory.count \in Nat /\ Cardinality(Held) \in Nat
      /\ (Cardinality(Held) = 0 <=> Held = {})
  BY FS_CardinalityType, FS_EmptySet DEF TypeOK, CountsHeld
<1>2. Held # {} \/ memory.import = "leased" => Cardinality(Held) > 0 \/ memory.import = "leased"
  BY <1>1
<1>3. memory.count = Cardinality(Held) + (IF memory.import = "leased" THEN 1 ELSE 0)
  BY DEF CountsHeld
<1> HIDE DEF Held
<1> QED BY <1>1, <1>2, <1>3

LEMMA TypeStep ==
  ASSUME TypeOK, Leases, [Next]_vars
  PROVE  TypeOK'
<1>1. ASSUME Import PROVE TypeOK'
  BY <1>1 DEF TypeOK, Import, relayVars, leaseVars
<1>2. ASSUME ImportRead PROVE TypeOK'
  <2>1. memory.import = "leased" => memory.count - 1 \in Nat
    BY CountPositive DEF Leases
  <2>2. memory' \in [count : Nat, step : {"idle", "remove", "complete"},
                    by : Command \cup {NoCommand}, import : {"none", "written", "leased"}]
    <3>1. memory.count + 1 \in Nat
      BY DEF TypeOK
    <3>2. CASE memory' = [memory EXCEPT !.import = "none"]
      BY <3>2 DEF TypeOK
    <3>3. CASE memory' = [memory EXCEPT !.import = "leased", !.count = @ + 1]
      BY <3>1, <3>3 DEF TypeOK
    <3>4. CASE memory.import = "leased"
      BY ZenonT(40), <1>2, <2>1, <3>4 DEF TypeOK, ImportRead
    <3> QED BY <1>2, <3>2, <3>3, <3>4 DEF ImportRead
  <2> QED BY <1>2, <2>2 DEF TypeOK, ImportRead, relayVars, leaseVars
<1>3. ASSUME RemoveArtifact PROVE TypeOK'
  BY <1>3 DEF TypeOK, RemoveArtifact, relayVars, leaseVars
<1>4. ASSUME CompleteReceipt PROVE TypeOK'
  BY ZenonT(40), <1>4 DEF TypeOK, CompleteReceipt, relayVars, leaseVars
<1>5. ASSUME DeletionFails PROVE TypeOK'
  BY <1>5 DEF TypeOK, DeletionFails, relayVars, leaseVars
<1>6. ASSUME NEW c \in Command, DeleteVersion(c) PROVE TypeOK'
  <2>1. disk' \in [file : BOOLEAN, receipt : [status : {"none", "pending", "completed"},
                                             command : Command \cup {NoCommand}]]
    <3>1. Receipt("pending", c) \in [status : {"none", "pending", "completed"},
                                     command : Command \cup {NoCommand}]
      BY DEF Receipt
    <3>2. disk' = disk \/ disk' = [disk EXCEPT !.receipt = Receipt("pending", c)]
      BY <1>6 DEF DeleteVersion
    <3> QED BY <3>1, <3>2 DEF TypeOK
  <2> QED BY <1>6, <2>1 DEF TypeOK, DeleteVersion, relayVars, leaseVars
<1>7. ASSUME NEW s \in Session, Acquire(s) PROVE TypeOK'
  BY <1>7 DEF TypeOK, Acquire, relayVars, leaseVars, Count, Request
<1>8. ASSUME NEW s \in Session, Reserve(s) PROVE TypeOK'
  BY <1>8 DEF TypeOK, Reserve, relayVars, leaseVars, Request
<1>9. ASSUME NEW s \in Session, Open(s) PROVE TypeOK'
  <2>1. status' \in [Session -> {"none", "open", "closed"}] /\ request' \in [Session -> Request]
    BY <1>9 DEF TypeOK, Open, Request
  <2>2. managed' \in [active : SUBSET Session, opening : SUBSET Session,
                     ending : SUBSET Session, watched : SUBSET Session,
                     closing : {"no", "openings", "ends"}, failed : BOOLEAN]
    <3>1. CASE managed' = [managed EXCEPT !.opening = @ \ {s}, !.active = @ \cup {s},
                                          !.watched = @ \cup {s}]
      BY ZenonT(40), <3>1 DEF TypeOK
    <3>2. CASE managed' = [managed EXCEPT !.opening = @ \ {s}]
      BY <3>2 DEF TypeOK
    <3> QED BY <1>9, <3>1, <3>2 DEF Open
  <2> QED BY <1>9, <2>1, <2>2 DEF TypeOK, Open, leaseVars
<1>10. ASSUME NEW s \in Session, ReturnLease(s) PROVE TypeOK'
  <2>1. memory.count - 1 \in Nat /\ memory.count + (-1) = memory.count - 1
    BY <1>10, CountPositive DEF Leases, RequestsStand, Held, ReturnLease, TypeOK
  <2>2. memory' \in [count : Nat, step : {"idle", "remove", "complete"},
                    by : Command \cup {NoCommand}, import : {"none", "written", "leased"}]
    BY <1>10, <2>1 DEF TypeOK, ReturnLease, Count
  <2> QED BY <1>10, <2>2 DEF TypeOK, ReturnLease, Request, relayVars
<1>11. ASSUME NEW s \in Session, AttachLease(s) PROVE TypeOK'
  BY <1>11 DEF TypeOK, AttachLease, relayVars, leaseVars, Request
<1>12. ASSUME NEW s \in Session, CloseItself(s) PROVE TypeOK'
  BY <1>12 DEF TypeOK, CloseItself, relayVars, leaseVars, Request
<1>13. ASSUME NEW s \in Session, ObserveClosed(s) PROVE TypeOK'
  BY ZenonT(40), <1>13 DEF TypeOK, ObserveClosed, relayVars, leaseVars, Request
<1>14. ASSUME NEW s \in Session, EndCommand(s) PROVE TypeOK'
  BY <1>14 DEF TypeOK, EndCommand, relayVars, leaseVars, Request
<1>15. ASSUME NEW s \in Session, EndResolves(s) PROVE TypeOK'
  BY ZenonT(40), <1>15 DEF TypeOK, EndResolves, relayVars, leaseVars, Request
<1>16. ASSUME NEW s \in Session, EndFails(s) PROVE TypeOK'
  <2>1. managed' \in [active : SUBSET Session, opening : SUBSET Session,
                     ending : SUBSET Session, watched : SUBSET Session,
                     closing : {"no", "openings", "ends"}, failed : BOOLEAN]
    <3> DEFINE f == managed.failed \/ managed.closing = "ends"
    <3>1. f \in BOOLEAN /\ managed' = [managed EXCEPT !.ending = @ \ {s}, !.failed = f]
      BY <1>16, Zenon DEF EndFails
    <3> HIDE DEF f
    <3> QED BY <3>1 DEF TypeOK
  <2> QED BY <1>16, <2>1 DEF TypeOK, EndFails, leaseVars
<1>17. ASSUME NEW s \in Session, NEW who \in {"watcher", "command"}, StartRelease(s, who) PROVE TypeOK'
  BY <1>17 DEF TypeOK, StartRelease, relayVars, leaseVars, Releaser
<1>18. ASSUME NEW s \in Session, NEW who \in Releaser, FinishRelease(s, who) PROVE TypeOK'
  <2>1. lease[s] # "released" => memory.count - 1 \in Nat /\ memory.count + (-1) = memory.count - 1
    BY <1>18, CountPositive DEF Leases, RequestsStand, Held, FinishRelease, TypeOK
  <2>2. memory' \in [count : Nat, step : {"idle", "remove", "complete"},
                    by : Command \cup {NoCommand}, import : {"none", "written", "leased"}]
    BY <1>18, <2>1 DEF TypeOK, FinishRelease, Count
  <2> QED BY <1>18, <2>2 DEF TypeOK, FinishRelease, relayVars
<1>19. ASSUME Stop PROVE TypeOK'
  BY <1>19 DEF TypeOK, Stop, relayVars, leaseVars
<1>20. ASSUME CloseOpenings PROVE TypeOK'
  BY ZenonT(40), <1>20 DEF TypeOK, CloseOpenings, relayVars, leaseVars
<1>21. ASSUME CloseEnds PROVE TypeOK'
  BY <1>21 DEF TypeOK, CloseEnds, relayVars, leaseVars, Request
<1>22. ASSUME Drained PROVE TypeOK'
  BY <1>22 DEF TypeOK, Drained, relayVars, leaseVars
<1>23. ASSUME ReleaseAll PROVE TypeOK'
  BY <1>23 DEF TypeOK, ReleaseAll, relayVars, leaseVars, Releaser
<1>24. ASSUME ReleaseRoot PROVE TypeOK'
  BY <1>24 DEF TypeOK, ReleaseRoot, relayVars, leaseVars
<1>25. ASSUME Crash PROVE TypeOK'
  <2>1. ghost' \in [answered : SUBSET Command, due : SUBSET Session, crashes : Nat]
    <3>1. ghost.crashes + 1 \in Nat
      BY DEF TypeOK
    <3> QED BY <1>25, <3>1 DEF TypeOK, Crash
  <2>2. request' \in [Session -> Request]
    BY <1>25 DEF Crash, Forgotten, Request
  <2> QED BY <1>25, <2>1, <2>2 DEF TypeOK, Crash, Forgotten, NoSlots, NoMemory
<1>26. ASSUME Restart PROVE TypeOK'
  BY <1>26 DEF TypeOK, Restart, relayVars, leaseVars, Forgotten, NoSlots, NoMemory, Request
<1>27. ASSUME Listen PROVE TypeOK'
  BY <1>27 DEF TypeOK, Listen, relayVars, leaseVars
<1>28. CASE UNCHANGED vars
  BY <1>28 DEF vars, TypeOK
<1> QED
  BY <1>1, <1>2, <1>3, <1>4, <1>5, <1>6, <1>7, <1>8, <1>9, <1>10, <1>11, <1>12, <1>13, <1>14, <1>15, <1>16, <1>17, <1>18, <1>19, <1>20, <1>21, <1>22, <1>23, <1>24, <1>25, <1>26, <1>27, <1>28 DEF Next

-----------------------------------------------------------------------------
(***************************************************************************)
(* The leases that the repository counts are those that are held.          *)
(***************************************************************************)
LEMMA HeldSame ==
  ASSUME CountsHeld, Held' = Held, memory'.count = memory.count,
         memory'.import = "leased" <=> memory.import = "leased"
  PROVE  CountsHeld'
BY DEF CountsHeld

LEMMA HeldGains ==
  ASSUME CountsHeld, NEW s, s \notin Held, Held' = Held \cup {s},
         memory'.count = memory.count + 1, memory'.import = memory.import
  PROVE  CountsHeld'
<1>1. IsFiniteSet(Held) /\ Cardinality(Held) \in Nat
  BY FS_CardinalityType DEF CountsHeld
<1>2. IsFiniteSet(Held') /\ Cardinality(Held') = Cardinality(Held) + 1
  BY <1>1, FS_AddElement
<1>3. memory.count = Cardinality(Held) + (IF memory.import = "leased" THEN 1 ELSE 0)
  BY DEF CountsHeld
<1> HIDE DEF Held
<1>4. memory'.count = Cardinality(Held) + 1 + (IF memory'.import = "leased" THEN 1 ELSE 0)
  BY <1>1, <1>3
<1> QED BY <1>2, <1>4 DEF CountsHeld

LEMMA HeldLoses ==
  ASSUME CountsHeld, NEW s, s \in Held, Held' = Held \ {s},
         memory'.count = memory.count + (-1), memory'.import = memory.import
  PROVE  CountsHeld'
<1>1. IsFiniteSet(Held) /\ Cardinality(Held) \in Nat
  BY FS_CardinalityType DEF CountsHeld
<1>2. IsFiniteSet(Held') /\ Cardinality(Held') = Cardinality(Held) - 1
  BY <1>1, FS_RemoveElement
<1>3. memory.count = Cardinality(Held) + (IF memory.import = "leased" THEN 1 ELSE 0)
  BY DEF CountsHeld
<1> HIDE DEF Held
<1>4. memory'.count = Cardinality(Held) - 1 + (IF memory'.import = "leased" THEN 1 ELSE 0)
  BY <1>1, <1>3
<1> QED BY <1>2, <1>4 DEF CountsHeld

LEMMA LeasesKept ==
  ASSUME Leases, UNCHANGED <<request, status, leaseVars>>, memory'.count = memory.count,
         memory'.import = "leased" <=> memory.import = "leased", Released => Released'
  PROVE  Leases'
<1>1. Held' = Held
  BY DEF Held, leaseVars
<1>2. CountsHeld'
  BY <1>1, HeldSame DEF Leases
<1>3. RequestsStand'
  BY <1>1 DEF Leases, RequestsStand, leaseVars
<1> QED BY <1>2, <1>3 DEF Leases

\* Nothing is held in a process that begins or is gone.
LEMMA ForgottenLeases ==
  ASSUME Forgotten, memory'.count = 0, memory'.import = "none"
  PROVE  Leases'
<1>1. Held' = {}
  BY DEF Forgotten, Held
<1>2. CountsHeld'
  BY <1>1, FS_EmptySet DEF CountsHeld
<1>3. RequestsStand'
  BY DEF Forgotten, RequestsStand
<1> QED BY <1>2, <1>3 DEF Leases

LEMMA LeasesStep ==
  ASSUME TypeOK, Leases, Shutdown, [Next]_vars
  PROVE  Leases'
<1> USE DEF leaseVars, relayVars
<1>1. ASSUME Import PROVE Leases'
  BY <1>1, LeasesKept DEF Import, TypeOK, Released
<1>2. ASSUME ImportRead PROVE Leases'
  <2>1. Held' = Held /\ RequestsStand'
    BY <1>2 DEF ImportRead, Held, Leases, RequestsStand, Released
  <2>2. CountsHeld'
    <3>1. CASE memory.import = "written" /\ Deleted
      BY <1>2, <2>1, <3>1, HeldSame DEF ImportRead, TypeOK, Leases
    <3>2. CASE memory.import = "written" /\ ~Deleted
      <4>1. memory'.count = memory.count + 1 /\ memory'.import = "leased"
        BY <1>2, <3>2 DEF ImportRead, TypeOK
      <4>2. Cardinality(Held) \in Nat /\ memory.count = Cardinality(Held)
        BY <3>2, CountPositive DEF Leases, CountsHeld
      <4> QED BY <2>1, <4>1, <4>2 DEF CountsHeld, Leases
    <3>3. CASE memory.import = "leased"
      <4>1. memory'.count = memory.count - 1 /\ memory'.import = "none"
        BY <1>2, <3>3 DEF ImportRead, TypeOK
      <4>2. Cardinality(Held) \in Nat /\ memory.count = Cardinality(Held) + 1
        BY <3>3, CountPositive DEF Leases, CountsHeld
      <4> QED BY <2>1, <4>1, <4>2 DEF CountsHeld, Leases
    <3> QED BY <1>2, <3>1, <3>2, <3>3 DEF ImportRead
  <2> QED BY <2>1, <2>2 DEF Leases
<1>3. ASSUME RemoveArtifact PROVE Leases'
  BY <1>3, LeasesKept DEF RemoveArtifact, TypeOK, Released
<1>4. ASSUME CompleteReceipt PROVE Leases'
  BY <1>4, LeasesKept DEF CompleteReceipt, TypeOK, Released
<1>5. ASSUME DeletionFails PROVE Leases'
  BY <1>5, LeasesKept DEF DeletionFails, TypeOK, Released
<1>6. ASSUME NEW c \in Command, DeleteVersion(c) PROVE Leases'
  BY <1>6, LeasesKept DEF DeleteVersion, TypeOK, Released
<1>7. ASSUME NEW s \in Session, Acquire(s) PROVE Leases'
  <2>1. CASE lease' = [lease EXCEPT ![s] = "request"]
    <3>1. /\ request[s] = "idle" /\ lease[s] = "none" /\ status[s] = "none"
          /\ releasing[s] = {} /\ s \notin Held
      BY <1>7 DEF Acquire, Leases, RequestsStand, Held
    <3>2. request' = [request EXCEPT ![s] = "leased"] /\ Count(1)
      BY <1>7, <2>1, <3>1 DEF Acquire, TypeOK
    <3>3. Held' = Held \cup {s}
      BY <2>1 DEF Held, TypeOK
    <3>4. CountsHeld'
      <4>1. memory'.count = memory.count + 1 /\ memory'.import = memory.import
        BY <3>2 DEF Count, TypeOK
      <4> QED BY <3>1, <3>3, <4>1, HeldGains DEF Leases
    <3>5. RequestsStand'
      BY <1>7, <2>1, <3>1, <3>2, <3>3 DEF Acquire, Leases, RequestsStand, TypeOK, Released
    <3> QED BY <3>4, <3>5 DEF Leases
  <2>2. CASE request' = [request EXCEPT ![s] = "refused"] /\ UNCHANGED <<memory, lease>>
    <3>1. /\ request[s] = "idle" /\ lease[s] = "none" /\ status[s] = "none"
      BY <1>7 DEF Acquire, Leases, RequestsStand
    <3>2. Held' = Held
      BY <2>2 DEF Held
    <3>3. RequestsStand'
      BY <1>7, <2>2, <3>1, <3>2 DEF Acquire, Leases, RequestsStand, TypeOK, Released
    <3> QED BY <2>2, <3>2, <3>3, HeldSame DEF Leases
  <2> QED BY <1>7, <2>1, <2>2 DEF Acquire
<1>8. ASSUME NEW s \in Session, Reserve(s) PROVE Leases'
  <2>1. Held' = Held /\ UNCHANGED memory
    BY <1>8 DEF Reserve, Held
  <2>2. RequestsStand'
    BY <1>8, <2>1 DEF Reserve, Leases, RequestsStand, TypeOK, Released
  <2> QED BY <2>1, <2>2, HeldSame DEF Leases
<1>9. ASSUME NEW s \in Session, Open(s) PROVE Leases'
  <2>1. Held' = Held /\ UNCHANGED memory
    BY <1>9 DEF Open, Held
  <2>2. s \in Held /\ releasing[s] = {} /\ status[s] = "none"
    BY <1>9 DEF Open, Leases, RequestsStand, Held, TypeOK
  <2>3. RequestsStand'
    BY <1>9, <2>1, <2>2 DEF Open, Leases, RequestsStand, TypeOK, Released
  <2> QED BY <2>1, <2>3, HeldSame DEF Leases
<1>10. ASSUME NEW s \in Session, ReturnLease(s) PROVE Leases'
  <2>1. s \in Held /\ releasing[s] = {} /\ status[s] = "none" /\ Held' = Held \ {s}
    BY <1>10 DEF ReturnLease, Leases, RequestsStand, Held, TypeOK
  <2>2. memory'.count = memory.count + (-1) /\ memory'.import = memory.import
    BY <1>10 DEF ReturnLease, Count, TypeOK
  <2>3. CountsHeld'
    BY <2>1, <2>2, HeldLoses DEF Leases
  <2>4. RequestsStand'
    BY <1>10, <2>1 DEF ReturnLease, Leases, RequestsStand, TypeOK, Released
  <2> QED BY <2>3, <2>4 DEF Leases
<1>11. ASSUME NEW s \in Session, AttachLease(s) PROVE Leases'
  <2>1. s \in Held /\ releasing[s] = {} /\ Held' = Held /\ UNCHANGED memory
    BY <1>11 DEF AttachLease, Leases, RequestsStand, Held, TypeOK
  <2>2. RequestsStand'
    BY <1>11, <2>1 DEF AttachLease, Leases, RequestsStand, TypeOK, Released
  <2> QED BY <2>1, <2>2, HeldSame DEF Leases
<1>12. ASSUME NEW s \in Session, CloseItself(s) PROVE Leases'
  <2>1. Held' = Held /\ UNCHANGED memory
    BY <1>12 DEF CloseItself, Held
  <2>2. RequestsStand'
    BY <1>12, <2>1 DEF CloseItself, Leases, RequestsStand, TypeOK, Released
  <2> QED BY <2>1, <2>2, HeldSame DEF Leases
<1>13. ASSUME NEW s \in Session, ObserveClosed(s) PROVE Leases'
  BY <1>13, LeasesKept DEF ObserveClosed, Released
<1>14. ASSUME NEW s \in Session, EndCommand(s) PROVE Leases'
  BY <1>14, LeasesKept DEF EndCommand, Released
<1>15. ASSUME NEW s \in Session, EndResolves(s) PROVE Leases'
  <2>1. Held' = Held /\ UNCHANGED memory /\ request[s] \in {"opened", "done"}
    BY <1>15 DEF EndResolves, Held, Shutdown, SlotsOK
  <2>2. RequestsStand'
    BY <1>15, <2>1 DEF EndResolves, Leases, RequestsStand, TypeOK, Released
  <2> QED BY <2>1, <2>2, HeldSame DEF Leases
<1>16. ASSUME NEW s \in Session, EndFails(s) PROVE Leases'
  BY <1>16, LeasesKept DEF EndFails, Released
<1>17. ASSUME NEW s \in Session, NEW who \in {"watcher", "command"}, StartRelease(s, who)
       PROVE  Leases'
  <2>1. Held' = Held /\ UNCHANGED memory /\ lease[s] = "attached" /\ status[s] = "closed"
    BY <1>17 DEF StartRelease, Held
  <2>2. RequestsStand'
    BY <1>17, <2>1 DEF StartRelease, Leases, RequestsStand, TypeOK, Released
  <2> QED BY <2>1, <2>2, HeldSame DEF Leases
<1>18. ASSUME NEW s \in Session, NEW who \in Releaser, FinishRelease(s, who) PROVE Leases'
  <2>1. /\ releasing[s] # {} /\ lease[s] \in {"attached", "released"}
        /\ status[s] = "open" => Released
        /\ request[s] \notin {"idle", "leased", "opening", "opened", "returning"}
    BY <1>18 DEF FinishRelease, Leases, RequestsStand
  <2>2. RequestsStand'
    <3>1. \A t \in Session \ {s} : t \in Held <=> t \in Held'
      BY <1>18 DEF FinishRelease, Held, TypeOK
    <3> QED BY <1>18, <2>1, <3>1 DEF FinishRelease, Leases, RequestsStand, TypeOK, Released, Request
  <2>3. CASE lease[s] = "released"
    <3>1. Held' = Held /\ UNCHANGED memory
      BY <1>18, <2>3 DEF FinishRelease, Held, TypeOK
    <3> QED BY <2>2, <3>1, HeldSame DEF Leases
  <2>4. CASE lease[s] = "attached"
    <3>1. s \in Held /\ Held' = Held \ {s}
      BY <1>18, <2>4 DEF FinishRelease, Held, TypeOK
    <3>2. memory'.count = memory.count + (-1) /\ memory'.import = memory.import
      BY <1>18, <2>4 DEF FinishRelease, Count, TypeOK
    <3> QED BY <2>2, <3>1, <3>2, HeldLoses DEF Leases
  <2> QED BY <2>1, <2>3, <2>4
<1>19. ASSUME Stop PROVE Leases'
  BY <1>19, LeasesKept DEF Stop, Released
<1>20. ASSUME CloseOpenings PROVE Leases'
  BY <1>20, LeasesKept DEF CloseOpenings, Released
<1>21. ASSUME CloseEnds PROVE Leases'
  <2>1. Held' = Held /\ UNCHANGED memory
    BY <1>21 DEF CloseEnds, Held
  <2>2. RequestsStand'
    BY <1>21, <2>1 DEF CloseEnds, Leases, RequestsStand, TypeOK, Released, Shutdown, Closing
  <2> QED BY <2>1, <2>2, HeldSame DEF Leases
<1>22. ASSUME Drained PROVE Leases'
  BY <1>22, LeasesKept DEF Drained, Released
<1>23. ASSUME ReleaseAll PROVE Leases'
  <2>1. Held' = Held /\ UNCHANGED memory
    BY <1>23 DEF ReleaseAll, Held
  <2>2. RequestsStand'
    BY <1>23, <2>1 DEF ReleaseAll, Leases, RequestsStand, TypeOK, Released
  <2> QED BY <2>1, <2>2, HeldSame DEF Leases
<1>24. ASSUME ReleaseRoot PROVE Leases'
  BY <1>24, LeasesKept DEF ReleaseRoot, Released
<1>25. ASSUME Crash PROVE Leases'
  <2>1. Forgotten /\ memory'.count = 0 /\ memory'.import = "none"
    BY <1>25 DEF Crash, NoMemory
  <2> QED BY <2>1, ForgottenLeases
<1>26. ASSUME Restart PROVE Leases'
  <2>1. Forgotten /\ memory'.count = 0 /\ memory'.import = "none"
    BY <1>26 DEF Restart, NoMemory
  <2> QED BY <2>1, ForgottenLeases
<1>27. ASSUME Listen PROVE Leases'
  BY <1>27, LeasesKept DEF Listen, Released
<1>28. CASE UNCHANGED vars
  BY <1>28, LeasesKept DEF vars, Released
<1> QED
  BY <1>1, <1>2, <1>3, <1>4, <1>5, <1>6, <1>7, <1>8, <1>9, <1>10, <1>11, <1>12, <1>13, <1>14, <1>15, <1>16, <1>17, <1>18, <1>19, <1>20, <1>21, <1>22, <1>23, <1>24, <1>25, <1>26, <1>27, <1>28 DEF Next

-----------------------------------------------------------------------------
(***************************************************************************)
(* The version: what is pinned is kept, and what was deleted stays gone.   *)
(***************************************************************************)
LEMMA VersionKept ==
  ASSUME Version, UNCHANGED disk, memory'.step = memory.step \/ memory'.step = "idle",
         memory'.by = memory.by \/ memory'.step = "idle", ghost'.answered = ghost.answered,
         Held' \subseteq Held,
         \A s \in Session : status'[s] = "open" => status[s] = "open" \/ s \in Held
  PROVE  Version'
<1>1. HeldIsKept' /\ PinnedIsKept'
  BY DEF Version, HeldIsKept, PinnedIsKept, Deleted, Held
<1>2. Deleting'
  BY DEF Version, Deleting
<1>3. DeletedStaysGone'
  BY DEF Version, DeletedStaysGone
<1> QED BY <1>1, <1>2, <1>3 DEF Version

\* No session is open and no lease is held when a deletion is under way.
LEMMA DeletionIsAlone ==
  ASSUME Version, disk.receipt.status # "none"
  PROVE  Held = {} /\ \A s \in Session : status[s] # "open"
BY DEF Version, HeldIsKept, PinnedIsKept, Deleted

LEMMA VersionStep ==
  ASSUME TypeOK, Leases, Version, [Next]_vars
  PROVE  Version'
<1> USE DEF leaseVars, relayVars
<1>1. ASSUME Import PROVE Version'
  <2>1. ~Deleted /\ Held' = Held /\ UNCHANGED <<status, ghost>> /\ memory.step = "idle"
    BY <1>1 DEF Import, Held, Unlocked
  <2>2. disk'.file /\ disk'.receipt = disk.receipt /\ memory'.step = "idle"
    BY <1>1, <2>1 DEF Import, TypeOK
  <2>3. HeldIsKept' /\ PinnedIsKept' /\ Deleting'
    BY <2>1, <2>2 DEF HeldIsKept, PinnedIsKept, Deleting, Deleted
  <2>4. DeletedStaysGone'
    BY <2>1, <2>2 DEF Version, DeletedStaysGone, Deleted
  <2> QED BY <2>3, <2>4 DEF Version
<1>2. ASSUME ImportRead PROVE Version'
  BY ZenonT(40), <1>2, VersionKept DEF ImportRead, Held, TypeOK
<1>3. ASSUME RemoveArtifact PROVE Version'
  <2>1. disk.receipt.status = "pending" /\ memory.by \in {NoCommand, disk.receipt.command}
    BY <1>3 DEF RemoveArtifact, Version, Deleting
  <2>2. /\ disk'.receipt = disk.receipt /\ ~disk'.file /\ memory'.by = memory.by
        /\ UNCHANGED <<status, lease, ghost>>
    BY <1>3 DEF RemoveArtifact, TypeOK
  <2>3. Held = {} /\ Held' = Held /\ \A s \in Session : status[s] # "open"
    BY <2>1, <2>2, DeletionIsAlone DEF Held
  <2> QED BY <2>1, <2>2, <2>3 DEF Version, HeldIsKept, PinnedIsKept, Deleting, DeletedStaysGone
<1>4. ASSUME CompleteReceipt PROVE Version'
  <2>1. /\ disk.receipt.status = "pending" /\ memory.by \in {NoCommand, disk.receipt.command}
        /\ ~disk.file
    BY <1>4 DEF CompleteReceipt, Version, Deleting
  <2>2. /\ disk'.receipt.command = disk.receipt.command /\ disk'.receipt.status = "completed"
        /\ disk'.file = disk.file /\ memory'.step = "idle"
        /\ ghost'.answered = ghost.answered \cup ({memory.by} \ {NoCommand})
        /\ UNCHANGED <<status, lease>>
    BY <1>4 DEF CompleteReceipt, TypeOK
  <2>3. Held = {} /\ Held' = Held /\ (\A s \in Session : status[s] # "open")
        /\ ghost.answered = {}
    BY <2>1, <2>2, DeletionIsAlone DEF Held, Version, DeletedStaysGone
  <2> QED BY <2>1, <2>2, <2>3 DEF Version, HeldIsKept, PinnedIsKept, Deleting, DeletedStaysGone
<1>5. ASSUME DeletionFails PROVE Version'
  BY <1>5, VersionKept DEF DeletionFails, Held, TypeOK
<1>6. ASSUME NEW c \in Command, DeleteVersion(c) PROVE Version'
  <2>1. /\ Held' = Held /\ UNCHANGED <<status, ghost>> /\ memory.step = "idle" /\ ~Released
        /\ memory'.step = "remove" /\ memory'.by = c
    BY <1>6 DEF DeleteVersion, Held, Listening, Released, TypeOK, Unlocked
  <2>2. CASE ~Deleted /\ memory.count = 0 /\ disk' = [disk EXCEPT !.receipt = Receipt("pending", c)]
    <3>1. Held = {}
      BY <2>2, CountPositive DEF Leases
    <3>2. \A s \in Session : status[s] # "open"
      BY <3>1, <2>1 DEF Leases, RequestsStand
    <3>3. disk'.receipt.status = "pending" /\ disk'.receipt.command = c
      BY <2>2 DEF TypeOK, Receipt
    <3>4. ghost.answered = {}
      BY <2>2 DEF Version, DeletedStaysGone, Deleted
    <3> QED BY <2>1, <3>1, <3>2, <3>3, <3>4 DEF Version, HeldIsKept, PinnedIsKept, Deleting,
               DeletedStaysGone
  <2>3. CASE disk.receipt = Receipt("pending", c) /\ UNCHANGED disk
    <3>1. disk.receipt.status = "pending" /\ disk.receipt.command = c
      BY <2>3 DEF Receipt
    <3>2. Held = {} /\ \A s \in Session : status[s] # "open"
      BY <3>1, DeletionIsAlone
    <3> QED BY <2>1, <2>3, <3>1, <3>2 DEF Version, HeldIsKept, PinnedIsKept, Deleting,
               DeletedStaysGone, Deleted
  <2> QED BY <1>6, <2>2, <2>3 DEF DeleteVersion
<1>7. ASSUME NEW s \in Session, Acquire(s) PROVE Version'
  <2>1. CASE disk.file /\ ~Deleted /\ Count(1)
    <3>1. UNCHANGED <<status, disk, ghost>> /\ memory'.step = memory.step /\ memory'.by = memory.by
      BY <1>7, <2>1 DEF Acquire, Count, TypeOK
    <3> QED BY <2>1, <3>1 DEF Version, HeldIsKept, PinnedIsKept, Deleting, DeletedStaysGone, Deleted
  <2>2. CASE UNCHANGED <<memory, lease>>
    BY <1>7, <2>2, VersionKept DEF Acquire, Held
  <2> QED BY <1>7, <2>1, <2>2 DEF Acquire
<1>8. ASSUME NEW s \in Session, Reserve(s) PROVE Version'
  BY <1>8, VersionKept DEF Reserve, Held
<1>9. ASSUME NEW s \in Session, Open(s) PROVE Version'
  <2>1. s \in Held /\ Held' = Held
    BY <1>9 DEF Open, Leases, RequestsStand, Held
  <2>2. \A t \in Session : status'[t] = "open" => status[t] = "open" \/ t = s
    BY <1>9 DEF Open, TypeOK
  <2> QED BY <1>9, <2>1, <2>2, VersionKept DEF Open
<1>10. ASSUME NEW s \in Session, ReturnLease(s) PROVE Version'
  BY <1>10, VersionKept DEF ReturnLease, Held, Count, TypeOK
<1>11. ASSUME NEW s \in Session, AttachLease(s) PROVE Version'
  <2>1. Held' \subseteq Held
    BY <1>11 DEF AttachLease, Held, Leases, RequestsStand, TypeOK
  <2> QED BY <1>11, <2>1, VersionKept DEF AttachLease
<1>12. ASSUME NEW s \in Session, CloseItself(s) PROVE Version'
  BY <1>12, VersionKept DEF CloseItself, Held, TypeOK
<1>13. ASSUME NEW s \in Session, ObserveClosed(s) PROVE Version'
  BY <1>13, VersionKept DEF ObserveClosed, Held
<1>14. ASSUME NEW s \in Session, EndCommand(s) PROVE Version'
  BY <1>14, VersionKept DEF EndCommand, Held
<1>15. ASSUME NEW s \in Session, EndResolves(s) PROVE Version'
  BY <1>15, VersionKept DEF EndResolves, Held, TypeOK
<1>16. ASSUME NEW s \in Session, EndFails(s) PROVE Version'
  BY <1>16, VersionKept DEF EndFails, Held
<1>17. ASSUME NEW s \in Session, NEW who \in {"watcher", "command"}, StartRelease(s, who)
       PROVE  Version'
  BY <1>17, VersionKept DEF StartRelease, Held
<1>18. ASSUME NEW s \in Session, NEW who \in Releaser, FinishRelease(s, who) PROVE Version'
  BY <1>18, VersionKept DEF FinishRelease, Held, Count, TypeOK
<1>19. ASSUME Stop PROVE Version'
  BY <1>19, VersionKept DEF Stop, Held, TypeOK
<1>20. ASSUME CloseOpenings PROVE Version'
  BY <1>20, VersionKept DEF CloseOpenings, Held
<1>21. ASSUME CloseEnds PROVE Version'
  BY <1>21, VersionKept DEF CloseEnds, Held
<1>22. ASSUME Drained PROVE Version'
  BY <1>22, VersionKept DEF Drained, Held
<1>23. ASSUME ReleaseAll PROVE Version'
  BY <1>23, VersionKept DEF ReleaseAll, Held
<1>24. ASSUME ReleaseRoot PROVE Version'
  BY <1>24, VersionKept DEF ReleaseRoot, Held
<1>25. ASSUME Crash PROVE Version'
  BY <1>25, VersionKept DEF Crash, Forgotten, NoMemory, Held, TypeOK
<1>26. ASSUME Restart PROVE Version'
  <2>1. /\ Held' = {} /\ UNCHANGED disk /\ ghost'.answered = ghost.answered
        /\ \A s \in Session : status'[s] # "open"
    BY <1>26 DEF Restart, Forgotten, Held, TypeOK
  <2>2. memory'.by = NoCommand /\ memory'.step # "complete"
        /\ (memory'.step # "idle" => disk.receipt.status = "pending")
    BY <1>26 DEF Restart, NoMemory
  <2> QED BY <2>1, <2>2 DEF Version, HeldIsKept, PinnedIsKept, Deleting, DeletedStaysGone
<1>27. ASSUME Listen PROVE Version'
  BY <1>27, VersionKept DEF Listen, Held
<1>28. CASE UNCHANGED vars
  BY <1>28, VersionKept DEF vars, Held
<1> QED
  BY <1>1, <1>2, <1>3, <1>4, <1>5, <1>6, <1>7, <1>8, <1>9, <1>10, <1>11, <1>12, <1>13, <1>14,
     <1>15, <1>16, <1>17, <1>18, <1>19, <1>20, <1>21, <1>22, <1>23, <1>24, <1>25, <1>26, <1>27,
     <1>28 DEF Next

-----------------------------------------------------------------------------
(***************************************************************************)
(* The shutdown: what it has to end is active or opening, being ended, and *)
(* then no longer open.                                                    *)
(***************************************************************************)
Draining == {"drain", "leases", "root"}

LEMMA ShutdownKept ==
  ASSUME TypeOK, Shutdown, UNCHANGED managed, ghost'.due = ghost.due,
         stage' = stage \/ ("relay" \notin {stage, stage'} /\ (stage' \in Draining => stage \in Draining)),
         \A s \in Session :
           /\ request'[s] = "opening" <=> request[s] = "opening"
           /\ request[s] \in Past => request'[s] \in Past
           /\ request[s] \in {"opened", "done"} => request'[s] \in {"opened", "done"}
           /\ status'[s] = "open" => status[s] = "open"
  PROVE  Shutdown'
<1>1. SlotsOK'
  BY DEF Shutdown, SlotsOK
<1>2. ghost.due \subseteq Session
  BY DEF TypeOK
<1>3. Closing'
  BY <1>2 DEF Shutdown, Closing, Past, Draining
<1> QED BY <1>1, <1>3 DEF Shutdown

\* The slots change, too.
LEMMA ManagedFields ==
  ASSUME TypeOK
  PROVE  /\ ghost.due \subseteq Session /\ managed.active \subseteq Session
         /\ managed.ending \subseteq Session /\ managed.opening \subseteq Session
         /\ managed.closing \in {"no", "openings", "ends"} /\ managed.failed \in BOOLEAN
BY DEF TypeOK

LEMMA ShutdownStep ==
  ASSUME TypeOK, Leases, Shutdown, [Next]_vars
  PROVE  Shutdown'
<1> USE DEF leaseVars, relayVars
<1>1. ASSUME Import PROVE Shutdown'
  BY <1>1, ShutdownKept DEF Import
<1>2. ASSUME ImportRead PROVE Shutdown'
  BY <1>2, ShutdownKept DEF ImportRead
<1>3. ASSUME RemoveArtifact PROVE Shutdown'
  BY <1>3, ShutdownKept DEF RemoveArtifact
<1>4. ASSUME CompleteReceipt PROVE Shutdown'
  <2>1. ghost'.due = ghost.due
    BY <1>4 DEF CompleteReceipt, TypeOK
  <2> QED BY <1>4, <2>1, ShutdownKept DEF CompleteReceipt
<1>5. ASSUME DeletionFails PROVE Shutdown'
  BY <1>5, ShutdownKept DEF DeletionFails, Draining
<1>6. ASSUME NEW c \in Command, DeleteVersion(c) PROVE Shutdown'
  BY <1>6, ShutdownKept DEF DeleteVersion
<1>7. ASSUME NEW s \in Session, Acquire(s) PROVE Shutdown'
  BY <1>7, ShutdownKept DEF Acquire, TypeOK, Past
<1>8. ASSUME NEW s \in Session, Reserve(s) PROVE Shutdown'
  <2>1. CASE /\ managed' = [managed EXCEPT !.opening = @ \cup {s}]
             /\ request' = [request EXCEPT ![s] = "opening"]
    <3>1. /\ managed'.opening = managed.opening \cup {s} /\ managed'.active = managed.active
          /\ managed'.ending = managed.ending /\ managed'.closing = "no"
          /\ managed'.failed = managed.failed
      BY <1>8, <2>1 DEF Reserve, TypeOK
    <3>2. request[s] = "leased" /\ managed.closing = "no" /\ UNCHANGED <<stage, status, ghost>>
      BY <1>8 DEF Reserve
    <3>3. \A t \in Session : request'[t] = IF t = s THEN "opening" ELSE request[t]
      BY <2>1 DEF TypeOK
    <3>4. SlotsOK'
      BY <3>1, <3>2, <3>3 DEF Shutdown, SlotsOK
    <3>5. Closing'
      BY <3>1, <3>2, <3>3, ManagedFields DEF Shutdown, Closing, Past
    <3> QED BY <3>4, <3>5 DEF Shutdown
  <2>2. CASE request' = [request EXCEPT ![s] = "returning"] /\ UNCHANGED managed
    BY <1>8, <2>2, ShutdownKept DEF Reserve, TypeOK, Past
  <2> QED BY <1>8, <2>1, <2>2 DEF Reserve
<1>9. ASSUME NEW s \in Session, Open(s) PROVE Shutdown'
  <2>1. request[s] = "opening" /\ s \in managed.opening /\ UNCHANGED <<stage, ghost>>
    BY <1>9 DEF Open, Shutdown, SlotsOK
  <2>2. /\ managed'.opening = managed.opening \ {s}
        /\ managed'.active = managed.active
           \/ (managed'.active = managed.active \cup {s} /\ request'[s] = "opened")
        /\ managed'.ending = managed.ending /\ managed'.closing = managed.closing
        /\ managed'.failed = managed.failed
        /\ request'[s] \in {"opened", "returning"}
        /\ \A t \in Session \ {s} : request'[t] = request[t] /\ status'[t] = status[t]
        /\ status'[s] = "open" => s \in managed'.active
    <3>1. CASE /\ status' = [status EXCEPT ![s] = "open"]
               /\ managed' = [managed EXCEPT !.opening = @ \ {s}, !.active = @ \cup {s},
                                             !.watched = @ \cup {s}]
               /\ request' = [request EXCEPT ![s] = "opened"]
      BY <3>1 DEF TypeOK
    <3>2. CASE /\ status' = [status EXCEPT ![s] = "closed"]
               /\ managed' = [managed EXCEPT !.opening = @ \ {s}]
               /\ request' = [request EXCEPT ![s] = "opened"]
      BY <3>2 DEF TypeOK
    <3>3. CASE /\ managed' = [managed EXCEPT !.opening = @ \ {s}]
               /\ request' = [request EXCEPT ![s] = "returning"] /\ UNCHANGED status
      <4>1. status[s] = "none"
        BY <2>1 DEF Leases, RequestsStand
      <4> QED BY <3>3, <4>1 DEF TypeOK
    <3> QED BY <1>9, <3>1, <3>2, <3>3 DEF Open
  <2>3. SlotsOK'
    BY <2>1, <2>2 DEF Shutdown, SlotsOK
  <2>4. Closing'
    <3>1. managed.closing # "ends" /\ (stage \in Draining => s \notin ghost.due)
      BY <2>1, ManagedFields DEF Shutdown, Closing, Past, Draining
    <3> QED BY <2>1, <2>2, <3>1, ManagedFields DEF Shutdown, Closing, Past, Draining
  <2> QED BY <2>3, <2>4 DEF Shutdown
<1>10. ASSUME NEW s \in Session, ReturnLease(s) PROVE Shutdown'
  BY <1>10, ShutdownKept DEF ReturnLease, TypeOK, Past
<1>11. ASSUME NEW s \in Session, AttachLease(s) PROVE Shutdown'
  BY <1>11, ShutdownKept DEF AttachLease, TypeOK, Past
<1>12. ASSUME NEW s \in Session, CloseItself(s) PROVE Shutdown'
  BY <1>12, ShutdownKept DEF CloseItself, TypeOK
<1>13. ASSUME NEW s \in Session, ObserveClosed(s) PROVE Shutdown'
  <2>1. /\ managed'.active = managed.active \ {s} /\ managed'.opening = managed.opening
        /\ managed'.ending = managed.ending /\ managed'.closing = managed.closing
        /\ managed'.failed = managed.failed /\ status[s] # "open"
        /\ UNCHANGED <<stage, request, status, ghost>>
    BY <1>13 DEF ObserveClosed, TypeOK
  <2> QED BY <2>1, ManagedFields DEF Shutdown, SlotsOK, Closing
<1>14. ASSUME NEW s \in Session, EndCommand(s) PROVE Shutdown'
  <2>1. /\ managed'.ending = managed.ending \cup {s} /\ managed'.active = managed.active
        /\ managed'.opening = managed.opening /\ managed'.closing = managed.closing
        /\ managed'.failed = managed.failed /\ request[s] = "done"
        /\ UNCHANGED <<stage, request, status, ghost>>
    BY <1>14 DEF EndCommand, TypeOK
  <2> QED BY <2>1, ManagedFields DEF Shutdown, SlotsOK, Closing
<1>15. ASSUME NEW s \in Session, EndResolves(s) PROVE Shutdown'
  <2>1. /\ managed'.ending = managed.ending \ {s} /\ managed'.active = managed.active \ {s}
        /\ managed'.opening = managed.opening /\ managed'.closing = managed.closing
        /\ managed'.failed = managed.failed
        /\ \A t \in Session : status'[t] = IF t = s THEN "closed" ELSE status[t]
        /\ UNCHANGED <<stage, request, ghost>>
    BY <1>15 DEF EndResolves, TypeOK
  <2> QED BY <2>1, ManagedFields DEF Shutdown, SlotsOK, Closing
<1>16. ASSUME NEW s \in Session, EndFails(s) PROVE Shutdown'
  <2> DEFINE f == managed.failed \/ managed.closing = "ends"
  <2>1. f \in BOOLEAN /\ managed' = [managed EXCEPT !.ending = @ \ {s}, !.failed = f]
    BY <1>16, Zenon DEF EndFails
  <2>2. (managed.closing = "ends" => f) /\ (managed.failed => f)
    OBVIOUS
  <2> HIDE DEF f
  <2>3. /\ managed'.ending = managed.ending \ {s} /\ managed'.active = managed.active
        /\ managed'.opening = managed.opening /\ managed'.closing = managed.closing
        /\ managed'.failed = f
    BY <2>1 DEF TypeOK
  <2>4. UNCHANGED <<stage, request, status, ghost>>
    BY <1>16 DEF EndFails
  <2> QED BY <2>2, <2>3, <2>4, ManagedFields DEF Shutdown, SlotsOK, Closing
<1>17. ASSUME NEW s \in Session, NEW who \in {"watcher", "command"}, StartRelease(s, who)
       PROVE  Shutdown'
  BY <1>17, ShutdownKept DEF StartRelease
<1>18. ASSUME NEW s \in Session, NEW who \in Releaser, FinishRelease(s, who) PROVE Shutdown'
  BY <1>18, ShutdownKept DEF FinishRelease
<1>19. ASSUME Stop PROVE Shutdown'
  <2>1. /\ managed'.ending = managed.ending /\ managed'.active = managed.active
        /\ managed'.opening = managed.opening /\ managed'.closing = "openings"
        /\ ghost'.due = managed.active \cup managed.opening /\ stage' = "relay"
        /\ UNCHANGED <<request, status>>
    BY <1>19 DEF Stop, TypeOK
  <2> QED BY <2>1, ManagedFields DEF Shutdown, SlotsOK, Closing, Past
<1>20. ASSUME CloseOpenings PROVE Shutdown'
  <2>1. /\ managed'.ending = managed.ending \cup managed.active
        /\ managed'.active = managed.active /\ managed.closing = "openings"
        /\ managed'.opening = {} /\ managed.opening = {} /\ managed'.closing = "ends"
        /\ UNCHANGED <<stage, request, status, ghost>>
    BY <1>20 DEF CloseOpenings, TypeOK
  <2> QED BY <2>1, ManagedFields DEF Shutdown, SlotsOK, Closing, Past
<1>21. ASSUME CloseEnds PROVE Shutdown'
  <2>1. /\ managed'.ending = managed.ending /\ managed'.active = managed.active
        /\ managed'.opening = managed.opening /\ managed'.closing = "no"
        /\ managed'.failed = managed.failed /\ managed.closing = "ends" /\ managed.ending = {}
        /\ stage' = "drain" /\ UNCHANGED <<status, ghost>>
    BY <1>21 DEF CloseEnds, TypeOK
  <2>2. \A s \in Session :
          request'[s] = request[s] \/ (request[s] = "leased" /\ request'[s] = "returning")
    BY <1>21 DEF CloseEnds
  <2> QED BY <2>1, <2>2, ManagedFields DEF Shutdown, SlotsOK, Closing, Past
<1>22. ASSUME Drained PROVE Shutdown'
  BY <1>22, ShutdownKept DEF Drained, Draining
<1>23. ASSUME ReleaseAll PROVE Shutdown'
  BY <1>23, ShutdownKept DEF ReleaseAll, Draining
<1>24. ASSUME ReleaseRoot PROVE Shutdown'
  BY <1>24, ShutdownKept DEF ReleaseRoot, Draining
<1>25. ASSUME Crash PROVE Shutdown'
  BY <1>25 DEF Crash, Forgotten, NoSlots, Shutdown, SlotsOK, Closing, TypeOK
<1>26. ASSUME Restart PROVE Shutdown'
  BY <1>26 DEF Restart, Forgotten, NoSlots, Shutdown, SlotsOK, Closing, TypeOK
<1>27. ASSUME Listen PROVE Shutdown'
  BY <1>27, ShutdownKept DEF Listen, Draining
<1>28. CASE UNCHANGED vars
  BY <1>28, ShutdownKept DEF vars
<1> QED
  BY <1>1, <1>2, <1>3, <1>4, <1>5, <1>6, <1>7, <1>8, <1>9, <1>10, <1>11, <1>12, <1>13, <1>14,
     <1>15, <1>16, <1>17, <1>18, <1>19, <1>20, <1>21, <1>22, <1>23, <1>24, <1>25, <1>26, <1>27,
     <1>28 DEF Next

-----------------------------------------------------------------------------
(***************************************************************************)
(* Theorems.                                                               *)
(***************************************************************************)
LEMMA InvInit == Init => Inv
<1> SUFFICES ASSUME Init PROVE Inv
  OBVIOUS
<1>1. TypeOK
  BY DEF Init, TypeOK, NoSlots, NoMemory, Receipt, Request
<1>2. Leases
  <2>1. Held = {} /\ IsFiniteSet({}) /\ Cardinality({}) = 0
    BY FS_EmptySet DEF Init, Held
  <2>2. CountsHeld
    BY <2>1 DEF Init, CountsHeld, NoMemory
  <2>3. RequestsStand
    BY DEF Init, RequestsStand
  <2> QED BY <2>2, <2>3 DEF Leases
<1>3. Version
  BY DEF Init, Version, HeldIsKept, Deleting, PinnedIsKept, DeletedStaysGone, NoMemory, Receipt,
     Deleted
<1>4. Shutdown
  BY DEF Init, Shutdown, SlotsOK, Closing, NoSlots
<1> QED BY <1>1, <1>2, <1>3, <1>4 DEF Inv

LEMMA InvNext == Inv /\ [Next]_vars => Inv'
BY TypeStep, LeasesStep, VersionStep, ShutdownStep DEF Inv

LEMMA InvHolds == Spec => []Inv
BY InvInit, InvNext, PTL DEF Spec

\* A session that is open keeps the glossary version it pinned, and a deletion
\* that was answered is final, whatever requests, imports, deletions, shutdowns
\* and crashes overlap (file-repository.ts acquire and delete, app.ts).
THEOREM PinnedVersionIsKept == Spec => []VersionHolds
<1>1. Inv => VersionHolds
  BY DEF Inv, Version, VersionHolds
<1> QED BY InvHolds, <1>1, PTL

\* A shutdown that reports no failure has ended every session that was open or
\* opening when it began (composition.ts closeSessions).
THEOREM ShutdownIsComplete == Spec => []ShutdownEnds
<1>1. Inv => ShutdownEnds
  BY DEF Inv, Shutdown, Closing, ShutdownEnds
<1> QED BY InvHolds, <1>1, PTL

-----------------------------------------------------------------------------
(***************************************************************************)
(* The delivery of events.  An instance has the operators of the library   *)
(* under its own name.                                                     *)
(***************************************************************************)
LEMMA MaxIs == MaxEvents \in Nat
BY DeliveryAssumption DEF Delivery!DeliveryAssumption

LEMMA SameSize == ASSUME NEW S PROVE Delivery!Cardinality(S) = Cardinality(S)
BY DEF Delivery!Cardinality, Cardinality

LEMMA SameLast == ASSUME NEW s PROVE Delivery!Last(s) = s[Len(s)]
BY DEF Delivery!Last

-----------------------------------------------------------------------------
(***************************************************************************)
(* The inductive invariant of the delivery.                                *)
(***************************************************************************)
Wired == [kind : Delivery!Kinds \cup {"gap", "overflow"}, cursor : Nat]
Socket == [st : {"none", "asked", "streaming", "stopping", "ended"}, next : Nat, cut : Nat,
           wire : Seq(Wired), slot : BOOLEAN, shut : BOOLEAN]
Page == [socket : {0} \cup Delivery!Sockets, cursor : Nat, asked : Nat, closed : BOOLEAN, timer : BOOLEAN,
         resync : {"no", "asked", "answered"},
         answer : [cursor : Nat, room : {"open", "closed"}],
         base : Nat, seen : SUBSET Nat, joined : BOOLEAN, room : {"open", "closed"},
         note : {"none", "gap", "overflow", "unavailable"}]

DeliveryTyped ==
  /\ role \in {"operator", "participant"} /\ used \in Nat
  /\ log \in Seq(Delivery!Kinds) /\ Len(log) <= MaxEvents
  /\ socket \in [Delivery!Sockets -> Socket] /\ page \in Page

\* What a page of role r may see.
Sees(r, kind) == r = "operator" \/ kind # "sample"

\* A withdrawal is followed by the close alone, and the close by nothing.
LogOK(l) ==
  \A i \in DOMAIN l : /\ l[i] = "closed" => i = Len(l)
                      /\ l[i] = "withdrawal" => i = Len(l) \/ l[i + 1] = "closed"

\* What a page has applied; a page that resyncs has forgotten it, and one that
\* is closed on a socket has applied the end.
PageOK(p, l, r) ==
  /\ p.cursor <= Len(l) /\ p.base <= p.cursor
  /\ p.seen = {i \in 1 .. p.cursor : i > p.base /\ Sees(r, l[i])}
  /\ p.resync # "no" => p.socket = 0 /\ p.seen = {} /\ ~p.closed /\ ~p.timer
  /\ p.resync = "answered" => p.answer.cursor <= Len(l)
  /\ p.socket # 0 /\ p.closed => p.cursor > 0 /\ l[p.cursor] \in {"withdrawal", "closed"}

\* The events on their way to cursor c are those behind it that may be seen,
\* none of them left out.
WireOK(w, c, l, r) ==
  \A i \in DOMAIN w :
    /\ w[i].kind \notin Delivery!Kinds => w[i].cursor = 0
    /\ w[i].kind \in Delivery!Kinds =>
         /\ c < w[i].cursor /\ w[i].cursor <= Len(l)
         /\ l[w[i].cursor] = w[i].kind /\ Sees(r, w[i].kind)
         /\ \A j \in DOMAIN w : j < i => w[j].cursor < w[i].cursor
         /\ \A n \in Nat : c < n /\ n < w[i].cursor /\ Sees(r, l[n]) =>
              \E j \in DOMAIN w : j < i /\ w[j].cursor = n

\* A stream has sent what may be seen up to where it is.
StreamOK(k, c, l, r) ==
  /\ c <= k.next /\ k.next <= Len(l)
  /\ \A i \in DOMAIN k.wire : k.wire[i].kind \in Delivery!Kinds /\ k.wire[i].cursor <= k.next
  /\ \A n \in Nat : c < n /\ n <= k.next /\ Sees(r, l[n]) =>
       \E i \in DOMAIN k.wire : k.wire[i].cursor = n

\* The socket of a page that still applies what it receives.
Follows(p, k, l, r) ==
  ~(p.closed /\ r = "participant") =>
    WireOK(k.wire, p.cursor, l, r) /\ (k.st \in {"asked", "streaming"} => StreamOK(k, p.cursor, l, r))

Placed(f) == {s \in Delivery!Sockets : f[s].slot}
PlacesOK ==
  /\ used = Cardinality(Placed(socket))
  /\ \A s \in Delivery!Sockets : socket[s].st \in {"none", "asked", "ended"} => ~socket[s].slot

FollowOK == page.socket # 0 => Follows(page, socket[page.socket], log, role)

DeliveryInv ==
  DeliveryTyped /\ LogOK(log) /\ PageOK(page, log, role) /\ FollowOK /\ PlacesOK

-----------------------------------------------------------------------------
(***************************************************************************)
(* Appending to a sequence and taking from it.                             *)
(***************************************************************************)
LEMMA Appended ==
  ASSUME NEW S, NEW t \in Seq(S), NEW e \in S
  PROVE  /\ Append(t, e) \in Seq(S) /\ Len(Append(t, e)) = Len(t) + 1 /\ Len(t) \in Nat
         /\ DOMAIN t = 1 .. Len(t) /\ DOMAIN Append(t, e) = 1 .. Len(t) + 1
         /\ Append(t, e)[Len(t) + 1] = e
         /\ \A i \in 1 .. Len(t) : Append(t, e)[i] = t[i]
BY AppendProperties

LEMMA Taken ==
  ASSUME NEW S, NEW t \in Seq(S), t # <<>>
  PROVE  /\ Tail(t) \in Seq(S) /\ Len(Tail(t)) = Len(t) - 1 /\ Len(t) \in Nat /\ Len(t) > 0
         /\ DOMAIN t = 1 .. Len(t) /\ DOMAIN Tail(t) = 1 .. Len(t) - 1
         /\ Head(t) = t[1] /\ Head(t) \in S
         /\ \A i \in 1 .. Len(t) - 1 : Tail(t)[i] = t[i + 1]
BY HeadTailProperties, EmptySeq

LEMMA Nothing == ASSUME NEW S PROVE <<>> \in Seq(S) /\ DOMAIN <<>> = {} /\ Len(<<>>) = 0
OBVIOUS

-----------------------------------------------------------------------------
(***************************************************************************)
(* What becomes of a stream and of a page.                                 *)
(***************************************************************************)

\* Nothing is owed that the log did not have, when it grows.
LEMMA FollowsGrown ==
  ASSUME DeliveryTyped, NEW p \in Page, NEW k \in Socket, NEW j \in Socket, NEW e \in Delivery!Kinds, NEW r,
         Follows(p, k, log, r), j.wire = k.wire, j.st = k.st, j.next = k.next
  PROVE  Follows(p, j, Append(log, e), r)
<1> DEFINE l == Append(log, e)
<1>1. /\ Len(l) = Len(log) + 1 /\ Len(log) \in Nat /\ \A i \in 1 .. Len(log) : l[i] = log[i]
  BY Appended DEF DeliveryTyped
<1>2. /\ p.cursor \in Nat /\ k.next \in Nat /\ k.wire \in Seq(Wired)
  BY DEF Page, Socket
<1>3. \A i \in DOMAIN k.wire : k.wire[i].cursor \in Nat
  <2>1. \A i \in DOMAIN k.wire : k.wire[i] \in Wired
    BY <1>2
  <2>. QED  BY <2>1 DEF Wired
<1> HIDE DEF l
<1>4. ASSUME WireOK(k.wire, p.cursor, log, r)
      PROVE  WireOK(k.wire, p.cursor, l, r)
  <2> SUFFICES ASSUME NEW i \in DOMAIN k.wire, k.wire[i].kind \in Delivery!Kinds
               PROVE  /\ p.cursor < k.wire[i].cursor /\ k.wire[i].cursor <= Len(l)
                      /\ l[k.wire[i].cursor] = k.wire[i].kind /\ Sees(r, k.wire[i].kind)
                      /\ \A m \in DOMAIN k.wire : m < i => k.wire[m].cursor < k.wire[i].cursor
                      /\ \A n \in Nat : p.cursor < n /\ n < k.wire[i].cursor /\ Sees(r, l[n]) =>
                           \E m \in DOMAIN k.wire : m < i /\ k.wire[m].cursor = n
    BY <1>4 DEF WireOK
  <2>1. /\ p.cursor < k.wire[i].cursor /\ k.wire[i].cursor <= Len(log)
        /\ log[k.wire[i].cursor] = k.wire[i].kind /\ Sees(r, k.wire[i].kind)
        /\ \A m \in DOMAIN k.wire : m < i => k.wire[m].cursor < k.wire[i].cursor
        /\ \A n \in Nat : p.cursor < n /\ n < k.wire[i].cursor /\ Sees(r, log[n]) =>
             \E m \in DOMAIN k.wire : m < i /\ k.wire[m].cursor = n
    BY <1>4 DEF WireOK
  <2>2. k.wire[i].cursor \in 1 .. Len(log)
    BY <1>1, <1>2, <1>3, <2>1
  <2>3. \A n \in Nat : p.cursor < n /\ n < k.wire[i].cursor => l[n] = log[n]
    <3> TAKE n \in Nat
    <3> HAVE p.cursor < n /\ n < k.wire[i].cursor
    <3>1. n \in 1 .. Len(log)
      BY <1>1, <1>2, <2>2
    <3>. QED  BY <1>1, <3>1
  <2>. QED  BY <1>1, <2>1, <2>2, <2>3
<1>5. ASSUME StreamOK(k, p.cursor, log, r)
      PROVE  StreamOK(j, p.cursor, l, r)
  <2>1. \A n \in Nat : p.cursor < n /\ n <= k.next => l[n] = log[n]
    <3> TAKE n \in Nat
    <3> HAVE p.cursor < n /\ n <= k.next
    <3>1. n \in 1 .. Len(log)
      BY <1>1, <1>2, <1>5 DEF StreamOK
    <3>. QED  BY <1>1, <3>1
  <2>. QED  BY <1>1, <1>2, <1>5, <2>1 DEF StreamOK
<1>. QED  BY <1>4, <1>5 DEF Follows, l

\* One socket of the server moves: it may take or give back its place.
LEMMA SocketMoves ==
  ASSUME DeliveryInv, NEW s \in Delivery!Sockets, NEW k \in Socket, socket' = [socket EXCEPT ![s] = k],
         UNCHANGED <<role, log, page>>,
         page.socket = s => Follows(page, k, log, role),
         k.st \in {"none", "asked", "ended"} => ~k.slot,
         \/ k.slot = socket[s].slot /\ used' = used
         \/ k.slot /\ ~socket[s].slot /\ used' = used + 1
         \/ ~k.slot /\ socket[s].slot /\ used' = used - 1
  PROVE  DeliveryInv'
<1>1. /\ socket \in [Delivery!Sockets -> Socket] /\ socket[s] \in Socket /\ used \in Nat
      /\ used = Cardinality(Placed(socket))
  BY DEF DeliveryInv, DeliveryTyped, PlacesOK
<1>2. /\ socket' \in [Delivery!Sockets -> Socket] /\ socket'[s] = k
      /\ \A q \in Delivery!Sockets \ {s} : socket'[q] = socket[q]
  BY <1>1
<1>3. IsFiniteSet(Placed(socket)) /\ IsFiniteSet(Placed(socket'))
  <2>1. IsFiniteSet(Delivery!Sockets)
    <3>1. 1 \in Int /\ 2 \in Int
        OBVIOUS
      <3>. QED  BY <3>1, FS_Interval DEF Delivery!Sockets
  <2>2. Placed(socket) \subseteq Delivery!Sockets /\ Placed(socket') \subseteq Delivery!Sockets
    BY DEF Placed
  <2>. QED  BY <2>1, <2>2, FS_Subset
<1>4. used' \in Nat /\ used' = Cardinality(Placed(socket'))
  <2>0. k.slot \in BOOLEAN /\ socket[s].slot \in BOOLEAN
    BY <1>1 DEF Socket
  <2>1. CASE k.slot = socket[s].slot /\ used' = used
    <3>1. Placed(socket') = Placed(socket)
      BY <1>2, <2>1 DEF Placed
    <3>. QED  BY <1>1, <2>1, <3>1
  <2>2. CASE k.slot /\ ~socket[s].slot /\ used' = used + 1
    <3>1. Placed(socket') = Placed(socket) \cup {s} /\ s \notin Placed(socket)
      BY <1>2, <2>2 DEF Placed
    <3>2. Cardinality(Placed(socket')) = Cardinality(Placed(socket)) + 1
      BY <1>3, <3>1, FS_AddElement
    <3>. QED  BY <1>1, <2>2, <3>2
  <2>3. CASE ~k.slot /\ socket[s].slot /\ used' = used - 1
    <3>1. Placed(socket') = Placed(socket) \ {s} /\ s \in Placed(socket)
      BY <1>2, <2>3 DEF Placed
    <3>2. Cardinality(Placed(socket')) = Cardinality(Placed(socket)) - 1
      BY <1>3, <3>1, FS_RemoveElement
    <3>3. Cardinality(Placed(socket')) \in Nat
      BY <1>3, FS_CardinalityType
    <3>. QED  BY <1>1, <2>3, <3>2, <3>3
  <2>. QED  BY <2>1, <2>2, <2>3
<1>5. DeliveryTyped'
  BY <1>2, <1>4 DEF DeliveryInv, DeliveryTyped
<1>6. PlacesOK'
  BY <1>2, <1>4 DEF DeliveryInv, PlacesOK
<1>7. PageOK(page, log, role)' /\ LogOK(log)'
  BY DEF DeliveryInv
<1>8. FollowOK'
  <2>1. SUFFICES ASSUME page.socket # 0 PROVE Follows(page, socket'[page.socket], log, role)
    BY <2>1 DEF FollowOK
  <2>2. page.socket \in Delivery!Sockets
    BY <2>1 DEF DeliveryInv, DeliveryTyped, Page
  <2>3. CASE page.socket = s
    BY <1>2, <2>3
  <2>4. CASE page.socket # s
    BY <1>2, <2>1, <2>2, <2>4 DEF DeliveryInv, FollowOK
  <2>. QED  BY <2>3, <2>4
<1>. QED  BY <1>5, <1>6, <1>7, <1>8 DEF DeliveryInv

\* A socket that keeps its wire and streams no more, or has lost its wire.
LEMMA FollowsShut ==
  ASSUME NEW p \in Page, NEW k \in Socket, NEW j \in Socket, NEW l, NEW r, Follows(p, k, l, r),
         j.wire \in {k.wire, <<>>}, j.st \notin {"asked", "streaming"}
  PROVE  Follows(p, j, l, r)
<1>1. WireOK(<<>>, p.cursor, l, r)
  BY Nothing DEF WireOK
<1>. QED  BY <1>1 DEF Follows

\* A stream that sends the next event which may be seen, or skips another.
LEMMA FollowsSent ==
  ASSUME NEW p \in Page, NEW k \in Socket, NEW j \in Socket, NEW l \in Seq(Delivery!Kinds), NEW r,
         Follows(p, k, l, r), k.st = "streaming", k.next < Len(l),
         j.st = k.st, j.next = k.next + 1,
         \/ Sees(r, l[k.next + 1]) /\ j.wire = Append(k.wire, Delivery!Message(l[k.next + 1], k.next + 1))
         \/ ~Sees(r, l[k.next + 1]) /\ j.wire = k.wire
  PROVE  Follows(p, j, l, r)
<1> DEFINE c == p.cursor
           m == Delivery!Message(l[k.next + 1], k.next + 1)
<1> SUFFICES ASSUME WireOK(k.wire, c, l, r), StreamOK(k, c, l, r)
             PROVE  WireOK(j.wire, c, l, r) /\ StreamOK(j, c, l, r)
  BY DEF Follows
<1>1. c \in Nat /\ k.next \in Nat /\ k.wire \in Seq(Wired) /\ Len(l) \in Nat
  BY DEF Page, Socket
<1>2. k.next + 1 \in 1 .. Len(l) /\ l[k.next + 1] \in Delivery!Kinds
  BY <1>1
<1>3. m \in Wired /\ m.kind = l[k.next + 1] /\ m.cursor = k.next + 1 /\ m.kind \in Delivery!Kinds
  BY <1>1, <1>2 DEF Delivery!Message, Wired
<1>4. c <= k.next /\ k.next + 1 <= Len(l)
      /\ (\A i \in DOMAIN k.wire : k.wire[i].kind \in Delivery!Kinds /\ k.wire[i].cursor <= k.next)
      /\ \A n \in Nat : c < n /\ n <= k.next /\ Sees(r, l[n]) =>
           \E i \in DOMAIN k.wire : k.wire[i].cursor = n
  BY <1>1 DEF StreamOK
<1>k. \A i \in DOMAIN k.wire : k.wire[i].cursor \in Nat
  <2>1. \A i \in DOMAIN k.wire : k.wire[i] \in Wired
    BY <1>1
  <2>. QED  BY <2>1 DEF Wired
<1> HIDE DEF c, m
<1>5. CASE ~Sees(r, l[k.next + 1]) /\ j.wire = k.wire
  <2>1. \A n \in Nat : c < n /\ n <= k.next + 1 /\ Sees(r, l[n]) => n <= k.next
    BY <1>1, <1>5
  <2>2. StreamOK(j, c, l, r)
    <3>1. \A i \in DOMAIN j.wire : j.wire[i].kind \in Delivery!Kinds /\ j.wire[i].cursor <= j.next
      BY <1>1, <1>4, <1>5, <1>k
    <3>. QED  BY <1>1, <1>4, <1>5, <2>1, <3>1 DEF StreamOK
  <2>. QED  BY <1>5, <2>2
<1>6. CASE Sees(r, l[k.next + 1]) /\ j.wire = Append(k.wire, Delivery!Message(l[k.next + 1], k.next + 1))
  <2> DEFINE w == Append(k.wire, m)
  <2>0. j.wire = w
    BY <1>6 DEF m
  <2>1. /\ Len(k.wire) \in Nat /\ DOMAIN k.wire = 1 .. Len(k.wire)
        /\ DOMAIN w = 1 .. Len(k.wire) + 1 /\ w[Len(k.wire) + 1] = m
        /\ \A i \in 1 .. Len(k.wire) : w[i] = k.wire[i]
    BY <1>1, <1>3, Appended
  <2> HIDE DEF w
  <2>2. \A n \in Nat : c < n /\ n <= k.next /\ Sees(r, l[n]) =>
          \E i \in DOMAIN w : i < Len(k.wire) + 1 /\ w[i].cursor = n
    <3> TAKE n \in Nat
    <3> HAVE c < n /\ n <= k.next /\ Sees(r, l[n])
    <3>1. PICK i \in DOMAIN k.wire : k.wire[i].cursor = n
      BY <1>4
    <3>. QED  BY <2>1, <3>1
  <2>3. StreamOK(j, c, l, r)
    <3>1. \A i \in DOMAIN w : w[i].kind \in Delivery!Kinds /\ w[i].cursor <= k.next + 1
      <4> TAKE i \in DOMAIN w
      <4>1. CASE i \in 1 .. Len(k.wire)
        BY <1>1, <1>4, <1>k, <2>1, <4>1
      <4>2. CASE i = Len(k.wire) + 1
        BY <1>1, <1>3, <2>1, <4>2
      <4>. QED  BY <2>1, <4>1, <4>2
    <3>2. \A n \in Nat : c < n /\ n <= k.next + 1 /\ Sees(r, l[n]) =>
            \E i \in DOMAIN w : w[i].cursor = n
      <4> TAKE n \in Nat
      <4> HAVE c < n /\ n <= k.next + 1 /\ Sees(r, l[n])
      <4>1. CASE n <= k.next
        BY <2>2, <4>1
      <4>2. CASE n = k.next + 1
        <5>1. Len(k.wire) + 1 \in DOMAIN w
          BY <2>1
        <5>. QED  BY <1>3, <2>1, <4>2, <5>1
      <4>. QED  BY <1>1, <4>1, <4>2
    <3>3. c <= j.next /\ j.next <= Len(l) /\ j.next = k.next + 1
      BY <1>1, <1>4
    <3>. QED  BY <2>0, <3>1, <3>2, <3>3 DEF StreamOK
  <2>4. WireOK(w, c, l, r)
    <3> SUFFICES ASSUME NEW i \in DOMAIN w
                 PROVE  /\ w[i].kind \in Delivery!Kinds
                        /\ c < w[i].cursor /\ w[i].cursor <= Len(l)
                        /\ l[w[i].cursor] = w[i].kind /\ Sees(r, w[i].kind)
                        /\ \A b \in DOMAIN w : b < i => w[b].cursor < w[i].cursor
                        /\ \A n \in Nat : c < n /\ n < w[i].cursor /\ Sees(r, l[n]) =>
                             \E b \in DOMAIN w : b < i /\ w[b].cursor = n
      BY DEF WireOK
    <3>1. CASE i \in 1 .. Len(k.wire)
      <4>1. /\ k.wire[i].kind \in Delivery!Kinds
            /\ c < k.wire[i].cursor /\ k.wire[i].cursor <= Len(l)
            /\ l[k.wire[i].cursor] = k.wire[i].kind /\ Sees(r, k.wire[i].kind)
            /\ \A b \in DOMAIN k.wire : b < i => k.wire[b].cursor < k.wire[i].cursor
            /\ \A n \in Nat : c < n /\ n < k.wire[i].cursor /\ Sees(r, l[n]) =>
                 \E b \in DOMAIN k.wire : b < i /\ k.wire[b].cursor = n
        BY <1>4, <2>1, <3>1 DEF WireOK
      <4>2. w[i] = k.wire[i]
        BY <2>1, <3>1
      <4>3. \A b \in DOMAIN w : b < i => b \in DOMAIN k.wire /\ w[b] = k.wire[b]
        BY <2>1, <3>1
      <4>4. \A b \in DOMAIN k.wire : b \in DOMAIN w /\ w[b] = k.wire[b]
        BY <2>1
      <4>. QED  BY <4>1, <4>2, <4>3, <4>4
    <3>2. CASE i = Len(k.wire) + 1
      <4>1. w[i] = m
        BY <2>1, <3>2
      <4>2. /\ w[i].kind = l[k.next + 1] /\ w[i].cursor = k.next + 1 /\ w[i].kind \in Delivery!Kinds
        BY <1>3, <4>1
      <4>3. \A b \in DOMAIN w : b < i => w[b].cursor < k.next + 1
        <5> TAKE b \in DOMAIN w
        <5> HAVE b < i
        <5>1. b \in DOMAIN k.wire /\ w[b] = k.wire[b]
          BY <2>1, <3>2
        <5>. QED  BY <1>1, <1>4, <1>k, <5>1
      <4>4. \A n \in Nat : c < n /\ n < k.next + 1 /\ Sees(r, l[n]) =>
              \E b \in DOMAIN w : b < i /\ w[b].cursor = n
        BY <1>1, <2>2, <3>2
      <4>5. c < k.next + 1
        BY <1>1, <1>4
      <4>. QED  BY <1>4, <1>6, <4>2, <4>3, <4>4, <4>5
    <3>. QED  BY <2>1, <3>1, <3>2
  <2>. QED  BY <2>0, <2>3, <2>4
<1>. QED  BY <1>5, <1>6 DEF m

\* A stream that fails behind what it has sent.
LEMMA FollowsFailed ==
  ASSUME NEW p \in Page, NEW k \in Socket, NEW j \in Socket, NEW l, NEW r, Follows(p, k, l, r),
         j.wire = Append(k.wire, Delivery!Message("overflow", 0)), j.st = "stopping"
  PROVE  Follows(p, j, l, r)
<1> DEFINE m == Delivery!Message("overflow", 0)
           w == Append(k.wire, m)
<1>1. m \in Wired /\ m.kind \notin Delivery!Kinds /\ m.cursor = 0
  BY DEF Wired, Delivery!Message, Delivery!Kinds
<1>2. k.wire \in Seq(Wired)
  BY DEF Socket
<1> HIDE DEF m
<1>3. /\ Len(k.wire) \in Nat /\ DOMAIN k.wire = 1 .. Len(k.wire)
      /\ DOMAIN w = 1 .. Len(k.wire) + 1 /\ w[Len(k.wire) + 1] = m
      /\ \A i \in 1 .. Len(k.wire) : w[i] = k.wire[i]
  BY <1>1, <1>2, Appended
<1>4. j.wire = w
  BY DEF m
<1> HIDE DEF w
<1>5. ASSUME WireOK(k.wire, p.cursor, l, r)
      PROVE  WireOK(w, p.cursor, l, r)
  <2>1. SUFFICES ASSUME NEW i \in DOMAIN w
        PROVE  /\ w[i].kind \notin Delivery!Kinds => w[i].cursor = 0
               /\ w[i].kind \in Delivery!Kinds =>
                    /\ p.cursor < w[i].cursor /\ w[i].cursor <= Len(l)
                    /\ l[w[i].cursor] = w[i].kind /\ Sees(r, w[i].kind)
                    /\ \A b \in DOMAIN w : b < i => w[b].cursor < w[i].cursor
                    /\ \A n \in Nat : p.cursor < n /\ n < w[i].cursor /\ Sees(r, l[n]) =>
                         \E b \in DOMAIN w : b < i /\ w[b].cursor = n
    BY DEF WireOK
  <2>2. CASE i \in 1 .. Len(k.wire)
    <3>1. \A b \in DOMAIN w : b < i => b \in DOMAIN k.wire /\ w[b] = k.wire[b]
      BY <1>3, <2>2
    <3>2. \A b \in DOMAIN k.wire : b \in DOMAIN w /\ w[b] = k.wire[b]
      BY <1>3
    <3>3. /\ k.wire[i].kind \notin Delivery!Kinds => k.wire[i].cursor = 0
          /\ k.wire[i].kind \in Delivery!Kinds =>
               /\ p.cursor < k.wire[i].cursor /\ k.wire[i].cursor <= Len(l)
               /\ l[k.wire[i].cursor] = k.wire[i].kind /\ Sees(r, k.wire[i].kind)
               /\ \A b \in DOMAIN k.wire : b < i => k.wire[b].cursor < k.wire[i].cursor
               /\ \A n \in Nat : p.cursor < n /\ n < k.wire[i].cursor /\ Sees(r, l[n]) =>
                    \E b \in DOMAIN k.wire : b < i /\ k.wire[b].cursor = n
      BY <1>3, <1>5, <2>2 DEF WireOK
    <3>. QED  BY <1>3, <2>2, <3>1, <3>2, <3>3
  <2>3. CASE i = Len(k.wire) + 1
    BY <1>1, <1>3, <2>3
  <2>. QED  BY <1>3, <2>2, <2>3
<1>. QED  BY <1>4, <1>5 DEF Follows

-----------------------------------------------------------------------------
(***************************************************************************)
(* The relay and the server keep the invariant.                            *)
(***************************************************************************)
LEMMA PublishKeeps ==
  ASSUME DeliveryInv, NEW kind \in Delivery!Kinds, Delivery!Publish(kind)
  PROVE  DeliveryInv'
<1>1. /\ log \in Seq(Delivery!Kinds) /\ socket \in [Delivery!Sockets -> Socket] /\ page \in Page
      /\ LogOK(log) /\ PageOK(page, log, role) /\ Len(log) < MaxEvents /\ DeliveryTyped /\ PlacesOK
      /\ FollowOK
  BY DEF DeliveryInv, DeliveryTyped, Delivery!Publish
<1>2. /\ log' = Append(log, kind) /\ log' \in Seq(Delivery!Kinds) /\ Len(log') = Len(log) + 1
      /\ Len(log) \in Nat /\ DOMAIN log = 1 .. Len(log) /\ DOMAIN log' = 1 .. Len(log) + 1
      /\ log'[Len(log) + 1] = kind /\ \A i \in 1 .. Len(log) : log'[i] = log[i]
  BY <1>1, Appended DEF Delivery!Publish
<1>3. UNCHANGED <<role, used, page>>
  BY DEF Delivery!Publish
<1>4. /\ socket' \in [Delivery!Sockets -> Socket]
      /\ \A s \in Delivery!Sockets :
           /\ socket'[s] \in Socket /\ socket'[s].wire = socket[s].wire
           /\ socket'[s].st = socket[s].st /\ socket'[s].next = socket[s].next
           /\ socket'[s].slot = socket[s].slot
  <2>1. ASSUME NEW s \in Delivery!Sockets
        PROVE  LET k == [socket[s] EXCEPT !.cut = Len(log)] IN
               /\ k \in Socket /\ socket[s] \in Socket /\ k.wire = socket[s].wire
               /\ k.st = socket[s].st /\ k.next = socket[s].next /\ k.slot = socket[s].slot
    BY <1>1, <1>2 DEF Socket
  <2>2. /\ DOMAIN socket' = Delivery!Sockets /\ socket' = [s \in Delivery!Sockets |-> socket'[s]]
        /\ \A s \in Delivery!Sockets : socket'[s] \in {socket[s], [socket[s] EXCEPT !.cut = Len(log)]}
    BY DEF Delivery!Publish
  <2>3. ASSUME NEW s \in Delivery!Sockets
        PROVE  /\ socket'[s] \in Socket /\ socket'[s].wire = socket[s].wire
               /\ socket'[s].st = socket[s].st /\ socket'[s].next = socket[s].next
               /\ socket'[s].slot = socket[s].slot
    <3>1. CASE socket'[s] = socket[s]
      BY ONLY <2>1, <3>1
    <3>2. CASE socket'[s] = [socket[s] EXCEPT !.cut = Len(log)]
      BY ONLY <2>1, <3>2
    <3>. QED  BY ONLY <2>2, <3>1, <3>2
  <2>4. socket' \in [Delivery!Sockets -> Socket]
    BY ONLY <2>2, <2>3
  <2>. QED  BY ONLY <2>3, <2>4
<1>5. DeliveryTyped'
  <2>1. Len(log') <= MaxEvents
    BY <1>1, <1>2, MaxIs
  <2>. QED  BY <1>2, <1>3, <1>4, <2>1 DEF DeliveryInv, DeliveryTyped
<1>6. PlacesOK'
  <2>1. Placed(socket') = Placed(socket)
    BY <1>4 DEF Placed
  <2>. QED  BY <1>1, <1>3, <1>4, <2>1 DEF PlacesOK
<1>7. LogOK(log')
  <2>1. log # <<>> => /\ log[Len(log)] # "closed"
                      /\ log[Len(log)] = "withdrawal" => kind = "closed"
    BY SameLast DEF Delivery!Publish, Delivery!IsClosed
  <2>2. \A i \in 1 .. Len(log) : log # <<>> /\ log[i] # "closed"
                                 /\ (log[i] = "withdrawal" => log'[i + 1] = "closed")
    <3> TAKE i \in 1 .. Len(log)
    <3>1. log # <<>>
      BY <1>2
    <3>2. CASE i = Len(log)
      BY <1>2, <2>1, <3>1, <3>2
    <3>3. CASE i # Len(log)
      <4>1. i + 1 \in 1 .. Len(log)
        <5>1. i \in 1 .. Len(log) /\ Len(log) \in Nat
          BY <1>2
        <5>. QED  BY ONLY <3>3, <5>1
      <4>. QED  BY <1>1, <1>2, <3>1, <3>3, <4>1 DEF LogOK
    <3>. QED  BY <3>2, <3>3
  <2>. QED  BY <1>2, <2>2 DEF LogOK
<1>8. PageOK(page, log', role)
  <2>0. page.cursor \in Nat /\ page.answer.cursor \in Nat
    BY <1>1 DEF Page
  <2>1. \A i \in 1 .. page.cursor : log'[i] = log[i]
    BY <1>1, <1>2, <2>0 DEF PageOK
  <2>2. {i \in 1 .. page.cursor : i > page.base /\ Sees(role, log'[i])}
          = {i \in 1 .. page.cursor : i > page.base /\ Sees(role, log[i])}
    BY <2>1
  <2>3. page.cursor > 0 => log'[page.cursor] = log[page.cursor]
    BY <2>0, <2>1
  <2>. QED  BY <1>1, <1>2, <2>0, <2>2, <2>3 DEF PageOK
<1>9. FollowOK'
  <2>1. SUFFICES ASSUME page.socket # 0
                 PROVE  Follows(page, socket'[page.socket], log', role)
    BY <1>3, <2>1 DEF FollowOK
  <2>2. page.socket \in Delivery!Sockets
    BY <1>1, <2>1 DEF Page
  <2>3. Follows(page, socket[page.socket], log, role)
    BY <1>1, <2>1 DEF FollowOK
  <2>4. /\ socket[page.socket] \in Socket /\ socket'[page.socket] \in Socket
        /\ socket'[page.socket].wire = socket[page.socket].wire
        /\ socket'[page.socket].st = socket[page.socket].st
        /\ socket'[page.socket].next = socket[page.socket].next
    BY <1>1, <1>4, <2>2
  <2>5. Follows(page, socket'[page.socket], Append(log, kind), role)
    BY <1>1, <2>3, <2>4, FollowsGrown
  <2>. QED  BY <1>2, <2>5
<1>. QED  BY <1>3, <1>5, <1>6, <1>7, <1>8, <1>9 DEF DeliveryInv

\* What of the invariant the steps of one socket need.
LEMMA SocketIs ==
  ASSUME DeliveryInv, NEW s \in Delivery!Sockets
  PROVE  /\ socket[s] \in Socket /\ page \in Page /\ log \in Seq(Delivery!Kinds) /\ Len(log) \in Nat
         /\ used \in Nat /\ socket \in [Delivery!Sockets -> Socket] /\ DeliveryTyped
         /\ page.socket = s => Follows(page, socket[s], log, role)
         /\ socket[s].st \in {"none", "asked", "ended"} => ~socket[s].slot
         /\ socket[s].slot \in BOOLEAN
<1>1. 0 \notin Delivery!Sockets
  BY DEF Delivery!Sockets
<1>. QED  BY <1>1 DEF DeliveryInv, DeliveryTyped, FollowOK, PlacesOK, Socket

\* A socket that is not of a stream, whatever is on its wire.
Shut == {k \in Socket : k.st \notin {"asked", "streaming"}}

LEMMA ShutAre ==
  ASSUME NEW s \in Delivery!Sockets, socket \in [Delivery!Sockets -> Socket]
  PROVE  /\ Delivery!Stopping(s) \in Shut /\ Delivery!Stopping(s).wire = socket[s].wire
         /\ Delivery!Stopping(s).slot = socket[s].slot /\ Delivery!Stopping(s).st = "stopping"
         /\ Delivery!Gone(s) \in Shut /\ Delivery!Gone(s).wire = <<>> /\ Delivery!Gone(s).slot = FALSE
         /\ Delivery!Gone(s).st = "stopping"
<1>1. socket[s] \in Socket /\ <<>> \in Seq(Wired)
  OBVIOUS
<1>2. /\ Delivery!Stopping(s) \in Socket /\ Delivery!Stopping(s).wire = socket[s].wire
      /\ Delivery!Stopping(s).slot = socket[s].slot /\ Delivery!Stopping(s).st = "stopping"
  BY <1>1 DEF Delivery!Stopping, Socket
<1>3. /\ Delivery!Gone(s) \in Socket /\ Delivery!Gone(s).wire = <<>> /\ Delivery!Gone(s).slot = FALSE
      /\ Delivery!Gone(s).st = "stopping"
  BY <1>1, <1>2 DEF Delivery!Gone, Socket
<1>. QED  BY <1>2, <1>3 DEF Shut

LEMMA AcceptKeeps ==
  ASSUME DeliveryInv, NEW s \in Delivery!Sockets, Delivery!Accept(s)
  PROVE  DeliveryInv'
<1>0. UNCHANGED <<role, log, page>> /\ socket[s].st = "asked"
  BY DEF Delivery!Accept
<1>. USE SocketIs
<1>1. CASE socket' = [socket EXCEPT ![s] = [Delivery!NoSocket EXCEPT !.st = "ended", !.shut = TRUE]]
           /\ used' = used
  <2> DEFINE k == [Delivery!NoSocket EXCEPT !.st = "ended", !.shut = TRUE]
  <2>1. k \in Socket /\ k.st = "ended" /\ k.wire = <<>> /\ ~k.slot /\ k.slot \in BOOLEAN
    BY Nothing DEF Delivery!NoSocket, Socket
  <2>2. socket' = [socket EXCEPT ![s] = k]
    BY <1>1
  <2> HIDE DEF k
  <2>3. page.socket = s => Follows(page, k, log, role)
    BY <2>1, FollowsShut
  <2>. QED  BY <1>0, <1>1, <2>1, <2>2, <2>3, SocketMoves
<1>2. CASE socket' = [socket EXCEPT ![s] = [Delivery!Stopping(s) EXCEPT
                        !.slot = TRUE, !.wire = <<Delivery!Message("gap", 0)>>]] /\ used' = used + 1
  <2> DEFINE k == [Delivery!Stopping(s) EXCEPT !.slot = TRUE, !.wire = <<Delivery!Message("gap", 0)>>]
  <2>1. /\ k \in Socket /\ k.st = "stopping" /\ k.wire = <<Delivery!Message("gap", 0)>> /\ k.slot
        /\ Delivery!Message("gap", 0).kind \notin Delivery!Kinds /\ Delivery!Message("gap", 0).cursor = 0
    <3>1. /\ Delivery!Message("gap", 0) \in Wired /\ Delivery!Message("gap", 0).kind \notin Delivery!Kinds
          /\ Delivery!Message("gap", 0).cursor = 0
      BY DEF Delivery!Message, Wired, Delivery!Kinds
    <3>2. <<Delivery!Message("gap", 0)>> \in Seq(Wired)
      BY <3>1
    <3>3. socket \in [Delivery!Sockets -> Socket]
      OBVIOUS
    <3>4. Delivery!Stopping(s) \in Socket /\ Delivery!Stopping(s).st = "stopping"
      BY <3>3, ShutAre DEF Shut
    <3>. QED  BY <3>1, <3>2, <3>4 DEF Socket
  <2>2. socket' = [socket EXCEPT ![s] = k]
    BY <1>2
  <2> HIDE DEF k
  <2>3. page.socket = s => Follows(page, k, log, role)
    BY <2>1 DEF Follows, WireOK
  <2>. QED  BY <1>0, <1>2, <2>1, <2>2, <2>3, SocketMoves
<1>3. CASE socket' = [socket EXCEPT ![s].st = "streaming", ![s].slot = TRUE] /\ used' = used + 1
  <2> DEFINE k == [socket[s] EXCEPT !.st = "streaming", !.slot = TRUE]
  <2>1. /\ k \in Socket /\ k.st = "streaming" /\ k.wire = socket[s].wire /\ k.slot
        /\ k.next = socket[s].next
    BY DEF Socket
  <2>2. socket' = [socket EXCEPT ![s] = k]
    BY <1>3
  <2> HIDE DEF k
  <2>3. page.socket = s => Follows(page, k, log, role)
    BY <1>0, <2>1 DEF Follows, StreamOK
  <2>. QED  BY <1>0, <1>3, <2>1, <2>2, <2>3, SocketMoves
<1>. QED  BY <1>1, <1>2, <1>3 DEF Delivery!Accept

LEMMA DeliverKeeps ==
  ASSUME DeliveryInv, NEW s \in Delivery!Sockets, Delivery!Deliver(s)
  PROVE  DeliveryInv'
<1>0. /\ UNCHANGED <<role, log, page, used>> /\ socket[s].st = "streaming"
      /\ socket[s].next < Len(log)
  BY DEF Delivery!Deliver
<1>. USE SocketIs
<1> DEFINE next == socket[s].next + 1
           kind == log[next]
<1>n. next \in Nat /\ kind \in Delivery!Kinds /\ Delivery!IsVisible(kind) = Sees(role, kind)
  <2>1. socket[s].next \in Nat
    BY DEF Socket
  <2>. QED  BY <1>0, <2>1 DEF Delivery!IsVisible, Sees
<1>1. CASE ~Delivery!IsVisible(kind) /\ socket' = [socket EXCEPT ![s].next = next]
  <2> DEFINE k == [socket[s] EXCEPT !.next = next]
  <2>1. /\ k \in Socket /\ k.st = socket[s].st /\ k.wire = socket[s].wire
        /\ k.slot = socket[s].slot /\ k.next = next
    BY <1>n DEF Socket
  <2>2. socket' = [socket EXCEPT ![s] = k]
    BY <1>1
  <2> HIDE DEF k
  <2>3. page.socket = s => Follows(page, k, log, role)
    BY <1>0, <1>1, <1>n, <2>1, FollowsSent
  <2>. QED  BY <1>0, <1>1, <2>1, <2>2, <2>3, SocketMoves
<1>2. CASE Delivery!IsVisible(kind)
           /\ socket' = [socket EXCEPT ![s].next = next,
                                       ![s].wire = Append(@, Delivery!Message(kind, next))]
  <2> DEFINE k == [socket[s] EXCEPT !.next = next, !.wire = Append(@, Delivery!Message(kind, next))]
  <2>0. socket[s].wire \in Seq(Wired) /\ Delivery!Message(kind, next) \in Wired
    BY <1>n DEF Socket, Delivery!Message, Wired
  <2>1. /\ k \in Socket /\ k.st = socket[s].st /\ k.next = next
        /\ k.wire = Append(socket[s].wire, Delivery!Message(kind, next))
        /\ k.slot = socket[s].slot
    BY <1>n, <2>0, Appended DEF Socket
  <2>2. socket' = [socket EXCEPT ![s] = k]
    BY <1>2
  <2> HIDE DEF k
  <2>3. page.socket = s => Follows(page, k, log, role)
    BY <1>0, <1>2, <1>n, <2>1, FollowsSent
  <2>. QED  BY <1>0, <1>2, <2>1, <2>2, <2>3, SocketMoves
<1>3. CASE socket' = [socket EXCEPT ![s] = Delivery!Stopping(s)]
  <2>1. /\ Delivery!Stopping(s) \in Socket /\ Delivery!Stopping(s).wire = socket[s].wire
        /\ Delivery!Stopping(s).slot = socket[s].slot /\ Delivery!Stopping(s).st = "stopping"
    BY ShutAre DEF Shut
  <2>2. page.socket = s => Follows(page, Delivery!Stopping(s), log, role)
    BY <2>1, FollowsShut
  <2>. QED  BY <1>0, <1>3, <2>1, <2>2, SocketMoves
<1>. QED  BY <1>1, <1>2, <1>3 DEF Delivery!Deliver

LEMMA FailKeeps ==
  ASSUME DeliveryInv, NEW s \in Delivery!Sockets, Delivery!Fail(s)
  PROVE  DeliveryInv'
<1>. USE SocketIs
<1> DEFINE k == [Delivery!Stopping(s) EXCEPT !.wire = Append(@, Delivery!Message("overflow", 0))]
<1>1. /\ UNCHANGED <<role, log, page, used>> /\ socket[s].st = "streaming"
      /\ socket' = [socket EXCEPT ![s] = k]
  BY DEF Delivery!Fail
<1>2. socket[s].wire \in Seq(Wired) /\ Delivery!Message("overflow", 0) \in Wired
  BY DEF Socket, Delivery!Message, Wired
<1>3. /\ k \in Socket /\ k.st = "stopping" /\ k.slot = socket[s].slot
      /\ k.wire = Append(socket[s].wire, Delivery!Message("overflow", 0))
  <2>1. Append(socket[s].wire, Delivery!Message("overflow", 0)) \in Seq(Wired)
    BY <1>2, Appended
  <2>2. /\ Delivery!Stopping(s) \in Socket /\ Delivery!Stopping(s).wire = socket[s].wire
        /\ Delivery!Stopping(s).slot = socket[s].slot /\ Delivery!Stopping(s).st = "stopping"
    BY ShutAre DEF Shut
  <2>. QED  BY ONLY <2>1, <2>2 DEF Socket
<1> HIDE DEF k
<1>4. page.socket = s => Follows(page, k, log, role)
  BY <1>3, FollowsFailed
<1>. QED  BY <1>1, <1>3, <1>4, SocketMoves

LEMMA FinishKeeps ==
  ASSUME DeliveryInv, NEW s \in Delivery!Sockets, Delivery!Finish(s)
  PROVE  DeliveryInv'
<1>. USE SocketIs
<1>1. PICK k \in Socket : /\ socket' = [socket EXCEPT ![s] = k] /\ k.wire \in {socket[s].wire, <<>>}
                          /\ k.st = "stopping" /\ k.slot = socket[s].slot
  <2>1. /\ Delivery!Stopping(s) \in Socket /\ Delivery!Stopping(s).wire = socket[s].wire
        /\ Delivery!Stopping(s).slot = socket[s].slot /\ Delivery!Stopping(s).st = "stopping"
    BY ShutAre DEF Shut
  <2> DEFINE k == [Delivery!Stopping(s) EXCEPT !.wire = <<>>]
  <2>2. k \in Socket /\ k.wire = <<>> /\ k.slot = socket[s].slot /\ k.st = "stopping"
    <3>1. <<>> \in Seq(Wired)
      OBVIOUS
    <3>. QED  BY <2>1, <3>1 DEF Socket
  <2>3. socket' \in {[socket EXCEPT ![s] = Delivery!Stopping(s)], [socket EXCEPT ![s] = k]}
    BY DEF Delivery!Finish
  <2> HIDE DEF k
  <2>. QED  BY <2>1, <2>2, <2>3
<1>2. UNCHANGED <<role, log, page, used>>
  BY DEF Delivery!Finish
<1>3. page.socket = s => Follows(page, k, log, role)
  BY <1>1, FollowsShut
<1>. QED  BY <1>1, <1>2, <1>3, SocketMoves

LEMMA GoneKeeps ==
  ASSUME DeliveryInv, NEW s \in Delivery!Sockets, Delivery!HearClose(s) \/ Delivery!Lose(s)
  PROVE  DeliveryInv'
<1>. USE SocketIs
<1>1. /\ socket' = [socket EXCEPT ![s] = Delivery!Gone(s)] /\ Delivery!Release(s) /\ UNCHANGED <<role, log, page>>
  BY DEF Delivery!HearClose, Delivery!Lose
<1>2. /\ Delivery!Gone(s) \in Socket /\ Delivery!Gone(s).wire = <<>> /\ Delivery!Gone(s).slot = FALSE
      /\ Delivery!Gone(s).st = "stopping"
  BY ShutAre DEF Shut
<1>3. page.socket = s => Follows(page, Delivery!Gone(s), log, role)
  BY <1>2, FollowsShut
<1>. QED  BY <1>1, <1>2, <1>3, SocketMoves DEF Delivery!Release

LEMMA EndKeeps ==
  ASSUME DeliveryInv, NEW s \in Delivery!Sockets, Delivery!End(s)
  PROVE  DeliveryInv'
<1>. USE SocketIs
<1> DEFINE k == [Delivery!NoSocket EXCEPT !.st = "ended", !.shut = TRUE,
                   !.wire = IF page.socket = s THEN socket[s].wire ELSE <<>>]
<1>1. /\ socket' = [socket EXCEPT ![s] = k] /\ Delivery!Release(s) /\ UNCHANGED <<role, log, page>>
  BY DEF Delivery!End
<1>2. /\ k \in Socket /\ k.wire \in {socket[s].wire, <<>>} /\ k.slot = FALSE /\ k.st = "ended"
  BY Nothing DEF Delivery!NoSocket, Socket
<1> HIDE DEF k
<1>3. page.socket = s => Follows(page, k, log, role)
  BY <1>2, FollowsShut
<1>. QED  BY <1>1, <1>2, <1>3, SocketMoves DEF Delivery!Release

-----------------------------------------------------------------------------
(***************************************************************************)
(* The page keeps the invariant.                                           *)
(***************************************************************************)

\* A step that moves no place of a socket, and leaves none with a dead one.
SlotsKept ==
  \A s \in Delivery!Sockets :
    /\ socket'[s].slot = socket[s].slot
    /\ socket'[s].st \in {"none", "asked", "ended"} => ~socket'[s].slot

\* The page moves, and with it at most the wire of a socket.
LEMMA PageMoves ==
  ASSUME DeliveryInv, UNCHANGED <<role, log, used>>, NEW p \in Page, page' = p,
         PageOK(p, log, role),
         socket' \in [Delivery!Sockets -> Socket],
         SlotsKept,
         p.socket # 0 => Follows(p, socket'[p.socket], log, role)
  PROVE  DeliveryInv'
<1>1. DeliveryTyped' /\ LogOK(log') /\ FollowOK'
  BY DEF DeliveryInv, DeliveryTyped, FollowOK
<1>0. SlotsKept
  OBVIOUS
<1>2. \A s \in Delivery!Sockets : socket'[s].slot = socket[s].slot
  BY ONLY <1>0 DEF SlotsKept
<1>3. \A s \in Delivery!Sockets : socket'[s].st \in {"none", "asked", "ended"} => ~socket'[s].slot
  BY ONLY <1>0 DEF SlotsKept
<1>4. Placed(socket') = Placed(socket)
  BY ONLY <1>2 DEF Placed
<1>5. used' = used
  OBVIOUS
<1>6. used = Cardinality(Placed(socket))
  BY DEF DeliveryInv, PlacesOK
<1>7. PlacesOK'
  BY ONLY <1>3, <1>4, <1>5, <1>6 DEF PlacesOK
<1>. QED  BY <1>1, <1>7 DEF DeliveryInv

LEMMA StillMoves ==
  ASSUME DeliveryInv, UNCHANGED <<role, log, used, socket>>, NEW p \in Page, page' = p,
         PageOK(p, log, role), p.socket = 0
  PROVE  DeliveryInv'
<1>1. socket' \in [Delivery!Sockets -> Socket] /\ SlotsKept
  BY DEF DeliveryInv, DeliveryTyped, PlacesOK, SlotsKept
<1>. QED  BY <1>1, PageMoves

LEMMA ConnectKeeps ==
  ASSUME DeliveryInv, UNCHANGED <<role, log, used>>, NEW p \in Page, Delivery!ConnectAs(p),
         p.cursor <= Len(log), p.base <= p.cursor, p.resync = "no",
         p.seen = {i \in 1 .. p.cursor : i > p.base /\ Sees(role, log[i])}
  PROVE  DeliveryInv'
<1>1. PICK s \in Delivery!Sockets :
        /\ socket[s].st \in {"none", "ended"} /\ socket' = [socket EXCEPT ![s] = Delivery!Ask(p, s)]
        /\ page' = [p EXCEPT !.socket = s, !.asked = p.cursor, !.closed = FALSE, !.timer = FALSE]
  BY DEF Delivery!ConnectAs
<1> DEFINE q == [p EXCEPT !.socket = s, !.asked = p.cursor, !.closed = FALSE, !.timer = FALSE]
           k == Delivery!Ask(p, s)
<1>2. p.cursor \in Nat /\ Len(log) \in Nat
  BY SocketIs DEF Page
<1>3. /\ q \in Page /\ q.socket = s /\ q.closed = FALSE /\ q.cursor = p.cursor
      /\ q.base = p.base /\ q.seen = p.seen /\ q.resync = "no"
  BY <1>2 DEF Page
<1>4. k \in Socket /\ k.st = "asked" /\ k.next = p.cursor /\ k.wire = <<>> /\ k.slot = FALSE
  <2>1. <<>> \in Seq(Wired)
    OBVIOUS
  <2>. QED  BY <1>2, <2>1 DEF Delivery!Ask, Delivery!NoSocket, Socket
<1>5. page' = q /\ socket' = [socket EXCEPT ![s] = k]
  BY <1>1
<1> HIDE DEF q, k
<1>6. PageOK(q, log, role)
  BY <1>3 DEF PageOK
<1>7. /\ socket' \in [Delivery!Sockets -> Socket] /\ socket'[s] = k
      /\ \A r \in Delivery!Sockets \ {s} : socket'[r] = socket[r]
  BY <1>4, <1>5, SocketIs
<1>8. SlotsKept
  <2> SUFFICES ASSUME NEW r \in Delivery!Sockets
               PROVE  /\ socket'[r].slot = socket[r].slot
                      /\ socket'[r].st \in {"none", "asked", "ended"} => ~socket'[r].slot
    BY DEF SlotsKept
  <2>1. /\ socket[r].st \in {"none", "asked", "ended"} => ~socket[r].slot
        /\ socket[r].slot \in BOOLEAN
    BY SocketIs
  <2>2. CASE r = s
    BY <1>1, <1>4, <1>7, <2>1, <2>2
  <2>3. CASE r # s
    BY <1>7, <2>1, <2>3
  <2>. QED  BY <2>2, <2>3
<1>9. Follows(q, k, log, role)
  <2>1. WireOK(k.wire, q.cursor, log, role)
    BY <1>4 DEF WireOK
  <2>2. StreamOK(k, q.cursor, log, role)
    <3>1. \A n \in Nat : ~(q.cursor < n /\ n <= k.next)
      BY <1>2, <1>3, <1>4
    <3>2. \A i \in DOMAIN k.wire : FALSE
      BY <1>4
    <3>. QED  BY <1>2, <1>3, <1>4, <3>1, <3>2 DEF StreamOK
  <2>. QED  BY <2>1, <2>2 DEF Follows
<1>. QED  BY <1>3, <1>5, <1>6, <1>7, <1>8, <1>9, PageMoves

LEMMA ReconnectKeeps ==
  ASSUME DeliveryInv, Delivery!Reconnect
  PROVE  DeliveryInv'
<1>0. UNCHANGED <<role, log, used>> /\ page.timer /\ page \in Page /\ PageOK(page, log, role)
  BY DEF Delivery!Reconnect, DeliveryInv, DeliveryTyped
<1>1. CASE page.closed /\ page' = [page EXCEPT !.timer = FALSE] /\ UNCHANGED socket
  <2> DEFINE p == [page EXCEPT !.timer = FALSE]
  <2>1. /\ p \in Page /\ p.socket = page.socket /\ p.closed = page.closed /\ p.cursor = page.cursor
        /\ p.base = page.base /\ p.seen = page.seen /\ p.resync = page.resync
        /\ p.answer = page.answer /\ p.timer = FALSE
    BY <1>0 DEF Page
  <2>2. page' = p
    BY <1>1
  <2> HIDE DEF p
  <2>3. PageOK(p, log, role)
    BY <1>0, <2>1 DEF PageOK
  <2>4. p.socket # 0 => Follows(p, socket[p.socket], log, role)
    BY <2>1 DEF DeliveryInv, FollowOK, Follows
  <2>5. socket' \in [Delivery!Sockets -> Socket] /\ SlotsKept
    BY <1>1 DEF DeliveryInv, DeliveryTyped, PlacesOK, SlotsKept
  <2>. QED  BY <1>0, <1>1, <2>1, <2>2, <2>3, <2>4, <2>5, PageMoves
<1>2. CASE ~page.closed /\ Delivery!ConnectAs(page)
  <2>1. page.resync = "no"
    BY <1>0 DEF PageOK
  <2>. QED  BY <1>0, <1>2, <2>1, ConnectKeeps DEF PageOK
<1>. QED  BY <1>1, <1>2 DEF Delivery!Reconnect

LEMMA SeeCloseKeeps ==
  ASSUME DeliveryInv, NEW s \in Delivery!Sockets, Delivery!SeeClose(s)
  PROVE  DeliveryInv'
<1> DEFINE p == [page EXCEPT !.socket = 0, !.timer = ~page.closed]
<1>1. /\ page' = p /\ UNCHANGED <<role, log, used, socket>> /\ page \in Page /\ page.socket = s
      /\ PageOK(page, log, role)
  BY DEF Delivery!SeeClose, DeliveryInv, DeliveryTyped
<1>2. /\ p \in Page /\ p.socket = 0 /\ p.closed = page.closed /\ p.cursor = page.cursor
      /\ p.base = page.base /\ p.seen = page.seen /\ p.resync = page.resync
      /\ p.answer = page.answer
  BY <1>1 DEF Page
<1>3. page.resync = "no"
  <2>1. s # 0
    BY DEF Delivery!Sockets
  <2>. QED  BY <1>1, <2>1 DEF PageOK, Page
<1> HIDE DEF p
<1>4. PageOK(p, log, role)
  BY <1>1, <1>2, <1>3 DEF PageOK
<1>. QED  BY <1>1, <1>2, <1>4, StillMoves

LEMMA SnapshotKeeps ==
  ASSUME DeliveryInv, Delivery!Snapshot
  PROVE  DeliveryInv'
<1>0. /\ UNCHANGED <<role, log, used, socket>> /\ page \in Page /\ page.resync = "asked"
      /\ PageOK(page, log, role) /\ Len(log) \in Nat
  BY SocketIs DEF Delivery!Snapshot, DeliveryInv, DeliveryTyped
<1>n. page.socket = 0 /\ page.seen = {} /\ ~page.closed /\ ~page.timer
  BY <1>0 DEF PageOK
<1> DEFINE p == [page EXCEPT !.resync = "answered",
                   !.answer = [cursor |-> Len(log), room |-> Delivery!Room(Len(log))]]
           q == [page EXCEPT !.resync = "no", !.closed = TRUE, !.note = "unavailable"]
<1>1. CASE page' = p
  <2>1. Delivery!Room(Len(log)) \in {"open", "closed"}
    BY DEF Delivery!Room
  <2>2. /\ p \in Page /\ p.socket = 0 /\ ~p.closed /\ p.cursor = page.cursor
        /\ p.base = page.base /\ p.seen = page.seen /\ ~p.timer
        /\ p.answer.cursor = Len(log)
    BY <1>0, <1>n, <2>1 DEF Page
  <2> HIDE DEF p
  <2>3. PageOK(p, log, role)
    BY <1>0, <1>n, <2>2 DEF PageOK
  <2>. QED  BY <1>0, <1>1, <2>2, <2>3, StillMoves
<1>2. CASE page' = q
  <2>2. /\ q \in Page /\ q.socket = 0 /\ q.cursor = page.cursor
        /\ q.base = page.base /\ q.seen = page.seen /\ q.resync = "no"
    BY <1>0, <1>n DEF Page
  <2> HIDE DEF q
  <2>3. PageOK(q, log, role)
    BY <1>0, <1>n, <2>2 DEF PageOK
  <2>. QED  BY <1>0, <1>2, <2>2, <2>3, StillMoves
<1>. QED  BY <1>1, <1>2 DEF Delivery!Snapshot

LEMMA ShowSnapshotKeeps ==
  ASSUME DeliveryInv, Delivery!ShowSnapshot
  PROVE  DeliveryInv'
<1>0. /\ UNCHANGED <<role, log, used>> /\ page \in Page /\ page.resync = "answered"
      /\ PageOK(page, log, role)
  BY DEF Delivery!ShowSnapshot, DeliveryInv, DeliveryTyped
<1> DEFINE p == [page EXCEPT !.resync = "no", !.cursor = page.answer.cursor,
                              !.base = page.answer.cursor, !.room = page.answer.room,
                              !.answer = Delivery!NoAnswer]
<1>1. Delivery!ConnectAs(p)
  BY DEF Delivery!ShowSnapshot
<1>2. page.answer.cursor \in Nat /\ page.answer.cursor <= Len(log) /\ page.seen = {}
  BY <1>0 DEF PageOK, Page
<1>3. /\ p \in Page /\ p.cursor = page.answer.cursor /\ p.base = page.answer.cursor
      /\ p.seen = {} /\ p.resync = "no"
  BY <1>0, <1>2 DEF Page, Delivery!NoAnswer
<1> HIDE DEF p
<1>4. p.seen = {i \in 1 .. p.cursor : i > p.base /\ Sees(role, log[i])}
  BY <1>2, <1>3
<1>5. p.cursor <= Len(log) /\ p.base <= p.cursor
  BY <1>2, <1>3
<1>. QED  BY <1>0, <1>1, <1>3, <1>4, <1>5, ConnectKeeps

LEMMA OpenedIs ==
  ASSUME NEW l, Len(l) \in Nat, NEW r
  PROVE  Delivery!Opened \in Page /\ Delivery!Opened.socket = 0 /\ PageOK(Delivery!Opened, l, r)
<1>1. /\ Delivery!Opened \in Page /\ Delivery!Opened.socket = 0 /\ Delivery!Opened.cursor = 0 /\ Delivery!Opened.base = 0
      /\ Delivery!Opened.seen = {} /\ Delivery!Opened.closed = FALSE /\ Delivery!Opened.resync \in {"no", "asked"}
      /\ Delivery!Opened.resync # "no" => ~Delivery!Opened.timer
  BY DEF Delivery!Opened, Delivery!NewPage, Delivery!NoAnswer, Page, Delivery!Sockets
<1>. QED  BY <1>1 DEF PageOK

LEMMA ReloadKeeps ==
  ASSUME DeliveryInv, Delivery!Reload
  PROVE  DeliveryInv'
<1>1. UNCHANGED <<role, log, used, socket>> /\ page' = Delivery!Opened /\ Len(log) \in Nat
  BY SocketIs DEF Delivery!Reload, DeliveryInv, DeliveryTyped
<1>. QED  BY <1>1, OpenedIs, StillMoves

\* The first message on the wire of a page is taken from it.
LEMMA FollowsTaken ==
  ASSUME NEW p \in Page, NEW q \in Page, NEW k \in Socket, NEW j \in Socket, NEW l \in Seq(Delivery!Kinds),
         NEW r, Follows(p, k, l, r), k.wire # <<>>, j.wire = Tail(k.wire), j.st = k.st,
         j.next = k.next, p.closed => q.closed,
         \/ q.cursor = p.cursor /\ Head(k.wire).kind \notin Delivery!Kinds
         \/ Head(k.wire).kind \in Delivery!Kinds /\ q.cursor = Head(k.wire).cursor
  PROVE  Follows(q, j, l, r)
<1> DEFINE w == k.wire
           v == Tail(w)
           c == p.cursor
           d == q.cursor
           m == Head(w)
<1> SUFFICES ASSUME WireOK(w, c, l, r), k.st \in {"asked", "streaming"} => StreamOK(k, c, l, r)
             PROVE  /\ WireOK(j.wire, d, l, r)
                    /\ j.st \in {"asked", "streaming"} => StreamOK(j, d, l, r)
  BY DEF Follows, Page
<1>1. /\ c \in Nat /\ d \in Nat /\ k.next \in Nat /\ w \in Seq(Wired) /\ w # <<>> /\ Len(l) \in Nat
      /\ j.wire = v
  BY DEF Page, Socket
<1>2. /\ v \in Seq(Wired) /\ Len(w) \in Nat /\ Len(w) > 0
      /\ DOMAIN w = 1 .. Len(w) /\ DOMAIN v = 1 .. Len(w) - 1 /\ m = w[1] /\ m \in Wired
      /\ \A i \in 1 .. Len(w) - 1 : v[i] = w[i + 1]
  BY <1>1, Taken
<1>3. \A i \in DOMAIN w : w[i] \in Wired
  BY <1>1
<1>4. \A i \in DOMAIN w : w[i].cursor \in Nat
  BY <1>3 DEF Wired
<1>5. \/ d = c /\ m.kind \notin Delivery!Kinds
      \/ m.kind \in Delivery!Kinds /\ d = m.cursor
  OBVIOUS
<1>6. 1 \in DOMAIN w
  BY <1>2
<1>w. \A i \in DOMAIN w :
        /\ w[i].kind \notin Delivery!Kinds => w[i].cursor = 0
        /\ w[i].kind \in Delivery!Kinds =>
             /\ c < w[i].cursor /\ w[i].cursor <= Len(l)
             /\ l[w[i].cursor] = w[i].kind /\ Sees(r, w[i].kind)
             /\ \A b \in DOMAIN w : b < i => w[b].cursor < w[i].cursor
             /\ \A n \in Nat : c < n /\ n < w[i].cursor /\ Sees(r, l[n]) =>
                  \E b \in DOMAIN w : b < i /\ w[b].cursor = n
  BY DEF WireOK
<1> HIDE DEF v, w, c, d, m
<1>7. c <= d /\ m.cursor <= d
  BY <1>1, <1>2, <1>4, <1>5, <1>6, <1>w
<1>8. \A n \in Nat : d < n => m.cursor # n
  BY <1>1, <1>2, <1>4, <1>6, <1>7
<1>9. WireOK(v, d, l, r)
  <2> SUFFICES ASSUME NEW i \in DOMAIN v
               PROVE  /\ v[i].kind \notin Delivery!Kinds => v[i].cursor = 0
                      /\ v[i].kind \in Delivery!Kinds =>
                           /\ d < v[i].cursor /\ v[i].cursor <= Len(l)
                           /\ l[v[i].cursor] = v[i].kind /\ Sees(r, v[i].kind)
                           /\ \A b \in DOMAIN v : b < i => v[b].cursor < v[i].cursor
                           /\ \A n \in Nat : d < n /\ n < v[i].cursor /\ Sees(r, l[n]) =>
                                \E b \in DOMAIN v : b < i /\ v[b].cursor = n
    BY DEF WireOK
  <2>1. i + 1 \in DOMAIN w /\ v[i] = w[i + 1] /\ 1 < i + 1 /\ i \in Nat
    BY <1>2
  <2>2. v[i].kind \notin Delivery!Kinds => v[i].cursor = 0
    BY <1>w, <2>1
  <2>3. ASSUME v[i].kind \in Delivery!Kinds
        PROVE  /\ d < v[i].cursor /\ v[i].cursor <= Len(l)
               /\ l[v[i].cursor] = v[i].kind /\ Sees(r, v[i].kind)
               /\ \A b \in DOMAIN v : b < i => v[b].cursor < v[i].cursor
               /\ \A n \in Nat : d < n /\ n < v[i].cursor /\ Sees(r, l[n]) =>
                    \E b \in DOMAIN v : b < i /\ v[b].cursor = n
    <3>1. /\ c < v[i].cursor /\ v[i].cursor <= Len(l)
          /\ l[v[i].cursor] = v[i].kind /\ Sees(r, v[i].kind)
          /\ \A b \in DOMAIN w : b < i + 1 => w[b].cursor < v[i].cursor
          /\ \A n \in Nat : c < n /\ n < v[i].cursor /\ Sees(r, l[n]) =>
               \E b \in DOMAIN w : b < i + 1 /\ w[b].cursor = n
      BY <1>w, <2>1, <2>3
    <3>2. d < v[i].cursor
      <4>1. m.cursor < v[i].cursor
        BY <1>2, <1>6, <2>1, <3>1
      <4>. QED  BY <1>5, <3>1, <4>1
    <3>3. \A b \in DOMAIN v : b < i => v[b].cursor < v[i].cursor
      <4> TAKE b \in DOMAIN v
      <4> HAVE b < i
      <4>1. b + 1 \in DOMAIN w /\ v[b] = w[b + 1] /\ b + 1 < i + 1
        BY <1>2, <2>1
      <4>. QED  BY <3>1, <4>1
    <3>4. \A n \in Nat : d < n /\ n < v[i].cursor /\ Sees(r, l[n]) =>
            \E b \in DOMAIN v : b < i /\ v[b].cursor = n
      <4> TAKE n \in Nat
      <4> HAVE d < n /\ n < v[i].cursor /\ Sees(r, l[n])
      <4>1. c < n
        BY <1>1, <1>7
      <4>2. PICK b \in DOMAIN w : b < i + 1 /\ w[b].cursor = n
        BY <3>1, <4>1
      <4>3. b # 1
        BY <1>2, <1>8, <4>2
      <4>4. b - 1 \in DOMAIN v /\ v[b - 1] = w[b] /\ b - 1 < i
        BY <1>2, <2>1, <4>2, <4>3
      <4>. QED  BY <4>2, <4>4
    <3>. QED  BY <3>1, <3>2, <3>3, <3>4
  <2>. QED  BY <2>2, <2>3
<1>10. ASSUME StreamOK(k, c, l, r)
       PROVE  StreamOK(j, d, l, r)
  <2>1. /\ c <= k.next /\ k.next <= Len(l)
        /\ \A i \in DOMAIN w : w[i].kind \in Delivery!Kinds /\ w[i].cursor <= k.next
        /\ \A n \in Nat : c < n /\ n <= k.next /\ Sees(r, l[n]) =>
             \E i \in DOMAIN w : w[i].cursor = n
    BY <1>10 DEF StreamOK, w
  <2>2. d <= k.next
    BY <1>2, <1>5, <1>6, <2>1
  <2>3. \A i \in DOMAIN v : v[i].kind \in Delivery!Kinds /\ v[i].cursor <= k.next
    <3> TAKE i \in DOMAIN v
    <3>1. i + 1 \in DOMAIN w /\ v[i] = w[i + 1]
      BY <1>2
    <3>. QED  BY <2>1, <3>1
  <2>4. \A n \in Nat : d < n /\ n <= k.next /\ Sees(r, l[n]) => \E i \in DOMAIN v : v[i].cursor = n
    <3> TAKE n \in Nat
    <3> HAVE d < n /\ n <= k.next /\ Sees(r, l[n])
    <3>1. c < n
      BY <1>1, <1>7
    <3>2. PICK b \in DOMAIN w : w[b].cursor = n
      BY <2>1, <3>1
    <3>3. b # 1
      BY <1>2, <1>8, <3>2
    <3>4. b - 1 \in DOMAIN v /\ v[b - 1] = w[b]
      BY <1>2, <3>2, <3>3
    <3>. QED  BY <3>2, <3>4
  <2>5. j.next = k.next /\ j.wire = v
    BY <1>1
  <2>. QED  BY <2>1, <2>2, <2>3, <2>4, <2>5 DEF StreamOK
<1>. QED  BY <1>1, <1>9, <1>10 DEF c, d

\* A message is ignored by a page that is closed, and by none that is not.
LEMMA ReceiveKeeps ==
  ASSUME DeliveryInv, NEW s \in Delivery!Sockets, Delivery!Receive(s)
  PROVE  DeliveryInv'
<1> DEFINE k == socket[s]
           m == Head(k.wire)
           j == [k EXCEPT !.wire = Tail(@)]
           ignored == page.closed /\ ~(role = "operator" /\ m.kind = "closed")
<1>1. /\ page.socket = s /\ k.wire # <<>> /\ k \in Socket /\ page \in Page /\ log \in Seq(Delivery!Kinds)
      /\ Len(log) \in Nat /\ socket \in [Delivery!Sockets -> Socket] /\ UNCHANGED <<role, log, used>>
      /\ Follows(page, k, log, role) /\ PageOK(page, log, role) /\ LogOK(log)
      /\ s # 0 /\ role \in {"operator", "participant"}
  BY SocketIs DEF Delivery!Receive, DeliveryInv, DeliveryTyped, Delivery!Sockets
<1>2. k.wire \in Seq(Wired)
  BY <1>1 DEF Socket
<1>3. Tail(k.wire) \in Seq(Wired) /\ m = k.wire[1] /\ m \in Wired /\ 1 \in DOMAIN k.wire
  BY <1>1, <1>2, Taken
<1>4. /\ j \in Socket /\ j.wire = Tail(k.wire) /\ j.st = k.st /\ j.next = k.next /\ j.slot = k.slot
  BY <1>1, <1>3 DEF Socket
<1>5. socket' = [socket EXCEPT ![s] = j]
  BY DEF Delivery!Receive
<1>6. m.kind \in Delivery!Kinds \/ m.kind \in {"gap", "overflow"}
  BY <1>3 DEF Wired
<1>7. /\ ignored => page' = page
      /\ ~ignored /\ m.kind \in {"gap", "overflow"} => page' = Delivery!Recover(page, m.kind)
      /\ ~ignored /\ m.kind \in Delivery!Kinds /\ m.cursor <= page.cursor => page' = page
      /\ ~ignored /\ m.kind \in Delivery!Kinds /\ m.cursor > page.cursor => page' = Delivery!Apply(page, m)
  <2>1. m.kind \in {"gap", "overflow"} => m.kind \notin Delivery!Kinds
    BY DEF Delivery!Kinds
  <2>2. m.cursor \in Nat /\ page.cursor \in Nat
    BY <1>1, <1>3 DEF Wired, Page
  <2>3. m.cursor <= page.cursor => ~(m.cursor > page.cursor)
    BY <2>2
  <2>. QED  BY <1>6, <2>1, <2>3 DEF Delivery!Receive
<1>8. socket' \in [Delivery!Sockets -> Socket] /\ socket'[s] = j /\ SlotsKept
  <2>1. /\ socket' \in [Delivery!Sockets -> Socket] /\ socket'[s] = j
        /\ \A r \in Delivery!Sockets \ {s} : socket'[r] = socket[r]
    BY <1>1, <1>4, <1>5
  <2>2. \A r \in Delivery!Sockets : socket[r].st \in {"none", "asked", "ended"} => ~socket[r].slot
    BY SocketIs
  <2>3. \A r \in Delivery!Sockets : socket'[r].slot = socket[r].slot /\ socket'[r].st = socket[r].st
    BY <1>4, <2>1
  <2>. QED  BY <2>1, <2>2, <2>3 DEF SlotsKept
<1>w. ~(page.closed /\ role = "participant") =>
        /\ m.kind \in Delivery!Kinds =>
             /\ page.cursor < m.cursor /\ m.cursor <= Len(log)
             /\ log[m.cursor] = m.kind /\ Sees(role, m.kind)
             /\ \A n \in Nat : ~(page.cursor < n /\ n < m.cursor /\ Sees(role, log[n]))
        /\ m.kind \notin Delivery!Kinds => m.cursor = 0
  <2>1. ASSUME WireOK(k.wire, page.cursor, log, role)
        PROVE  /\ m.kind \notin Delivery!Kinds => m.cursor = 0
               /\ m.kind \in Delivery!Kinds =>
                    /\ page.cursor < m.cursor /\ m.cursor <= Len(log)
                    /\ log[m.cursor] = m.kind /\ Sees(role, m.kind)
                    /\ \A n \in Nat : page.cursor < n /\ n < m.cursor /\ Sees(role, log[n]) =>
                         \E b \in DOMAIN k.wire : b < 1 /\ k.wire[b].cursor = n
    BY <1>3, <2>1 DEF WireOK
  <2>2. \A b \in DOMAIN k.wire : ~(b < 1)
    BY <1>2
  <2>. QED  BY <1>1, <2>1, <2>2 DEF Follows
<1>t. m.cursor \in Nat /\ page.cursor \in Nat /\ page.base \in Nat
  BY <1>1, <1>3 DEF Wired, Page
<1> HIDE DEF k, m, j
\* What is behind the end that a closed page has applied is the close.
<1>c. page.closed => /\ page.cursor > 0 /\ page.cursor <= Len(log)
                     /\ \A n \in Nat : page.cursor < n /\ n <= Len(log) =>
                          n = Len(log) /\ log[n] = "closed"
  <2> SUFFICES ASSUME page.closed
               PROVE  /\ page.cursor > 0 /\ page.cursor <= Len(log)
                      /\ \A n \in Nat : page.cursor < n /\ n <= Len(log) =>
                           n = Len(log) /\ log[n] = "closed"
    OBVIOUS
  <2>1. /\ page.cursor > 0 /\ page.cursor <= Len(log)
        /\ log[page.cursor] \in {"withdrawal", "closed"}
    BY <1>1 DEF PageOK
  <2>2. page.cursor \in DOMAIN log /\ DOMAIN log = 1 .. Len(log)
    BY <1>1, <1>t, <2>1
  <2>3. /\ log[page.cursor] = "closed" => page.cursor = Len(log)
        /\ log[page.cursor] = "withdrawal" =>
             page.cursor = Len(log) \/ log[page.cursor + 1] = "closed"
    BY <1>1, <2>2 DEF LogOK
  <2>4. \A n \in Nat : page.cursor < n /\ n <= Len(log) => n = Len(log) /\ log[n] = "closed"
    <3> TAKE n \in Nat
    <3> HAVE page.cursor < n /\ n <= Len(log)
    <3>1. page.cursor + 1 \in 1 .. Len(log) /\ page.cursor # Len(log)
      BY <1>1, <1>t, <2>1
    <3>2. log[page.cursor + 1] = "closed"
      BY <2>1, <2>3, <3>1
    <3>3. page.cursor + 1 = Len(log)
      BY <1>1, <2>2, <3>1, <3>2 DEF LogOK
    <3>. QED  BY <1>1, <1>t, <3>1, <3>2, <3>3
  <2>. QED  BY <2>1, <2>4
<1>9. CASE page' = page /\ (ignored \/ m.kind \notin Delivery!Kinds)
  <2>1. Follows(page, j, log, role)
    <3>1. CASE page.closed /\ role = "participant"
      BY <3>1 DEF Follows
    <3>2. CASE ~(page.closed /\ role = "participant")
      <4>1. m.kind \notin Delivery!Kinds
        <5>1. ASSUME m.kind \in Delivery!Kinds, ignored
              PROVE  FALSE
          <6>1. page.closed /\ role = "operator" /\ m.kind # "closed"
            BY <1>1, <3>2, <5>1
          <6>2. log[m.cursor] = "closed"
            BY <1>c, <1>t, <1>w, <3>2, <5>1, <6>1
          <6>. QED  BY <1>w, <3>2, <5>1, <6>1, <6>2
        <5>. QED  BY <1>9, <5>1
      <4>. QED  BY <1>1, <1>4, <4>1, FollowsTaken DEF k, m
    <3>. QED  BY <3>1, <3>2
  <2>. QED  BY <1>1, <1>8, <1>9, <2>1, PageMoves
<1>10. CASE ~ignored /\ m.kind \in {"gap", "overflow"}
  <2> DEFINE p == Delivery!Recover(page, m.kind)
  <2>1. /\ p \in Page /\ p.socket = 0
        /\ role = "operator" => /\ p.cursor = 0 /\ p.base = 0 /\ p.seen = {} /\ p.resync = "asked"
                                /\ p.timer = FALSE /\ p.closed = page.closed
        /\ role # "operator" => /\ p.cursor = page.cursor /\ p.base = page.base
                                /\ p.seen = page.seen /\ p.resync = page.resync
    BY <1>1, <1>10 DEF Delivery!Recover, Page
  <2>2. page' = p
    BY <1>7, <1>10
  <2>3. role = "operator" => ~page.closed
    BY <1>10 DEF Delivery!Kinds
  <2>4. page.resync = "no"
    BY <1>1 DEF PageOK
  <2> HIDE DEF p
  <2>5. PageOK(p, log, role)
    <3>1. CASE role = "operator"
      BY <1>1, <2>1, <2>3, <3>1 DEF PageOK
    <3>2. CASE role # "operator"
      BY <1>1, <2>1, <2>4, <3>2 DEF PageOK
    <3>. QED  BY <3>1, <3>2
  <2>. QED  BY <1>1, <1>8, <2>1, <2>2, <2>5, PageMoves
<1>11. CASE ~ignored /\ m.kind \in Delivery!Kinds
  <2> DEFINE p == Delivery!Apply(page, m)
  <2>0. ~(page.closed /\ role = "participant")
    BY <1>11
  <2>1. /\ page.cursor < m.cursor /\ m.cursor <= Len(log) /\ log[m.cursor] = m.kind
        /\ Sees(role, m.kind)
        /\ \A n \in Nat : ~(page.cursor < n /\ n < m.cursor /\ Sees(role, log[n]))
    BY <1>11, <1>w, <2>0
  <2>2. page' = p
    BY <1>7, <1>11, <1>t, <2>1
  <2>3. /\ p \in Page /\ p.socket = page.socket /\ p.cursor = m.cursor /\ p.base = page.base
        /\ p.seen = page.seen \cup {m.cursor} /\ p.resync = page.resync
        /\ p.closed = (page.closed \/ m.kind \in {"withdrawal", "closed"})
    BY <1>1, <1>t DEF Delivery!Apply, Page
  <2> HIDE DEF p
  <2>4. page.resync = "no"
    BY <1>1 DEF PageOK
  <2>5. page.base <= page.cursor
        /\ page.seen = {i \in 1 .. page.cursor : i > page.base /\ Sees(role, log[i])}
    BY <1>1 DEF PageOK
  <2>6. p.seen = {i \in 1 .. p.cursor : i > p.base /\ Sees(role, log[i])}
    <3>1. \A i \in 1 .. m.cursor : i \in 1 .. page.cursor \/ i = m.cursor
                                   \/ (i \in Nat /\ page.cursor < i /\ i < m.cursor)
      BY <1>t
    <3>2. \A i \in 1 .. page.cursor : i \in 1 .. m.cursor
      BY <1>t, <2>1
    <3>3. m.cursor \in 1 .. m.cursor /\ m.cursor > page.base
      BY <1>t, <2>1, <2>5
    <3>. QED  BY <2>1, <2>3, <2>5, <3>1, <3>2, <3>3
  <2>7. p.closed => p.cursor > 0 /\ log[p.cursor] \in {"withdrawal", "closed"}
    <3>1. m.cursor > 0
      BY <1>t, <2>1
    <3>2. page.closed => log[m.cursor] = "closed"
      BY <1>c, <1>t, <2>1
    <3>. QED  BY <2>1, <2>3, <3>1, <3>2
  <2>8. PageOK(p, log, role)
    <3>1. p.base <= p.cursor /\ p.cursor <= Len(log)
      BY <1>t, <2>1, <2>3, <2>5
    <3>. QED  BY <2>3, <2>4, <2>6, <2>7, <3>1 DEF PageOK
  <2>9. Follows(p, j, log, role)
    BY <1>1, <1>4, <1>11, <2>3, FollowsTaken DEF k, m
  <2>. QED  BY <1>1, <1>8, <2>2, <2>3, <2>8, <2>9, PageMoves
<1>. QED
  <2>1. CASE ignored
    BY <1>7, <1>9, <2>1
  <2>2. CASE ~ignored
    BY <1>6, <1>10, <1>11, <2>2
  <2>. QED  BY <2>1, <2>2

-----------------------------------------------------------------------------
LEMMA DeliveryInit == Delivery!Init => DeliveryInv
<1> SUFFICES ASSUME Delivery!Init PROVE DeliveryInv
  OBVIOUS
<1>1. Delivery!NoSocket \in Socket /\ Delivery!NoSocket.slot = FALSE
  <2>1. <<>> \in Seq(Wired)
    OBVIOUS
  <2>. QED  BY <2>1 DEF Delivery!NoSocket, Socket
<1>2. /\ log = <<>> /\ log \in Seq(Delivery!Kinds) /\ Len(log) = 0 /\ used = 0 /\ page = Delivery!Opened
      /\ role \in {"operator", "participant"} /\ socket = [s \in Delivery!Sockets |-> Delivery!NoSocket]
  BY DEF Delivery!Init
<1>3. page \in Page /\ page.socket = 0 /\ PageOK(page, log, role)
  BY <1>2, OpenedIs
<1>4. DeliveryTyped
  BY <1>1, <1>2, <1>3, MaxIs DEF DeliveryTyped
<1>5. PlacesOK
  <2>1. Placed(socket) = {}
    BY <1>1, <1>2 DEF Placed
  <2>. QED  BY <1>1, <1>2, <2>1, FS_EmptySet DEF PlacesOK
<1>6. LogOK(log) /\ FollowOK
  BY <1>2, <1>3 DEF LogOK, FollowOK
<1>. QED  BY <1>3, <1>4, <1>5, <1>6 DEF DeliveryInv

LEMMA DeliveryNext == DeliveryInv /\ [Delivery!Next]_Delivery!vars => DeliveryInv'
<1> SUFFICES ASSUME DeliveryInv, [Delivery!Next]_Delivery!vars PROVE DeliveryInv'
  OBVIOUS
<1>1. ASSUME NEW kind \in Delivery!Kinds, Delivery!Publish(kind) PROVE DeliveryInv'
  BY <1>1, PublishKeeps
<1>2. ASSUME NEW s \in Delivery!Sockets, Delivery!ServerStep(s) PROVE DeliveryInv'
  BY <1>2, AcceptKeeps, DeliverKeeps, FailKeeps, FinishKeeps, GoneKeeps, EndKeeps DEF Delivery!ServerStep
<1>3. ASSUME NEW s \in Delivery!Sockets, Delivery!PageHears(s) PROVE DeliveryInv'
  BY <1>3, SeeCloseKeeps, ReceiveKeeps DEF Delivery!PageHears
<1>4. ASSUME NEW s \in Delivery!Sockets, Delivery!Lose(s) PROVE DeliveryInv'
  BY <1>4, GoneKeeps
<1>5. CASE Delivery!PageStep
  BY <1>5, ReconnectKeeps, SnapshotKeeps, ShowSnapshotKeeps DEF Delivery!PageStep
<1>6. CASE Delivery!Reload
  BY <1>6, ReloadKeeps
<1>7. CASE UNCHANGED Delivery!vars
  BY <1>7 DEF Delivery!vars, DeliveryInv, DeliveryTyped, FollowOK, PlacesOK
<1>. QED  BY <1>1, <1>2, <1>3, <1>4, <1>5, <1>6, <1>7 DEF Delivery!Next

\* What the invariant says of the pages and the places.
LEMMA DeliveryFollows ==
  DeliveryInv => Delivery!TypeOK /\ Delivery!NothingIsSkipped /\ Delivery!PlacesAreReturned
<1> SUFFICES ASSUME DeliveryInv PROVE Delivery!TypeOK /\ Delivery!NothingIsSkipped /\ Delivery!PlacesAreReturned
  OBVIOUS
<1>1. /\ page \in Page /\ page.cursor <= Len(log) /\ Len(log) <= MaxEvents /\ Len(log) \in Nat
      /\ page.seen = {i \in 1 .. page.cursor : i > page.base /\ Sees(role, log[i])}
  BY SocketIs DEF DeliveryInv, DeliveryTyped, PageOK
<1>2. Delivery!NothingIsSkipped
  BY <1>1 DEF Delivery!NothingIsSkipped, Delivery!IsVisible, Sees
<1>3. Delivery!PlacesAreReturned
  BY SameSize DEF DeliveryInv, PlacesOK, Placed, Delivery!PlacesAreReturned
<1>4. page.cursor \in 0 .. MaxEvents /\ page.seen \subseteq 1 .. MaxEvents
  BY <1>1, MaxIs DEF Page
<1>5. Delivery!TypeOK
  <2>1. \A s \in Delivery!Sockets : socket[s].st \in {"none", "asked", "streaming", "stopping", "ended"}
    BY SocketIs DEF Socket
  <2>. QED  BY <1>1, <1>4, <2>1 DEF Delivery!TypeOK, DeliveryInv, DeliveryTyped, Page
<1>. QED  BY <1>2, <1>3, <1>5

\* The events of a session on their way to a page: over lost sockets, refused
\* places, overruns, resyncs and reloads a page has applied each event it may see
\* from where it started up to its cursor, and no other; and the places taken are
\* those of the streams that run (server/app.ts streamEventSocket, web/app.js).
THEOREM DeliveryIsKept == Delivery!Spec => []DeliveryHolds
<1>1. Delivery!Init => DeliveryInv
  BY DeliveryInit
<1>2. DeliveryInv /\ [Delivery!Next]_Delivery!vars => DeliveryInv'
  BY DeliveryNext
<1>3. DeliveryInv => DeliveryHolds
  BY DeliveryFollows DEF DeliveryHolds
<1>. QED  BY <1>1, <1>2, <1>3, PTL DEF Delivery!Spec
=============================================================================
