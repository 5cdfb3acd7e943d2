---------------------------- MODULE RelayFlowProofs ----------------------------
(***************************************************************************)
(* What holds of the events of a session for any subscribers, any length   *)
(* of the history and any number of places for operations, of the queue of *)
(* the relay for any set of consumers and any capacity, and of the         *)
(* commands of a session for any set of commandIds, any commands and any   *)
(* bounds.                                                                 *)
(*                                                                         *)
(* The tail: whatever handlers and records took, at most three terminal    *)
(* transitions and one receipt wait at a time, so that the limits of the   *)
(* classes leave each of them a place.  The log: the alert of a failure is *)
(* published when the evidence fails, and until then the store and the     *)
(* stream agree.  The subscribers: what one holds is the run of cursors    *)
(* behind the last it got, up to the cursor of the session while it lives. *)
(***************************************************************************)
EXTENDS MCRelayFlow, FiniteSetTheorems, SequenceTheorems, TLAPS

-----------------------------------------------------------------------------
(***************************************************************************)
(* The inductive invariant.                                                *)
(***************************************************************************)
Terminal == {"closing", "end_cut", "closed"}
Low == {"event", "control", "cut", "session_closed"}
EndKind == {"failure", "session_closed"}

\* How many of the operations of a tail are of these kinds.
Num(t, S) == Cardinality({i \in DOMAIN t : t[i] \in S})

\* Whatever handlers and records took, the places of a withdrawal and of the
\* terminal transitions are left, and at most three of the latter wait together;
\* n is the number of the records.
Places(q, n) ==
  /\ Num(q.tail, Low) + n <= PriorityLimit
  /\ Num(q.tail, Low) + Num(q.tail, {"receipt"}) + n <= WithdrawalLimit
  /\ Num(q.tail, Terminal) <= 3
  /\ q.end = "none" => Num(q.tail, Terminal) = 0
  /\ q.end = "closing" => /\ Num(q.tail, {"closing"}) <= 1 /\ Num(q.tail, {"end_cut"}) <= 2
                          /\ Num(q.tail, {"closed"}) = 0
  /\ q.refused \cap Terminal = {}

ReceiptInv ==
  /\ withdrawn = "no" => Num(tail, {"receipt"}) = 0
  /\ withdrawn # "late" => "receipt" \notin refused

\* The event that is in flight is at the head of the tail.
HeadInv ==
  inflight # 0 => tail # <<>> /\ Head(tail) # "session_closed" /\ (~failed => inflight = cursor + 1)

\* While the end is announced, its event waits or was published.
AnnounceInv ==
  end = "announce" => \/ failed \/ Contains(tail, "session_closed")
                      \/ \E i \in DOMAIN published : published[i].kind = "session_closed"

TailInv == Places(Now, records) /\ ReceiptInv /\ HeadInv /\ AnnounceInv

\* The cursor counts what was published, a failure is among it when there was
\* one, and until then the store has nothing else.
CursorInv == cursor = Len(published) /\ \A i \in DOMAIN published : published[i].cursor = i
LogInv(p, d, f) ==
  /\ f <=> \E i \in DOMAIN p : p[i].kind = "failure"
  /\ \A i, j \in DOMAIN p : i < j /\ p[i].kind = "failure" => p[j].kind = "session_closed"
  /\ \A i \in DOMAIN p : p[i].kind \in EndKind \/ Contains(d, p[i])
  /\ ~f => \A i \in DOMAIN d : Contains(p, d[i])

\* The last event of a session or the alert of a failure is not behind cursor c.
Ended(p, c) == \E i \in DOMAIN p : p[i].kind \in EndKind /\ p[i].cursor <= c

\* A subscriber's queue is what comes behind its last event, without a gap, and
\* a live one has it all.
SubOK(sub, c, p) ==
  /\ sub.got = sub.last /\ sub.last + Len(sub.queue) <= c
  /\ \A i \in DOMAIN sub.queue : sub.queue[i] = sub.last + i
  /\ sub.state = "live" => sub.last + Len(sub.queue) = c
  /\ sub.state \notin {"live", "draining"} => sub.queue = <<>>
  /\ sub.waiting => sub.state = "live" /\ sub.queue = <<>>
  /\ sub.state \in {"draining", "done"} /\ ~sub.late => Ended(p, sub.last + Len(sub.queue))
SubsInv == \A s \in Subscriber : SubOK(subs[s], cursor, published)

StreamInv == CursorInv /\ LogInv(published, durable, failed) /\ SubsInv

EventsInv == TypeOK /\ TailInv /\ StreamInv

-----------------------------------------------------------------------------
(***************************************************************************)
(* Counting the operations of a tail.                                      *)
(***************************************************************************)
Where(t, S) == {i \in DOMAIN t : t[i] \in S}

LEMMA NumIs ==
  ASSUME NEW t \in Seq(Kind), NEW S
  PROVE  /\ IsFiniteSet(Where(t, S)) /\ Num(t, S) = Cardinality(Where(t, S)) /\ Num(t, S) \in Nat
         /\ Len(t) \in Nat /\ DOMAIN t = 1 .. Len(t) /\ Where(t, S) \subseteq 1 .. Len(t)
<1>1. Len(t) \in Nat /\ DOMAIN t = 1 .. Len(t)
  OBVIOUS
<1>2. IsFiniteSet(1 .. Len(t))
  BY <1>1, FS_Interval
<1>3. Where(t, S) \in SUBSET (1 .. Len(t))
  BY <1>1 DEF Where
<1>4. IsFiniteSet(Where(t, S))
  BY <1>2, <1>3, FS_Subset
<1>5. Cardinality(Where(t, S)) \in Nat
  BY <1>4, FS_CardinalityType
<1>. QED  BY <1>1, <1>3, <1>4, <1>5 DEF Num, Where

LEMMA NumEmpty == ASSUME NEW S PROVE Num(<<>>, S) = 0
<1>1. {i \in DOMAIN <<>> : <<>>[i] \in S} = {}
  OBVIOUS
<1>. QED  BY <1>1, FS_EmptySet DEF Num

LEMMA NumAppend ==
  ASSUME NEW t \in Seq(Kind), NEW k \in Kind, NEW S
  PROVE  Num(Append(t, k), S) = Num(t, S) + (IF k \in S THEN 1 ELSE 0)
<1>1. /\ Append(t, k) \in Seq(Kind) /\ Len(Append(t, k)) = Len(t) + 1 /\ Len(t) \in Nat
      /\ \A i \in 1 .. Len(t) : Append(t, k)[i] = t[i]
      /\ Append(t, k)[Len(t) + 1] = k
  BY AppendProperties
<1>2. DOMAIN t = 1 .. Len(t) /\ DOMAIN Append(t, k) = 1 .. Len(t) + 1
  BY <1>1
<1>3. Where(Append(t, k), S) = Where(t, S) \cup (IF k \in S THEN {Len(t) + 1} ELSE {})
  BY <1>1, <1>2 DEF Where
<1>4. Len(t) + 1 \notin Where(t, S)
  BY <1>1, <1>2 DEF Where
<1>. /\ Num(Append(t, k), S) = Cardinality(Where(Append(t, k), S))
     /\ Num(t, S) = Cardinality(Where(t, S)) /\ Num(t, S) \in Nat /\ IsFiniteSet(Where(t, S))
  BY <1>1, NumIs
<1>5. CASE k \in S
  <2>1. Where(Append(t, k), S) = Where(t, S) \cup {Len(t) + 1}
    BY <1>3, <1>5
  <2>2. Cardinality(Where(t, S) \cup {Len(t) + 1}) = Cardinality(Where(t, S)) + 1
    BY <1>4, FS_AddElement
  <2>. QED  BY <1>5, <2>1, <2>2
<1>6. CASE k \notin S
  <2>1. Where(Append(t, k), S) = Where(t, S)
    BY <1>3, <1>6
  <2>. QED  BY <1>6, <2>1
<1>. QED  BY <1>5, <1>6

LEMMA NumTail ==
  ASSUME NEW t \in Seq(Kind), t # <<>>, NEW S
  PROVE  Num(Tail(t), S) = Num(t, S) - (IF Head(t) \in S THEN 1 ELSE 0)
<1>1. /\ Tail(t) \in Seq(Kind) /\ Len(Tail(t)) = Len(t) - 1 /\ Len(t) \in Nat /\ Len(t) # 0
      /\ \A i \in 1 .. Len(Tail(t)) : Tail(t)[i] = t[i + 1]
      /\ Head(t) = t[1]
  BY HeadTailProperties, EmptySeq
<1>2. DOMAIN t = 1 .. Len(t) /\ DOMAIN Tail(t) = 1 .. Len(t) - 1
  BY <1>1
<1> DEFINE rest == Where(t, S) \ {1}
           f == [i \in Where(Tail(t), S) |-> i + 1]
<1>3. \A i \in 1 .. Len(t) - 1 : i + 1 \in 1 .. Len(t) /\ i + 1 # 1
  BY <1>1
<1>. Where(Tail(t), S) \subseteq Nat
  BY <1>1, <1>2 DEF Where
<1>4. \A i \in Where(Tail(t), S) : f[i] \in rest
  BY <1>1, <1>2, <1>3 DEF Where
<1>5. \A i, j \in Where(Tail(t), S) : f[i] = f[j] => i = j
  BY <1>1, <1>2 DEF Where
<1>6. \A j \in rest : \E i \in Where(Tail(t), S) : f[i] = j
  <2> SUFFICES ASSUME NEW j \in rest PROVE \E i \in Where(Tail(t), S) : f[i] = j
    OBVIOUS
  <2>1. j - 1 \in 1 .. Len(t) - 1 /\ (j - 1) + 1 = j /\ t[j] \in S
    BY <1>1, <1>2 DEF Where
  <2>2. j - 1 \in Where(Tail(t), S)
    BY <1>1, <1>2, <2>1 DEF Where
  <2>. QED  BY <2>1, <2>2
<1>7. IsFiniteSet(Where(Tail(t), S)) /\ Num(Tail(t), S) = Cardinality(Where(Tail(t), S))
      /\ IsFiniteSet(Where(t, S)) /\ Num(t, S) = Cardinality(Where(t, S)) /\ Num(t, S) \in Nat
  BY <1>1, NumIs
<1>8. Cardinality(rest) = Num(Tail(t), S)
  <2> DEFINE whole == Where(Tail(t), S)
  <2>0. f \in [whole -> rest] /\ (\A i, j \in whole : f[i] = f[j] => i = j)
        /\ \A j \in rest : \E i \in whole : f[i] = j
    BY <1>4, <1>5, <1>6
  <2>4. IsFiniteSet(whole) /\ Cardinality(whole) = Num(Tail(t), S)
    BY <1>7
  <2> HIDE DEF whole, rest, f
  <2>1. f \in Bijection(whole, rest)
    BY <2>0 DEF Bijection, Injection, Surjection, IsInjective
  <2>2. ExistsBijection(whole, rest)
    BY <2>1 DEF ExistsBijection
  <2>3. Cardinality(rest) = Cardinality(whole)
    BY <2>4, <2>2, FS_Bijection
  <2>5. Cardinality(rest) = Num(Tail(t), S)
    BY <2>4, <2>3
  <2>. QED  BY <2>5 DEF rest
<1>9. Cardinality(rest) = Num(t, S) - (IF 1 \in Where(t, S) THEN 1 ELSE 0)
  <2> DEFINE all == Where(t, S)
  <2>1. IsFiniteSet(all) /\ Num(t, S) = Cardinality(all) /\ Num(t, S) \in Nat
    BY <1>7
  <2> HIDE DEF all
  <2>2. Cardinality(all \ {1}) = IF 1 \in all THEN Cardinality(all) - 1 ELSE Cardinality(all)
    BY <2>1, FS_RemoveElement
  <2>3. Cardinality(all \ {1}) = Num(t, S) - (IF 1 \in all THEN 1 ELSE 0)
    BY <2>1, <2>2
  <2>. QED  BY <2>3 DEF all
<1>10. 1 \in Where(t, S) <=> Head(t) \in S
  BY <1>1, <1>2 DEF Where
<1>. QED  BY <1>8, <1>9, <1>10

LEMMA NumUnion ==
  ASSUME NEW t \in Seq(Kind), NEW S, NEW T, S \cap T = {}
  PROVE  Num(t, S \cup T) = Num(t, S) + Num(t, T)
<1>1. Where(t, S \cup T) = Where(t, S) \cup Where(t, T) /\ Where(t, S) \cap Where(t, T) = {}
  BY DEF Where
<1>2. IsFiniteSet(Where(t, S)) /\ IsFiniteSet(Where(t, T))
  BY NumIs
<1>3. Cardinality(Where(t, S) \cup Where(t, T)) =
          Cardinality(Where(t, S)) + Cardinality(Where(t, T)) - Cardinality({})
  <2> DEFINE a == Where(t, S)
             b == Where(t, T)
  <2>1. IsFiniteSet(a) /\ IsFiniteSet(b) /\ a \cap b = {}
    BY <1>1, <1>2
  <2> HIDE DEF a, b
  <2>2. Cardinality(a \cup b) = Cardinality(a) + Cardinality(b) - Cardinality(a \cap b)
    BY <2>1, FS_Union
  <2>. QED  BY <2>1, <2>2 DEF a, b
<1>4. /\ Num(t, S \cup T) = Cardinality(Where(t, S \cup T)) /\ Num(t, S) = Cardinality(Where(t, S))
      /\ Num(t, T) = Cardinality(Where(t, T)) /\ Num(t, S) \in Nat /\ Num(t, T) \in Nat
  BY NumIs
<1>5. Cardinality({}) = 0
  BY FS_EmptySet
<1>6. Num(t, S \cup T) = Cardinality(Where(t, S) \cup Where(t, T))
  BY <1>1, <1>4
<1>. QED  BY <1>3, <1>4, <1>5, <1>6

\* Every operation is of one of these kinds.
LEMMA NumSplits ==
  ASSUME NEW t \in Seq(Kind)
  PROVE  /\ Len(t) = Num(t, Low) + Num(t, {"receipt"}) + Num(t, Terminal)
         /\ Num(t, Terminal) = Num(t, {"closing"}) + Num(t, {"end_cut"}) + Num(t, {"closed"})
         /\ Num(t, Low) \in Nat /\ Num(t, {"receipt"}) \in Nat /\ Num(t, Terminal) \in Nat
         /\ Num(t, {"closing"}) \in Nat /\ Num(t, {"end_cut"}) \in Nat /\ Num(t, {"closed"}) \in Nat
<1>1. Num(t, Terminal) = Num(t, {"closing"}) + Num(t, {"end_cut"}) + Num(t, {"closed"})
  <2>1. Terminal = ({"closing"} \cup {"end_cut"}) \cup {"closed"}
    BY DEF Terminal
  <2>2. Num(t, ({"closing"} \cup {"end_cut"}) \cup {"closed"})
          = Num(t, {"closing"} \cup {"end_cut"}) + Num(t, {"closed"})
    BY NumUnion
  <2>3. Num(t, {"closing"} \cup {"end_cut"}) = Num(t, {"closing"}) + Num(t, {"end_cut"})
    BY NumUnion
  <2>. QED  BY <2>1, <2>2, <2>3
<1>2. Len(t) = Num(t, Kind)
  <2>1. Where(t, Kind) = 1 .. Len(t)
    BY DEF Where
  <2>2. Len(t) \in Nat /\ Cardinality(1 .. Len(t)) = Len(t)
    <3>1. Len(t) \in Nat /\ 1 \in Int /\ Len(t) \in Int
      OBVIOUS
    <3>2. Cardinality(1 .. Len(t)) = IF 1 > Len(t) THEN 0 ELSE Len(t) - 1 + 1
      BY <3>1, FS_Interval
    <3>. QED  BY <3>1, <3>2
  <2>. QED  BY <2>1, <2>2, NumIs
<1>3. Num(t, Kind) = Num(t, Low) + Num(t, {"receipt"}) + Num(t, Terminal)
  <2>0. \A k : k \in Kind <=> k \in (Low \cup {"receipt"}) \cup Terminal
    BY DEF Kind, Low, Terminal
  <2>1. Kind = (Low \cup {"receipt"}) \cup Terminal /\ (Low \cup {"receipt"}) \cap Terminal = {}
        /\ Low \cap {"receipt"} = {}
    BY <2>0 DEF Low, Terminal
  <2>2. Num(t, (Low \cup {"receipt"}) \cup Terminal) =
          Num(t, Low \cup {"receipt"}) + Num(t, Terminal)
    <3> DEFINE low == Low \cup {"receipt"}
    <3>1. low \cap Terminal = {} /\ t \in Seq(Kind)
      BY <2>1
    <3> HIDE DEF low
    <3>2. Num(t, low \cup Terminal) = Num(t, low) + Num(t, Terminal)
      BY ONLY <3>1, NumUnion
    <3>. QED  BY <3>2 DEF low
  <2>3. Num(t, Low \cup {"receipt"}) = Num(t, Low) + Num(t, {"receipt"})
    BY <2>1, NumUnion
  <2>. QED  BY <2>1, <2>2, <2>3
<1>. QED  BY <1>1, <1>2, <1>3, NumIs

LEMMA NumOne ==
  ASSUME NEW t \in Seq(Kind), NEW k
  PROVE  Num(t, {k}) = 0 <=> ~Contains(t, k)
<1>1. Where(t, {k}) = {} <=> ~Contains(t, k)
  BY DEF Where, Contains
<1>. QED  BY <1>1, NumIs, FS_EmptySet

LEMMA AppendContains ==
  ASSUME NEW S, NEW t \in Seq(S), NEW e \in S, NEW k
  PROVE  Contains(Append(t, e), k) <=> Contains(t, k) \/ k = e
<1>1. /\ Len(Append(t, e)) = Len(t) + 1 /\ Len(t) \in Nat
      /\ \A i \in 1 .. Len(t) : Append(t, e)[i] = t[i]
      /\ Append(t, e)[Len(t) + 1] = e
  BY AppendProperties
<1>2. 1 .. Len(t) + 1 = 1 .. Len(t) \cup {Len(t) + 1}
  BY <1>1
<1>. QED  BY <1>1, <1>2 DEF Contains

LEMMA TailContains ==
  ASSUME NEW t \in Seq(Kind), t # <<>>, NEW k, k # Head(t), Contains(t, k)
  PROVE  Contains(Tail(t), k)
<1>1. /\ Len(Tail(t)) = Len(t) - 1 /\ Len(t) \in Nat /\ Head(t) = t[1]
      /\ \A i \in 1 .. Len(Tail(t)) : Tail(t)[i] = t[i + 1]
  BY HeadTailProperties
<1>2. PICK i \in 1 .. Len(t) : t[i] = k
  BY DEF Contains
<1>3. i # 1
  BY <1>1, <1>2
<1>4. i - 1 \in 1 .. Len(Tail(t)) /\ (i - 1) + 1 = i
  BY <1>1, <1>3
<1>. QED  BY <1>1, <1>2, <1>4 DEF Contains

-----------------------------------------------------------------------------
(***************************************************************************)
(* What handlers emit.                                                     *)
(***************************************************************************)
QState == [tail : Seq(Kind), failed : BOOLEAN, refused : SUBSET Kind, end : EndStage]
Fine(q) == q \in QState /\ Places(q, records)

\* r is what becomes of q when events are admitted: a tail that begins as it did.
Grew(q, r) ==
  /\ q.failed => r.failed
  /\ r.end = q.end \/ r.end = "closing"
  /\ q.tail # <<>> => r.tail # <<>> /\ Head(r.tail) = Head(q.tail)
  /\ Contains(q.tail, "session_closed") => Contains(r.tail, "session_closed")

SameReceipt(q, r) ==
  /\ Num(r.tail, {"receipt"}) = Num(q.tail, {"receipt"})
  /\ "receipt" \in r.refused <=> "receipt" \in q.refused

LEMMA LimitsAreOrdered ==
  ASSUME EventsAssumption, NEW k \in Kind
  PROVE  /\ NormalLimit \in Nat /\ PriorityLimit \in Nat /\ NormalLimit < PriorityLimit
         /\ WithdrawalLimit = PriorityLimit + 1 /\ TerminalLimit = PriorityLimit + 4
         /\ k \in Low => LimitOf(k) \in Nat /\ LimitOf(k) <= PriorityLimit
         /\ LimitOf("event") = NormalLimit
         /\ k = "receipt" => LimitOf(k) = WithdrawalLimit
         /\ k \in Terminal => LimitOf(k) = TerminalLimit
BY DEF EventsAssumption, PriorityLimit, WithdrawalLimit, TerminalLimit, LimitOf, Low, Terminal, Kind

LEMMA AdmitGrows ==
  ASSUME NEW q \in QState, NEW k \in Kind
  PROVE  /\ Admit(q, k) \in QState /\ Grew(q, Admit(q, k)) /\ Admit(q, k).end = q.end
         /\ k # "receipt" => SameReceipt(q, Admit(q, k))
         /\ Fits(q, k) => Admit(q, k).tail = Append(q.tail, k) /\ Admit(q, k).refused = q.refused
                          /\ Admit(q, k).failed = q.failed
         /\ ~Fits(q, k) => Admit(q, k).failed /\ Admit(q, k).tail = q.tail
                           /\ Admit(q, k).refused = q.refused \cup {k}
<1>1. CASE Fits(q, k)
  <2> DEFINE r == [q EXCEPT !.tail = Append(@, k)]
  <2>1. Admit(q, k) = r
    BY <1>1 DEF Admit
  <2>2. q.tail \in Seq(Kind) /\ Append(q.tail, k) \in Seq(Kind)
    BY AppendProperties DEF QState
  <2>3. /\ r \in QState /\ r.tail = Append(q.tail, k) /\ r.refused = q.refused
        /\ r.failed = q.failed
        /\ r.end = q.end
    BY <2>2 DEF QState
  <2>4. Append(q.tail, k) # <<>>
    BY <2>2, AppendProperties
  <2>5. q.tail # <<>> => Head(Append(q.tail, k)) = Head(q.tail)
    BY <2>2, AppendProperties, HeadTailProperties, EmptySeq
  <2>6. Contains(q.tail, "session_closed") => Contains(Append(q.tail, k), "session_closed")
    BY <2>2, AppendContains
  <2>7. Num(Append(q.tail, k), {"receipt"})
          = Num(q.tail, {"receipt"}) + (IF k \in {"receipt"} THEN 1 ELSE 0)
    BY <2>2, NumAppend
  <2>8. Num(q.tail, {"receipt"}) \in Nat
    BY <2>2, NumIs
  <2>9. k # "receipt" => Num(Append(q.tail, k), {"receipt"}) = Num(q.tail, {"receipt"})
    BY <2>7, <2>8
  <2> HIDE DEF r
  <2>. QED  BY <1>1, <2>1, <2>3, <2>4, <2>5, <2>6, <2>9 DEF Grew, SameReceipt
<1>2. CASE ~Fits(q, k)
  <2> DEFINE r == [q EXCEPT !.refused = @ \cup {k}, !.failed = TRUE]
  <2>1. Admit(q, k) = r
    BY <1>2 DEF Admit
  <2>3. /\ r \in QState /\ r.tail = q.tail /\ r.refused = q.refused \cup {k} /\ r.failed = TRUE
        /\ r.end = q.end
    BY DEF QState
  <2> HIDE DEF r
  <2>. QED  BY <1>2, <2>1, <2>3 DEF Grew, SameReceipt
<1>. QED  BY <1>1, <1>2

\* What is not terminal takes no place of what is.
LEMMA AdmitIsFine ==
  ASSUME EventsAssumption, records \in Nat, NEW q, Fine(q), NEW k \in Low \cup {"receipt"}
  PROVE  Fine(Admit(q, k))
<1>1. k \in Kind /\ k \notin Terminal /\ q \in QState /\ q.tail \in Seq(Kind)
  BY DEF Kind, Low, Terminal, Fine, QState
<1>2. CASE Fits(q, k)
  <2>1. /\ Admit(q, k).tail = Append(q.tail, k) /\ Admit(q, k).end = q.end
        /\ Admit(q, k).refused = q.refused /\ Admit(q, k) \in QState
    BY <1>1, <1>2, AdmitGrows
  <2>2. \A S : Num(Append(q.tail, k), S) = Num(q.tail, S) + (IF k \in S THEN 1 ELSE 0)
    BY <1>1, NumAppend
  <2>n. /\ Num(q.tail, Low) \in Nat /\ Num(q.tail, {"receipt"}) \in Nat
        /\ Num(q.tail, Terminal) \in Nat
        /\ Num(q.tail, {"closing"}) \in Nat /\ Num(q.tail, {"end_cut"}) \in Nat
        /\ Num(q.tail, {"closed"}) \in Nat
        /\ Len(q.tail) = Num(q.tail, Low) + Num(q.tail, {"receipt"}) + Num(q.tail, Terminal)
    BY <1>1, NumSplits
  <2>4. /\ Num(Append(q.tail, k), Terminal) = Num(q.tail, Terminal)
        /\ Num(Append(q.tail, k), {"closing"}) = Num(q.tail, {"closing"})
        /\ Num(Append(q.tail, k), {"end_cut"}) = Num(q.tail, {"end_cut"})
        /\ Num(Append(q.tail, k), {"closed"}) = Num(q.tail, {"closed"})
    <3>1. k \notin Terminal /\ k \notin {"closing"} /\ k \notin {"end_cut"} /\ k \notin {"closed"}
      BY <1>1 DEF Terminal
    <3>2. \A S : k \notin S => Num(Append(q.tail, k), S) = Num(q.tail, S) + 0
      BY <2>2
    <3>. QED  BY <3>1, <3>2, <2>n
  <2>3. \/ /\ k \in Low
           /\ Num(Append(q.tail, k), Low) = Num(q.tail, Low) + 1
           /\ Num(Append(q.tail, k), {"receipt"}) = Num(q.tail, {"receipt"}) + 0
        \/ /\ k = "receipt"
           /\ Num(Append(q.tail, k), Low) = Num(q.tail, Low) + 0
           /\ Num(Append(q.tail, k), {"receipt"}) = Num(q.tail, {"receipt"}) + 1
    <3>1. \/ k \in Low /\ k \notin {"receipt"}
          \/ k = "receipt" /\ k \notin Low /\ k \in {"receipt"}
      BY DEF Low
    <3>. QED  BY <3>1, <2>2
  <2>6. Len(q.tail) + records < LimitOf(k)
    BY <1>2 DEF Fits
  <2>7. Num(Append(q.tail, k), Low) + records <= PriorityLimit
        /\ Num(Append(q.tail, k), Low) + Num(Append(q.tail, k), {"receipt"}) + records
             <= WithdrawalLimit
    <3>1. /\ PriorityLimit \in Nat /\ WithdrawalLimit = PriorityLimit + 1
          /\ k \in Low => LimitOf(k) \in Nat /\ LimitOf(k) <= PriorityLimit
          /\ k = "receipt" => LimitOf(k) = WithdrawalLimit
      BY <1>1, LimitsAreOrdered
    <3>2. /\ Num(q.tail, Low) + records <= PriorityLimit
          /\ Num(q.tail, Low) + Num(q.tail, {"receipt"}) + records <= WithdrawalLimit
      BY DEF Fine, Places
    <3>3. CASE k \in Low /\ k # "receipt"
      <4>1. /\ Num(Append(q.tail, k), Low) = Num(q.tail, Low) + 1
            /\ Num(Append(q.tail, k), {"receipt"}) = Num(q.tail, {"receipt"})
        BY <2>3, <2>n, <3>3
      <4>2. Len(q.tail) + records < PriorityLimit
        BY <2>n, <2>6, <3>1, <3>3
      <4> DEFINE a == Num(q.tail, Low)
                 b == Num(q.tail, {"receipt"})
      <4>3. /\ a \in Nat /\ b \in Nat /\ records \in Nat
            /\ PriorityLimit \in Nat /\ WithdrawalLimit = PriorityLimit + 1
            /\ a + b + records < PriorityLimit
        BY <2>n, <3>1, <4>2
      <4> HIDE DEF a, b
      <4>4. a + 1 + records <= PriorityLimit /\ a + 1 + b + records <= WithdrawalLimit
        BY <4>3
      <4>. QED  BY <4>1, <4>4 DEF a, b
    <3>4. CASE k = "receipt"
      <4>1. /\ Num(Append(q.tail, k), Low) = Num(q.tail, Low)
            /\ Num(Append(q.tail, k), {"receipt"}) = Num(q.tail, {"receipt"}) + 1
        BY <2>3, <2>n, <3>4 DEF Low
      <4>2. Len(q.tail) + records < WithdrawalLimit
        BY <2>n, <2>6, <3>1, <3>4
      <4> DEFINE a == Num(q.tail, Low)
                 b == Num(q.tail, {"receipt"})
      <4>3. /\ a \in Nat /\ b \in Nat /\ records \in Nat
            /\ PriorityLimit \in Nat /\ WithdrawalLimit = PriorityLimit + 1
            /\ a + records <= PriorityLimit /\ a + b + records < WithdrawalLimit
        BY <2>n, <3>1, <3>2, <4>2
      <4> HIDE DEF a, b
      <4>4. a + records <= PriorityLimit /\ a + (b + 1) + records <= WithdrawalLimit
        BY <4>3
      <4>. QED  BY <4>1, <4>4 DEF a, b
    <3>. QED  BY <3>3, <3>4
  <2>. QED  BY <2>1, <2>4, <2>7 DEF Fine, Places
<1>3. CASE ~Fits(q, k)
  <2>1. /\ Admit(q, k).tail = q.tail /\ Admit(q, k).end = q.end
        /\ Admit(q, k).refused = q.refused \cup {k} /\ Admit(q, k) \in QState
    BY <1>1, <1>3, AdmitGrows
  <2>. QED  BY <1>1, <2>1 DEF Fine, Places
<1>. QED  BY <1>2, <1>3

LEMMA GrewTransitive ==
  ASSUME NEW q, NEW r, NEW s, Grew(q, r), Grew(r, s)
  PROVE  Grew(q, s)
BY DEF Grew

LEMMA SameReceiptTransitive ==
  ASSUME NEW q, NEW r, NEW s, SameReceipt(q, r), SameReceipt(r, s)
  PROVE  SameReceipt(q, s)
BY DEF SameReceipt

\* A terminal transition finds its place while fewer than three of them wait.
LEMMA TerminalFits ==
  ASSUME EventsAssumption, records \in Nat, NEW q \in QState, NEW k \in Terminal,
         Num(q.tail, Low) + Num(q.tail, {"receipt"}) + records <= WithdrawalLimit,
         Num(q.tail, Terminal) < 3
  PROVE  Fits(q, k)
<1>1. k \in Kind /\ q.tail \in Seq(Kind)
  BY DEF Kind, Terminal, QState
<1>2. LimitOf(k) = WithdrawalLimit + 3 /\ WithdrawalLimit \in Nat
  <2>1. /\ PriorityLimit \in Nat /\ WithdrawalLimit = PriorityLimit + 1
        /\ TerminalLimit = PriorityLimit + 4 /\ LimitOf(k) = TerminalLimit
    BY <1>1, LimitsAreOrdered
  <2>. QED  BY <2>1
<1>3. Len(q.tail) + records < WithdrawalLimit + 3
  <2>1. /\ Num(q.tail, Low) \in Nat /\ Num(q.tail, {"receipt"}) \in Nat
        /\ Num(q.tail, Terminal) \in Nat
        /\ Len(q.tail) = Num(q.tail, Low) + Num(q.tail, {"receipt"}) + Num(q.tail, Terminal)
    BY <1>1, NumSplits
  <2>. QED  BY <1>2, <2>1
<1>. QED  BY <1>2, <1>3 DEF Fits

LEMMA AdmitTerminal ==
  ASSUME EventsAssumption, records \in Nat, NEW q \in QState, NEW k \in Terminal,
         Num(q.tail, Low) + Num(q.tail, {"receipt"}) + records <= WithdrawalLimit,
         Num(q.tail, Terminal) < 3
  PROVE  /\ Admit(q, k) \in QState /\ Grew(q, Admit(q, k)) /\ SameReceipt(q, Admit(q, k))
         /\ Admit(q, k).end = q.end /\ Admit(q, k).failed = q.failed
         /\ Admit(q, k).refused = q.refused
         /\ Num(Admit(q, k).tail, Low) = Num(q.tail, Low)
         /\ Num(Admit(q, k).tail, {"receipt"}) = Num(q.tail, {"receipt"})
         /\ Num(Admit(q, k).tail, Terminal) = Num(q.tail, Terminal) + 1
         /\ Num(Admit(q, k).tail, {"closing"})
              = Num(q.tail, {"closing"}) + (IF k = "closing" THEN 1 ELSE 0)
         /\ Num(Admit(q, k).tail, {"end_cut"})
              = Num(q.tail, {"end_cut"}) + (IF k = "end_cut" THEN 1 ELSE 0)
         /\ Num(Admit(q, k).tail, {"closed"})
              = Num(q.tail, {"closed"}) + (IF k = "closed" THEN 1 ELSE 0)
<1>1. k \in Kind /\ k # "receipt" /\ k \notin Low /\ q.tail \in Seq(Kind)
  BY DEF Kind, Low, Terminal, QState
<1>2. Fits(q, k)
  BY TerminalFits
<1>3. /\ Admit(q, k) \in QState /\ Grew(q, Admit(q, k)) /\ SameReceipt(q, Admit(q, k))
      /\ Admit(q, k).end = q.end /\ Admit(q, k).failed = q.failed
      /\ Admit(q, k).refused = q.refused /\ Admit(q, k).tail = Append(q.tail, k)
  BY <1>1, <1>2, AdmitGrows
<1>4. \A S : Num(Append(q.tail, k), S) = Num(q.tail, S) + (IF k \in S THEN 1 ELSE 0)
  BY <1>1, NumAppend
<1>5. Num(q.tail, Low) \in Nat /\ Num(q.tail, {"receipt"}) \in Nat
  BY <1>1, NumSplits
<1>6. /\ Num(Append(q.tail, k), Low) = Num(q.tail, Low) + 0
      /\ Num(Append(q.tail, k), {"receipt"}) = Num(q.tail, {"receipt"}) + 0
      /\ Num(Append(q.tail, k), Terminal) = Num(q.tail, Terminal) + 1
  <2>1. k \notin {"receipt"}
    BY <1>1
  <2>. QED  BY <1>1, <1>4, <2>1
<1>7. /\ Num(Append(q.tail, k), {"closing"})
           = Num(q.tail, {"closing"}) + (IF k = "closing" THEN 1 ELSE 0)
      /\ Num(Append(q.tail, k), {"end_cut"})
           = Num(q.tail, {"end_cut"}) + (IF k = "end_cut" THEN 1 ELSE 0)
      /\ Num(Append(q.tail, k), {"closed"})
           = Num(q.tail, {"closed"}) + (IF k = "closed" THEN 1 ELSE 0)
  <2>1. /\ k \in {"closing"} <=> k = "closing"
        /\ k \in {"end_cut"} <=> k = "end_cut"
        /\ k \in {"closed"} <=> k = "closed"
    OBVIOUS
  <2>. QED  BY <1>4, <2>1
<1>8. Num(Append(q.tail, k), Low) = Num(q.tail, Low)
      /\ Num(Append(q.tail, k), {"receipt"}) = Num(q.tail, {"receipt"})
  BY <1>5, <1>6
<1>. QED  BY <1>3, <1>6, <1>7, <1>8

\* r is a fine state that q grows to without another receipt.
Grows(q, r) == Fine(r) /\ Grew(q, r) /\ SameReceipt(q, r)

LEMMA GrowsTransitive ==
  ASSUME NEW q, NEW r, NEW s, Grows(q, r), Grows(r, s)
  PROVE  Grows(q, s)
BY GrewTransitive, SameReceiptTransitive DEF Grows

LEMMA BeginEndGrows ==
  ASSUME EventsAssumption, records \in Nat, NEW q, Fine(q)
  PROVE  /\ Grows(q, BeginEnd(q)) /\ BeginEnd(q).end # "none" /\ BeginEnd(q).failed = q.failed
         /\ BeginEnd(q).refused = q.refused
<1>1. CASE q.end # "none"
  <2>1. BeginEnd(q) = q
    BY <1>1 DEF BeginEnd
  <2>. QED  BY <1>1, <2>1 DEF Grows, Grew, SameReceipt
<1>2. CASE q.end = "none"
  <2> DEFINE r == [q EXCEPT !.end = "closing"]
             c == IF r.failed THEN r ELSE Admit(r, "closing")
             d == Admit(c, "end_cut")
             e == Admit(d, "end_cut")
  <2>1. BeginEnd(q) = e
    BY <1>2 DEF BeginEnd
  <2>0. q \in QState /\ q.tail \in Seq(Kind) /\ "closing" \in Terminal /\ "end_cut" \in Terminal
    BY DEF Fine, QState, Terminal
  <2>2. /\ r \in QState /\ r.tail = q.tail /\ r.failed = q.failed /\ r.refused = q.refused
        /\ r.end = "closing"
    BY <2>0 DEF QState, EndStage
  <2>n. /\ Num(q.tail, Low) \in Nat /\ Num(q.tail, {"receipt"}) \in Nat
        /\ Num(q.tail, Terminal) \in Nat
        /\ Num(q.tail, {"closing"}) \in Nat /\ Num(q.tail, {"end_cut"}) \in Nat
        /\ Num(q.tail, {"closed"}) \in Nat
        /\ Num(q.tail, Terminal)
             = Num(q.tail, {"closing"}) + Num(q.tail, {"end_cut"}) + Num(q.tail, {"closed"})
    BY <2>0, NumSplits
  <2>3. /\ Num(r.tail, Low) + Num(r.tail, {"receipt"}) + records <= WithdrawalLimit
        /\ Num(r.tail, Low) + records <= PriorityLimit
        /\ Num(r.tail, Terminal) = 0 /\ Num(r.tail, {"closing"}) = 0
        /\ Num(r.tail, {"end_cut"}) = 0 /\ Num(r.tail, {"closed"}) = 0
        /\ r.refused \cap Terminal = {}
    BY <1>2, <2>2, <2>n DEF Fine, Places
  <2>4. Grew(q, r) /\ SameReceipt(q, r)
    BY <1>2, <2>2 DEF Grew, SameReceipt
  <2> HIDE DEF r
  <2>5. /\ c \in QState /\ Grew(q, c) /\ SameReceipt(q, c)
        /\ c.end = "closing" /\ c.failed = q.failed /\ c.refused = q.refused
        /\ Num(c.tail, Low) = Num(r.tail, Low)
        /\ Num(c.tail, {"receipt"}) = Num(r.tail, {"receipt"})
        /\ Num(c.tail, Terminal) <= 1 /\ Num(c.tail, {"closing"}) <= 1
        /\ Num(c.tail, {"end_cut"}) = 0 /\ Num(c.tail, {"closed"}) = 0
    <3>1. CASE r.failed
      <4>1. c = r
        BY <3>1
      <4>. QED  BY <2>2, <2>3, <2>4, <4>1
    <3>2. CASE ~r.failed
      <4>1. c = Admit(r, "closing")
        BY <3>2
      <4> HIDE DEF c
      <4>2. Num(r.tail, Terminal) < 3
        BY <2>3
      <4>3. /\ c \in QState /\ Grew(r, c) /\ SameReceipt(r, c)
            /\ c.end = r.end /\ c.failed = r.failed /\ c.refused = r.refused
            /\ Num(c.tail, Low) = Num(r.tail, Low)
            /\ Num(c.tail, {"receipt"}) = Num(r.tail, {"receipt"})
            /\ Num(c.tail, Terminal) = Num(r.tail, Terminal) + 1
            /\ Num(c.tail, {"closing"}) = Num(r.tail, {"closing"}) + 1
            /\ Num(c.tail, {"end_cut"}) = Num(r.tail, {"end_cut"}) + 0
            /\ Num(c.tail, {"closed"}) = Num(r.tail, {"closed"}) + 0
        BY <2>0, <2>2, <2>3, <4>1, <4>2, AdmitTerminal
      <4>4. Grew(q, c) /\ SameReceipt(q, c)
        BY <2>4, <4>3, GrewTransitive, SameReceiptTransitive
      <4>. QED  BY <2>2, <2>3, <4>3, <4>4
    <3>. QED  BY <3>1, <3>2
  <2> HIDE DEF c
  <2>6. /\ d \in QState /\ Grew(c, d) /\ SameReceipt(c, d)
        /\ d.end = "closing" /\ d.failed = q.failed /\ d.refused = q.refused
        /\ Num(d.tail, Low) = Num(r.tail, Low)
        /\ Num(d.tail, {"receipt"}) = Num(r.tail, {"receipt"})
        /\ Num(d.tail, Terminal) <= 2 /\ Num(d.tail, {"closing"}) <= 1
        /\ Num(d.tail, {"end_cut"}) = 1 /\ Num(d.tail, {"closed"}) = 0
    <3>0. c.tail \in Seq(Kind)
      BY <2>5 DEF QState
    <3>1. Num(c.tail, Terminal) \in Nat /\ Num(c.tail, {"closing"}) \in Nat
      BY <3>0, NumSplits
    <3>2. Num(c.tail, Terminal) < 3
          /\ Num(c.tail, Low) + Num(c.tail, {"receipt"}) + records <= WithdrawalLimit
      BY <2>3, <2>5, <3>1
    <3>3. /\ d \in QState /\ Grew(c, d) /\ SameReceipt(c, d)
          /\ d.end = c.end /\ d.failed = c.failed /\ d.refused = c.refused
          /\ Num(d.tail, Low) = Num(c.tail, Low)
          /\ Num(d.tail, {"receipt"}) = Num(c.tail, {"receipt"})
          /\ Num(d.tail, Terminal) = Num(c.tail, Terminal) + 1
          /\ Num(d.tail, {"closing"}) = Num(c.tail, {"closing"}) + 0
          /\ Num(d.tail, {"end_cut"}) = Num(c.tail, {"end_cut"}) + 1
          /\ Num(d.tail, {"closed"}) = Num(c.tail, {"closed"}) + 0
      BY <2>0, <2>5, <3>2, AdmitTerminal
    <3> HIDE DEF d
    <3>. QED  BY <2>5, <3>1, <3>3
  <2> HIDE DEF d
  <2>7. /\ e \in QState /\ Grew(d, e) /\ SameReceipt(d, e)
        /\ e.end = "closing" /\ e.failed = q.failed /\ e.refused = q.refused
        /\ Num(e.tail, Low) = Num(r.tail, Low)
        /\ Num(e.tail, {"receipt"}) = Num(r.tail, {"receipt"})
        /\ Num(e.tail, Terminal) <= 3 /\ Num(e.tail, {"closing"}) <= 1
        /\ Num(e.tail, {"end_cut"}) = 2 /\ Num(e.tail, {"closed"}) = 0
    <3>0. d.tail \in Seq(Kind)
      BY <2>6 DEF QState
    <3>1. Num(d.tail, Terminal) \in Nat /\ Num(d.tail, {"closing"}) \in Nat
      BY <3>0, NumSplits
    <3>2. Num(d.tail, Terminal) < 3
          /\ Num(d.tail, Low) + Num(d.tail, {"receipt"}) + records <= WithdrawalLimit
      BY <2>3, <2>6, <3>1
    <3>3. /\ e \in QState /\ Grew(d, e) /\ SameReceipt(d, e)
          /\ e.end = d.end /\ e.failed = d.failed /\ e.refused = d.refused
          /\ Num(e.tail, Low) = Num(d.tail, Low)
          /\ Num(e.tail, {"receipt"}) = Num(d.tail, {"receipt"})
          /\ Num(e.tail, Terminal) = Num(d.tail, Terminal) + 1
          /\ Num(e.tail, {"closing"}) = Num(d.tail, {"closing"}) + 0
          /\ Num(e.tail, {"end_cut"}) = Num(d.tail, {"end_cut"}) + 1
          /\ Num(e.tail, {"closed"}) = Num(d.tail, {"closed"}) + 0
      BY <2>0, <2>6, <3>2, AdmitTerminal
    <3> HIDE DEF e
    <3>. QED  BY <2>6, <3>1, <3>3
  <2> HIDE DEF e
  <2>8. Fine(e)
    BY <2>3, <2>7 DEF Fine, Places
  <2>9. Grew(q, e) /\ SameReceipt(q, e)
    <3>1. Grew(q, d) /\ SameReceipt(q, d)
      BY <2>5, <2>6, GrewTransitive, SameReceiptTransitive
    <3>. QED  BY <2>7, <3>1, GrewTransitive, SameReceiptTransitive
  <2>. QED  BY <2>1, <2>7, <2>8, <2>9 DEF Grows
<1>. QED  BY <1>1, <1>2

LEMMA EmitGrows ==
  ASSUME EventsAssumption, records \in Nat, NEW q, Fine(q), NEW k \in Low \cup {"receipt"}
  PROVE  /\ Fine(Emit(q, k)) /\ Grew(q, Emit(q, k))
         /\ k # "receipt" => Grows(q, Emit(q, k))
         /\ Fits(q, k) => Emit(q, k).refused = q.refused
<1> DEFINE r == Admit(q, k)
<1>1. k \in Kind /\ q \in QState
  BY DEF Kind, Low, Fine
<1>2. Fine(r)
  BY AdmitIsFine
<1>3. Grew(q, r) /\ (k # "receipt" => SameReceipt(q, r)) /\ (Fits(q, k) => r.refused = q.refused)
  BY <1>1, AdmitGrows
<1>4. Emit(q, k) = IF r.failed THEN BeginEnd(r) ELSE r
  BY DEF Emit
<1> HIDE DEF r
<1>5. Grows(r, BeginEnd(r)) /\ BeginEnd(r).refused = r.refused
  BY <1>2, BeginEndGrows
<1>6. Fine(BeginEnd(r)) /\ Grew(q, BeginEnd(r)) /\ (k # "receipt" => SameReceipt(q, BeginEnd(r)))
  BY <1>3, <1>5, GrewTransitive, SameReceiptTransitive DEF Grows
<1>7. CASE r.failed
  BY <1>3, <1>4, <1>5, <1>6, <1>7 DEF Grows
<1>8. CASE ~r.failed
  BY <1>2, <1>3, <1>4, <1>8 DEF Grows
<1>. QED  BY <1>7, <1>8

LEMMA FailGrows ==
  ASSUME EventsAssumption, records \in Nat, NEW q, Fine(q)
  PROVE  Grows(q, Fail(q)) /\ Fail(q).failed
<1> DEFINE r == [q EXCEPT !.failed = TRUE]
<1>1. q \in QState
  BY DEF Fine
<1>2. /\ r \in QState /\ r.tail = q.tail /\ r.failed = TRUE /\ r.refused = q.refused
      /\ r.end = q.end
  BY <1>1 DEF QState
<1>3. Fail(q) = BeginEnd(r)
  BY DEF Fail
<1> HIDE DEF r
<1>4. Fine(r) /\ Grew(q, r) /\ SameReceipt(q, r)
  BY <1>2 DEF Fine, Places, Grew, SameReceipt
<1>5. Grows(r, BeginEnd(r)) /\ BeginEnd(r).failed = r.failed
  BY <1>4, BeginEndGrows
<1>. QED  BY <1>2, <1>3, <1>4, <1>5, GrowsTransitive DEF Grows

-----------------------------------------------------------------------------
(***************************************************************************)
(* What is published.                                                      *)
(***************************************************************************)
LEMMA AppendIs ==
  ASSUME NEW S, NEW p \in Seq(S), NEW e \in S
  PROVE  /\ Len(p) \in Nat /\ DOMAIN p = 1 .. Len(p)
         /\ Append(p, e) \in Seq(S) /\ Len(Append(p, e)) = Len(p) + 1
         /\ DOMAIN Append(p, e) = DOMAIN p \cup {Len(p) + 1}
         /\ \A i \in DOMAIN p : Append(p, e)[i] = p[i] /\ i < Len(p) + 1
         /\ Append(p, e)[Len(p) + 1] = e
<1>1. /\ Len(p) \in Nat /\ DOMAIN p = 1 .. Len(p)
      /\ Append(p, e) \in Seq(S) /\ Len(Append(p, e)) = Len(p) + 1
      /\ \A i \in 1 .. Len(p) : Append(p, e)[i] = p[i]
      /\ Append(p, e)[Len(p) + 1] = e
  BY AppendProperties
<1>2. DOMAIN Append(p, e) = 1 .. Len(p) + 1
  BY <1>1
<1>3. 1 .. Len(p) + 1 = 1 .. Len(p) \cup {Len(p) + 1}
  BY <1>1
<1>. QED  BY <1>1, <1>2, <1>3

LEMMA EndedAppend ==
  ASSUME NEW p \in Seq(Event), NEW e \in Event, NEW c
  PROVE  /\ Ended(p, c) => Ended(Append(p, e), c)
         /\ e.kind \in EndKind /\ e.cursor <= c => Ended(Append(p, e), c)
BY AppendIs DEF Ended

\* The alert of a failure.
LEMMA LogFails ==
  ASSUME NEW p \in Seq(Event), NEW d \in Seq(Event), NEW e \in Event,
         LogInv(p, d, FALSE), e.kind = "failure"
  PROVE  LogInv(Append(p, e), d, TRUE)
<1>1. /\ Len(p) \in Nat /\ DOMAIN p = 1 .. Len(p)
      /\ DOMAIN Append(p, e) = DOMAIN p \cup {Len(p) + 1}
      /\ \A i \in DOMAIN p : Append(p, e)[i] = p[i] /\ i < Len(p) + 1
      /\ Append(p, e)[Len(p) + 1] = e
  BY AppendIs
<1>2. \A i \in DOMAIN p : p[i].kind # "failure"
  BY DEF LogInv
<1>3. \A i, j \in DOMAIN Append(p, e) : ~(i < j /\ Append(p, e)[i].kind = "failure")
  BY <1>1, <1>2
<1>4. \E i \in DOMAIN Append(p, e) : Append(p, e)[i].kind = "failure"
  BY <1>1
<1>5. \A i \in DOMAIN Append(p, e) :
      Append(p, e)[i].kind \in EndKind \/ Contains(d, Append(p, e)[i])
  BY <1>1 DEF LogInv, EndKind
<1>. QED  BY <1>3, <1>4, <1>5 DEF LogInv

\* The last event of a session.
LEMMA LogEnds ==
  ASSUME NEW p \in Seq(Event), NEW d \in Seq(Event), NEW e \in Event, NEW f,
         LogInv(p, d, f), e.kind = "session_closed"
  PROVE  LogInv(Append(p, e), d, f)
<1>1. /\ Len(p) \in Nat /\ DOMAIN p = 1 .. Len(p)
      /\ DOMAIN Append(p, e) = DOMAIN p \cup {Len(p) + 1}
      /\ \A i \in DOMAIN p : Append(p, e)[i] = p[i] /\ i < Len(p) + 1
      /\ Append(p, e)[Len(p) + 1] = e
  BY AppendIs
<1>2. (\E i \in DOMAIN Append(p, e) : Append(p, e)[i].kind = "failure")
        <=> \E i \in DOMAIN p : p[i].kind = "failure"
  BY <1>1
<1>3. \A i, j \in DOMAIN Append(p, e) :
        i < j /\ Append(p, e)[i].kind = "failure" => Append(p, e)[j].kind = "session_closed"
  <2> SUFFICES ASSUME NEW i \in DOMAIN Append(p, e), NEW j \in DOMAIN Append(p, e),
                      i < j, Append(p, e)[i].kind = "failure"
               PROVE  Append(p, e)[j].kind = "session_closed"
    OBVIOUS
  <2>1. i \in DOMAIN p
    BY <1>1
  <2>. QED  BY <1>1, <2>1 DEF LogInv
<1>4. \A i \in DOMAIN Append(p, e) :
      Append(p, e)[i].kind \in EndKind \/ Contains(d, Append(p, e)[i])
  BY <1>1 DEF LogInv, EndKind
<1>5. ~f => \A i \in DOMAIN d : Contains(Append(p, e), d[i])
  <2>1. \A x : Contains(p, x) => Contains(Append(p, e), x)
    BY AppendContains
  <2>. QED  BY <2>1 DEF LogInv
<1>6. f <=> \E i \in DOMAIN p : p[i].kind = "failure"
  BY DEF LogInv
<1>. QED  BY <1>2, <1>3, <1>4, <1>5, <1>6 DEF LogInv

\* An event that the store has.
LEMMA LogStores ==
  ASSUME NEW p \in Seq(Event), NEW d \in Seq(Event), NEW e \in Event,
         LogInv(p, d, FALSE), e.kind # "failure"
  PROVE  LogInv(Append(p, e), Append(d, e), FALSE)
<1>1. /\ Len(p) \in Nat /\ DOMAIN p = 1 .. Len(p)
      /\ DOMAIN Append(p, e) = DOMAIN p \cup {Len(p) + 1}
      /\ \A i \in DOMAIN p : Append(p, e)[i] = p[i]
      /\ Append(p, e)[Len(p) + 1] = e
  BY AppendIs
<1>2. /\ DOMAIN Append(d, e) = DOMAIN d \cup {Len(d) + 1}
      /\ \A i \in DOMAIN d : Append(d, e)[i] = d[i]
      /\ Append(d, e)[Len(d) + 1] = e
  BY AppendIs
<1>3. \A i \in DOMAIN Append(p, e) : Append(p, e)[i].kind # "failure"
  BY <1>1 DEF LogInv
<1>4. \A x : Contains(d, x) \/ x = e => Contains(Append(d, e), x)
  BY AppendContains
<1>5. \A x : Contains(p, x) \/ x = e => Contains(Append(p, e), x)
  BY AppendContains
<1>6. \A i \in DOMAIN Append(p, e) :
        Append(p, e)[i].kind \in EndKind \/ Contains(Append(d, e), Append(p, e)[i])
  BY <1>1, <1>4 DEF LogInv
<1>7. \A i \in DOMAIN Append(d, e) : Contains(Append(p, e), Append(d, e)[i])
  BY <1>2, <1>5 DEF LogInv
<1>. QED  BY <1>3, <1>6, <1>7 DEF LogInv

\* The store may have what is not published when the evidence failed.
LEMMA LogLags ==
  ASSUME NEW p \in Seq(Event), NEW d \in Seq(Event), NEW e \in Event, LogInv(p, d, TRUE)
  PROVE  LogInv(p, Append(d, e), TRUE)
<1>1. \A x : Contains(d, x) => Contains(Append(d, e), x)
  BY AppendContains
<1>. QED  BY <1>1 DEF LogInv

-----------------------------------------------------------------------------
(***************************************************************************)
(* What the subscribers get of it.                                         *)
(***************************************************************************)
\* A subscriber as TypeOK has it.
Bounded(sub) == sub \in Sub /\ Len(sub.queue) <= HistoryLimit

LEMMA OfferedOK ==
  ASSUME EventsAssumption, NEW sub, Bounded(sub), NEW c \in Nat, NEW p \in Seq(Event),
         NEW e \in Event, SubOK(sub, c, p)
  PROVE  Bounded(Offered(sub, c + 1)) /\ SubOK(Offered(sub, c + 1), c + 1, Append(p, e))
<1>0. /\ sub \in Sub /\ sub.queue \in Seq(Nat) /\ Len(sub.queue) \in Nat
      /\ sub.last \in Nat /\ sub.got \in Nat /\ sub.state \in SubState
      /\ sub.waiting \in BOOLEAN /\ sub.late \in BOOLEAN /\ HistoryLimit \in Nat
  BY DEF Bounded, Sub, EventsAssumption
<1>e. \A n : Ended(p, n) => Ended(Append(p, e), n)
  BY EndedAppend
<1>1. CASE sub.state # "live"
  <2>1. Offered(sub, c + 1) = sub
    BY <1>1 DEF Offered
  <2>. QED  BY <1>0, <1>1, <1>e, <2>1 DEF SubOK
<1>2. CASE sub.state = "live" /\ sub.waiting
  <2> DEFINE g == Given(sub, c + 1)
             r == [g EXCEPT !.waiting = FALSE]
  <2>1. Offered(sub, c + 1) = r
    BY <1>2 DEF Offered
  <2>2. /\ r \in Sub /\ r.state = "live" /\ r.queue = sub.queue /\ r.last = c + 1
        /\ r.got = sub.got + 1 /\ r.waiting = FALSE /\ r.late = sub.late
    <3>1. c + 1 \in Nat /\ sub.got + 1 \in Nat
      BY <1>0
    <3>2. /\ g \in Sub /\ g.state = sub.state /\ g.queue = sub.queue /\ g.last = c + 1
          /\ g.got = sub.got + 1 /\ g.late = sub.late
      BY <1>0, <3>1 DEF Given, Sub
    <3> HIDE DEF g
    <3>3. /\ r \in Sub /\ r.state = g.state /\ r.queue = g.queue /\ r.last = g.last
          /\ r.got = g.got /\ r.waiting = FALSE /\ r.late = g.late
      BY <3>2 DEF Sub
    <3> HIDE DEF r
    <3>. QED  BY <1>2, <3>2, <3>3
  <2>3. sub.queue = <<>> /\ sub.last = c /\ sub.got = c /\ Len(sub.queue) = 0
    BY <1>0, <1>2 DEF SubOK
  <2> HIDE DEF r
  <2>. QED  BY <1>0, <2>1, <2>2, <2>3 DEF SubOK, Bounded
<1>3. CASE sub.state = "live" /\ ~sub.waiting /\ Len(sub.queue) < HistoryLimit
  <2> DEFINE r == [sub EXCEPT !.queue = Append(@, c + 1)]
             q == Append(sub.queue, c + 1)
  <2>1. Offered(sub, c + 1) = r
    BY <1>3 DEF Offered
  <2>2. /\ q \in Seq(Nat) /\ Len(q) = Len(sub.queue) + 1
        /\ DOMAIN q = DOMAIN sub.queue \cup {Len(sub.queue) + 1}
        /\ \A i \in DOMAIN sub.queue : q[i] = sub.queue[i]
        /\ q[Len(sub.queue) + 1] = c + 1
    <3> DEFINE w == sub.queue
               n == c + 1
    <3>1. n \in Nat /\ w \in Seq(Nat)
      BY <1>0
    <3> HIDE DEF w, n
    <3>2. /\ Append(w, n) \in Seq(Nat) /\ Len(Append(w, n)) = Len(w) + 1
          /\ DOMAIN Append(w, n) = DOMAIN w \cup {Len(w) + 1}
          /\ \A i \in DOMAIN w : Append(w, n)[i] = w[i] /\ i < Len(w) + 1
          /\ Append(w, n)[Len(w) + 1] = n
      BY <3>1, AppendIs
    <3>. QED  BY <3>2 DEF w, n
  <2>3. /\ r \in Sub /\ r.state = "live" /\ r.queue = q /\ r.last = sub.last
        /\ r.got = sub.got /\ r.waiting = sub.waiting /\ r.late = sub.late
    BY <1>0, <1>3, <2>2 DEF Sub
  <2>4. sub.last + Len(sub.queue) = c /\ sub.got = sub.last
    BY <1>3 DEF SubOK
  <2> HIDE DEF r, q
  <2>5. \A i \in DOMAIN q : q[i] = sub.last + i
    <3>1. sub.last + (Len(sub.queue) + 1) = c + 1
      <4> DEFINE n == Len(sub.queue)
      <4>1. n \in Nat /\ sub.last \in Nat /\ sub.last + n = c
        BY <1>0, <2>4
      <4> HIDE DEF n
      <4>2. sub.last + (n + 1) = c + 1
        BY <4>1
      <4>. QED  BY <4>2 DEF n
    <3>2. \A i \in DOMAIN sub.queue : sub.queue[i] = sub.last + i
      BY DEF SubOK
    <3> SUFFICES ASSUME NEW i \in DOMAIN q PROVE q[i] = sub.last + i
      OBVIOUS
    <3>3. CASE i \in DOMAIN sub.queue
      BY <2>2, <3>2, <3>3
    <3>4. CASE i = Len(sub.queue) + 1
      BY <2>2, <3>1, <3>4
    <3>. QED  BY <2>2, <3>3, <3>4
  <2>6. sub.last + Len(q) = c + 1 /\ Len(q) <= HistoryLimit
    <3>1. Len(q) = Len(sub.queue) + 1 /\ Len(sub.queue) < HistoryLimit
      BY <1>3, <2>2
    <3> DEFINE n == Len(sub.queue)
               m == Len(q)
    <3>2. m = n + 1 /\ n < HistoryLimit /\ n \in Nat /\ HistoryLimit \in Nat
          /\ sub.last \in Nat /\ sub.last + n = c
      BY <1>0, <2>4, <3>1
    <3> HIDE DEF n, m
    <3>3. sub.last + m = c + 1 /\ m <= HistoryLimit
      BY <3>2
    <3>. QED  BY <3>3 DEF m
  <2>. QED  BY <1>0, <1>3, <2>1, <2>3, <2>4, <2>5, <2>6 DEF SubOK, Bounded
<1>4. CASE sub.state = "live" /\ ~sub.waiting /\ ~(Len(sub.queue) < HistoryLimit)
  <2> DEFINE r == [sub EXCEPT !.state = "overflow", !.queue = <<>>]
  <2>1. Offered(sub, c + 1) = r
    BY <1>4 DEF Offered
  <2>2. /\ r \in Sub /\ r.state = "overflow" /\ r.queue = <<>> /\ r.last = sub.last
        /\ r.got = sub.got /\ r.waiting = sub.waiting /\ r.late = sub.late
    <3>1. <<>> \in Seq(Nat) /\ "overflow" \in SubState
      BY DEF SubState
    <3>. QED  BY <1>0, <3>1 DEF Sub
  <2>3. sub.last <= c /\ sub.got = sub.last
    BY <1>0 DEF SubOK
  <2>4. Len(<<>>) = 0 /\ DOMAIN <<>> = {}
    OBVIOUS
  <2> HIDE DEF r
  <2>. QED  BY <1>0, <1>4, <2>1, <2>2, <2>3, <2>4 DEF SubOK, Bounded
<1>. QED  BY <1>1, <1>2, <1>3, <1>4

LEMMA ClosedOK ==
  ASSUME NEW sub, Bounded(sub), NEW c \in Nat, NEW p \in Seq(Event), SubOK(sub, c, p), Ended(p, c)
  PROVE  Bounded(Closed(sub)) /\ SubOK(Closed(sub), c, p)
<1>0. sub \in Sub /\ sub.queue \in Seq(Nat) /\ sub.last \in Nat /\ Len(sub.queue) \in Nat
      /\ sub.waiting \in BOOLEAN
  BY DEF Bounded, Sub
<1>1. CASE sub.state # "live"
  <2>1. Closed(sub) = sub
    BY <1>1 DEF Closed
  <2>. QED  BY <2>1
<1>2. CASE sub.state = "live" /\ sub.waiting
  <2> DEFINE r == [sub EXCEPT !.waiting = FALSE, !.state = "done"]
  <2>1. Closed(sub) = r
    BY <1>2 DEF Closed
  <2>2. /\ r \in Sub /\ r.state = "done" /\ r.queue = sub.queue /\ r.last = sub.last
        /\ r.got = sub.got /\ r.waiting = FALSE /\ r.late = sub.late
    BY <1>0, <1>2 DEF Sub, SubState
  <2> HIDE DEF r
  <2>. QED  BY <1>2, <2>1, <2>2 DEF SubOK, Bounded
<1>3. CASE sub.state = "live" /\ ~sub.waiting
  <2> DEFINE r == [sub EXCEPT !.state = "draining"]
  <2>1. Closed(sub) = r
    BY <1>3 DEF Closed
  <2>2. /\ r \in Sub /\ r.state = "draining" /\ r.queue = sub.queue /\ r.last = sub.last
        /\ r.got = sub.got /\ r.waiting = sub.waiting /\ r.late = sub.late
    BY <1>0, <1>3 DEF Sub, SubState
  <2> HIDE DEF r
  <2>. QED  BY <1>3, <2>1, <2>2 DEF SubOK, Bounded
<1>. QED  BY <1>1, <1>2, <1>3

\* The cursor, the events and the subscribers as TypeOK has them.
StreamTyped ==
  /\ cursor \in Nat /\ published \in Seq(Event)
  /\ subs \in [Subscriber -> Sub] /\ \A s \in Subscriber : Len(subs[s].queue) <= HistoryLimit

LEMMA PublishOK ==
  ASSUME EventsAssumption, StreamTyped, CursorInv, SubsInv, NEW k \in Kind \cup {"failure"},
         Publish(k, cursor + 1)
  PROVE  /\ StreamTyped' /\ CursorInv' /\ SubsInv'
         /\ [kind |-> k, cursor |-> cursor + 1] \in Event
         /\ published' = Append(published, [kind |-> k, cursor |-> cursor + 1])
<1> DEFINE e == [kind |-> k, cursor |-> cursor + 1]
<1>1. /\ cursor \in Nat /\ published \in Seq(Event) /\ e \in Event /\ e.cursor = cursor + 1
      /\ cursor' = cursor + 1 /\ published' = Append(published, e)
  BY DEF StreamTyped, Event, Publish
<1> HIDE DEF e
<1>2. /\ published' \in Seq(Event) /\ Len(published') = Len(published) + 1
      /\ DOMAIN published' = DOMAIN published \cup {Len(published) + 1}
      /\ \A i \in DOMAIN published : published'[i] = published[i]
      /\ published'[Len(published) + 1] = e
  BY <1>1, AppendIs
<1>3. CursorInv'
  BY <1>1, <1>2 DEF CursorInv
<1>4. \A s \in Subscriber : Bounded(Offered(subs[s], cursor + 1))
                            /\ SubOK(Offered(subs[s], cursor + 1), cursor + 1, Append(published, e))
  <2> TAKE s \in Subscriber
  <2>1. Bounded(subs[s]) /\ SubOK(subs[s], cursor, published)
    BY DEF StreamTyped, SubsInv, Bounded
  <2>. QED  BY <1>1, <2>1, OfferedOK
<1>5. subs' = [s \in Subscriber |-> Offered(subs[s], cursor + 1)]
  BY DEF Publish, OfferedAll
<1>6. SubsInv'
  BY <1>1, <1>4, <1>5 DEF SubsInv
<1>7. StreamTyped'
  BY <1>1, <1>2, <1>4, <1>5 DEF StreamTyped, Bounded
<1>. QED  BY <1>1, <1>3, <1>6, <1>7 DEF e

\* A failure that just happened publishes its alert, and nothing else does here.
LEMMA BecomeOK ==
  ASSUME EventsAssumption, StreamTyped, StreamInv, durable \in Seq(Event), failed \in BOOLEAN,
         NEW q, q.failed \in BOOLEAN, failed => q.failed, Become(q), durable' = durable
  PROVE  /\ StreamTyped' /\ StreamInv' /\ failed' = q.failed
         /\ tail' = q.tail /\ refused' = q.refused /\ end' = q.end
         /\ ~failed' => cursor' = cursor /\ published' = published
<1>1. /\ failed' = q.failed /\ tail' = q.tail /\ refused' = q.refused /\ end' = q.end
  BY DEF Become
<1>2. CASE q.failed /\ ~failed
  <2>1. Publish("failure", cursor + 1)
    BY <1>2 DEF Become
  <2> DEFINE e == [kind |-> "failure", cursor |-> cursor + 1]
  <2>2. /\ StreamTyped' /\ CursorInv' /\ SubsInv' /\ e \in Event /\ e.kind = "failure"
        /\ published' = Append(published, e)
    BY <2>1, PublishOK DEF StreamInv
  <2> HIDE DEF e
  <2>3. LogInv(published, durable, FALSE) /\ failed' = TRUE
    BY <1>1, <1>2 DEF StreamInv
  <2>4. LogInv(Append(published, e), durable, TRUE)
    BY <2>2, <2>3, LogFails DEF StreamTyped
  <2>. QED  BY <1>1, <2>2, <2>3, <2>4 DEF StreamInv
<1>3. CASE ~(q.failed /\ ~failed)
  <2>1. UNCHANGED stream /\ failed' = failed
    BY <1>1, <1>3 DEF Become
  <2>. QED  BY <1>1, <2>1 DEF stream, StreamTyped, StreamInv, CursorInv, SubsInv
<1>. QED  BY <1>2, <1>3

-----------------------------------------------------------------------------
(***************************************************************************)
(* Every step keeps the invariant.                                         *)
(***************************************************************************)
LEMMA NowIsFine ==
  ASSUME EventsInv
  PROVE  /\ Fine(Now) /\ Now \in QState /\ records \in Nat /\ inflight \in Nat
         /\ Now.tail = tail /\ Now.failed = failed /\ Now.refused = refused /\ Now.end = end
         /\ tail \in Seq(Kind) /\ failed \in BOOLEAN /\ refused \in SUBSET Kind /\ end \in EndStage
         /\ closed \in BOOLEAN /\ sealed \in BOOLEAN /\ withdrawn \in {"no", "first", "late"}
         /\ durable \in Seq(Event) /\ StreamTyped /\ StreamInv
         /\ Places(Now, records) /\ ReceiptInv /\ HeadInv /\ AnnounceInv
BY DEF EventsInv, TypeOK, TailInv, Now, Fine, QState, StreamTyped

\* The invariant from what it says of the next state.
LEMMA InvariantAgain ==
  ASSUME EventsAssumption, NEW q, q \in QState, NEW n \in Nat, Places(q, n),
         tail' = q.tail, failed' = q.failed, refused' = q.refused, end' = q.end, records' = n,
         inflight' \in Nat, closed' \in BOOLEAN, sealed' \in BOOLEAN,
         withdrawn' \in {"no", "first", "late"}, durable' \in Seq(Event),
         StreamTyped', StreamInv', ReceiptInv', HeadInv', AnnounceInv'
  PROVE  EventsInv'
<1>1. q.tail \in Seq(Kind) /\ q.failed \in BOOLEAN /\ q.refused \in SUBSET Kind
      /\ q.end \in EndStage
  BY DEF QState
<1>2. Len(q.tail) + n <= TerminalLimit
  <2>1. /\ Num(q.tail, Low) \in Nat /\ Num(q.tail, {"receipt"}) \in Nat
        /\ Num(q.tail, Terminal) \in Nat
        /\ Len(q.tail) = Num(q.tail, Low) + Num(q.tail, {"receipt"}) + Num(q.tail, Terminal)
    BY <1>1, NumSplits
  <2>2. "event" \in Kind
    BY DEF Kind
  <2>3. PriorityLimit \in Nat /\ WithdrawalLimit = PriorityLimit + 1
        /\ TerminalLimit = PriorityLimit + 4
    BY <2>2, LimitsAreOrdered
  <2>4. /\ Num(q.tail, Low) + Num(q.tail, {"receipt"}) + n <= WithdrawalLimit
        /\ Num(q.tail, Terminal) <= 3
    BY DEF Places
  <2>. QED  BY <2>1, <2>3, <2>4
<1>3. TypeOK'
  BY <1>1, <1>2 DEF TypeOK, StreamTyped
<1>4. Places(Now, records)'
  BY DEF Places, Now
<1>. QED  BY <1>3, <1>4 DEF EventsInv, TailInv

\* Places are not lost when operations settle.
LEMMA PlacesLeft ==
  ASSUME NEW q \in QState, NEW n \in Nat, NEW m \in Nat, Places(q, n), m <= n, EventsAssumption
  PROVE  /\ Places(q, m)
         /\ q.tail # <<>> => /\ [q EXCEPT !.tail = Tail(@)] \in QState
                             /\ Places([q EXCEPT !.tail = Tail(@)], m)
<1>0. q.tail \in Seq(Kind) /\ PriorityLimit \in Nat /\ WithdrawalLimit = PriorityLimit + 1
  <2>1. "event" \in Kind
    BY DEF Kind
  <2>. QED  BY <2>1, LimitsAreOrdered DEF QState
<1>n. /\ Num(q.tail, Low) \in Nat /\ Num(q.tail, {"receipt"}) \in Nat
      /\ Num(q.tail, Terminal) \in Nat
      /\ Num(q.tail, {"closing"}) \in Nat /\ Num(q.tail, {"end_cut"}) \in Nat
      /\ Num(q.tail, {"closed"}) \in Nat
  BY <1>0, NumSplits
<1>1. Places(q, m)
  <2> DEFINE a == Num(q.tail, Low)
             b == Num(q.tail, {"receipt"})
  <2>1. /\ a \in Nat /\ b \in Nat /\ n \in Nat /\ m \in Nat /\ m <= n
        /\ PriorityLimit \in Nat /\ WithdrawalLimit \in Nat
        /\ a + n <= PriorityLimit /\ a + b + n <= WithdrawalLimit
    BY <1>0, <1>n DEF Places
  <2> HIDE DEF a, b
  <2>2. a + m <= PriorityLimit /\ a + b + m <= WithdrawalLimit
    BY <2>1
  <2>. QED  BY <2>2 DEF Places, a, b
<1>2. ASSUME q.tail # <<>>
      PROVE  /\ [q EXCEPT !.tail = Tail(@)] \in QState
             /\ Places([q EXCEPT !.tail = Tail(@)], m)
  <2> DEFINE r == [q EXCEPT !.tail = Tail(@)]
             t == Tail(q.tail)
  <2>1. t \in Seq(Kind)
    BY <1>0, <1>2, HeadTailProperties
  <2>2. r \in QState /\ r.tail = t /\ r.end = q.end /\ r.refused = q.refused
    BY <2>1 DEF QState
  <2>3. \A S : Num(t, S) = Num(q.tail, S) - (IF Head(q.tail) \in S THEN 1 ELSE 0)
    BY <1>0, <1>2, NumTail
  <2>4. /\ Num(t, Low) \in Nat /\ Num(t, {"receipt"}) \in Nat /\ Num(t, Terminal) \in Nat
        /\ Num(t, {"closing"}) \in Nat /\ Num(t, {"end_cut"}) \in Nat /\ Num(t, {"closed"}) \in Nat
    BY <2>1, NumSplits
  <2> HIDE DEF r, t
  <2>5. /\ Num(t, Low) <= Num(q.tail, Low) /\ Num(t, {"receipt"}) <= Num(q.tail, {"receipt"})
        /\ Num(t, Terminal) <= Num(q.tail, Terminal)
        /\ Num(t, {"closing"}) <= Num(q.tail, {"closing"})
        /\ Num(t, {"end_cut"}) <= Num(q.tail, {"end_cut"})
        /\ Num(t, {"closed"}) <= Num(q.tail, {"closed"})
    <3>1. \A S : Num(q.tail, S) \in Nat => Num(t, S) <= Num(q.tail, S)
      BY <2>3
    <3>. QED  BY <3>1, <1>n
  <2>6. Places(r, m)
    <3>1. /\ Num(q.tail, Low) + m <= PriorityLimit
          /\ Num(q.tail, Low) + Num(q.tail, {"receipt"}) + m <= WithdrawalLimit
          /\ Num(q.tail, Terminal) <= 3
      BY <1>1 DEF Places
    <3>2. /\ Num(t, Low) + m <= PriorityLimit
          /\ Num(t, Low) + Num(t, {"receipt"}) + m <= WithdrawalLimit
          /\ Num(t, Terminal) <= 3
      <4> DEFINE a == Num(t, Low)
                 b == Num(t, {"receipt"})
                 c == Num(q.tail, Low)
                 d == Num(q.tail, {"receipt"})
      <4>1. a \in Nat /\ b \in Nat /\ c \in Nat /\ d \in Nat /\ a <= c /\ b <= d
        BY <1>n, <2>4, <2>5
      <4>2. /\ c + m <= PriorityLimit /\ c + d + m <= WithdrawalLimit
            /\ PriorityLimit \in Nat /\ WithdrawalLimit \in Nat
        BY <1>0, <3>1
      <4>3. Num(t, Terminal) <= 3
        BY <1>n, <2>4, <2>5, <3>1
      <4> HIDE DEF a, b, c, d
      <4>4. a + m <= PriorityLimit /\ a + b + m <= WithdrawalLimit
        BY <4>1, <4>2
      <4>. QED  BY <4>3, <4>4 DEF a, b
    <3>3. q.end = "none" => Num(t, Terminal) = 0
      BY <1>1, <2>4, <2>5 DEF Places
    <3>4. q.end = "closing" => /\ Num(t, {"closing"}) <= 1 /\ Num(t, {"end_cut"}) <= 2
                               /\ Num(t, {"closed"}) = 0
      BY <1>1, <1>n, <2>4, <2>5 DEF Places
    <3>. QED  BY <1>1, <2>2, <3>2, <3>3, <3>4 DEF Places
  <2>. QED  BY <2>2, <2>6 DEF r
<1>. QED  BY <1>1, <1>2

\* What handlers emit keeps the invariant.
LEMMA GrowthKeeps ==
  ASSUME EventsAssumption, EventsInv, NEW q, Grows(Now, q), Become(q),
         records' \in Nat, records' <= records,
         UNCHANGED <<inflight, durable, closed, withdrawn, sealed>>
  PROVE  EventsInv'
<1>. USE NowIsFine
<1>1. q \in QState /\ Places(q, records) /\ q.failed \in BOOLEAN
  BY DEF Grows, Fine, QState
<1>2. Places(q, records')
  BY <1>1, PlacesLeft
<1>3. /\ failed => q.failed
      /\ q.end = end \/ q.end = "closing"
      /\ tail # <<>> => q.tail # <<>> /\ Head(q.tail) = Head(tail)
      /\ Contains(tail, "session_closed") => Contains(q.tail, "session_closed")
      /\ Num(q.tail, {"receipt"}) = Num(tail, {"receipt"})
      /\ "receipt" \in q.refused <=> "receipt" \in refused
  BY DEF Grows, Grew, SameReceipt
<1>4. /\ StreamTyped' /\ StreamInv' /\ failed' = q.failed
      /\ tail' = q.tail /\ refused' = q.refused /\ end' = q.end
      /\ ~failed' => cursor' = cursor /\ published' = published
  BY <1>1, <1>3, BecomeOK
<1>5. ReceiptInv'
  BY <1>3, <1>4 DEF ReceiptInv
<1>6. HeadInv'
  BY <1>3, <1>4 DEF HeadInv
<1>7. AnnounceInv'
  BY <1>3, <1>4 DEF AnnounceInv
<1>. QED  BY <1>1, <1>2, <1>4, <1>5, <1>6, <1>7, InvariantAgain

LEMMA EmissionsGrow ==
  ASSUME EventsAssumption, EventsInv, NEW q \in Emissions
  PROVE  Grows(Now, q)
<1>0. Fine(Now) /\ records \in Nat
  BY NowIsFine
<1>1. ASSUME NEW p, Fine(p), NEW k \in Low
      PROVE  Grows(p, Emit(p, k)) /\ Fine(Emit(p, k))
  <2>1. k # "receipt" /\ k \in Low \cup {"receipt"}
    BY DEF Low
  <2>2. Fine(p)
    BY <1>1
  <2>. QED  BY <1>0, <2>1, <2>2, EmitGrows
<1>2. "event" \in Low /\ "cut" \in Low /\ "control" \in Low
  BY DEF Low
<1>3. ASSUME NEW p, Grows(Now, p), NEW k \in Low
      PROVE  Grows(Now, Emit(p, k))
  <2>1. Fine(p)
    BY <1>3 DEF Grows
  <2>2. Grows(p, Emit(p, k))
    BY <1>1, <2>1
  <2>. QED  BY <1>3, <2>2, GrowsTransitive
<1>4. \A k \in Low : Grows(Now, Emit(Now, k))
  BY <1>0, <1>1
<1>5. CASE q = Emit(Now, "event")
  BY <1>2, <1>4, <1>5
<1>6. CASE q = Emit(Emit(Emit(Now, "control"), "cut"), "cut")
  <2>1. Grows(Now, Emit(Emit(Now, "control"), "cut"))
    BY <1>2, <1>3, <1>4
  <2>. QED  BY <1>2, <1>3, <1>6, <2>1
<1>7. CASE q = Emit(Emit(Emit(Emit(Now, "event"), "cut"), "event"), "event")
  <2>1. Grows(Now, Emit(Emit(Now, "event"), "cut"))
    BY <1>2, <1>3, <1>4
  <2>2. Grows(Now, Emit(Emit(Emit(Now, "event"), "cut"), "event"))
    BY <1>2, <1>3, <2>1
  <2>. QED  BY <1>2, <1>3, <1>7, <2>2
<1>8. CASE q = Emit(Emit(Emit(Now, "cut"), "cut"), "control")
  <2>1. Grows(Now, Emit(Emit(Now, "cut"), "cut"))
    BY <1>2, <1>3, <1>4
  <2>. QED  BY <1>2, <1>3, <1>8, <2>1
<1>. QED  BY <1>5, <1>6, <1>7, <1>8 DEF Emissions

LEMMA HandleKeeps ==
  ASSUME EventsAssumption, EventsInv, Handle
  PROVE  EventsInv'
<1>1. PICK q \in Emissions : Become(q)
  BY DEF Handle
<1>2. records \in Nat /\ records' = records
  BY NowIsFine DEF Handle
<1>. QED  BY <1>1, <1>2, EmissionsGrow, GrowthKeeps DEF Handle

LEMMA EndKeeps ==
  ASSUME EventsAssumption, EventsInv, End
  PROVE  EventsInv'
<1>1. Grows(Now, BeginEnd(Now)) /\ records \in Nat
  BY NowIsFine, BeginEndGrows
<1>2. Become(BeginEnd(Now)) /\ records' = records
  BY DEF End
<1>. QED  BY <1>1, <1>2, GrowthKeeps DEF End

\* A record was not admitted, or was but failed, or nothing settles in time.
LEMMA TimesOutKeeps ==
  ASSUME EventsAssumption, EventsInv, TimesOut
  PROVE  EventsInv'
<1>1. Grows(Now, Fail(Now)) /\ records \in Nat
  BY NowIsFine, FailGrows
<1>2. Become(Fail(Now)) /\ records' = records
  BY DEF TimesOut
<1>. QED  BY <1>1, <1>2, GrowthKeeps DEF TimesOut

LEMMA SettlesKeeps ==
  ASSUME EventsAssumption, EventsInv, RecordSettles
  PROVE  EventsInv'
<1>0. records \in Nat /\ records > 0 /\ records' = records - 1
  BY NowIsFine DEF RecordSettles
<1>1. records' \in Nat /\ records' <= records
  BY <1>0
<1>2. CASE Become(Fail(Now))
  <2>1. Grows(Now, Fail(Now))
    BY NowIsFine, FailGrows
  <2>. QED  BY <1>1, <1>2, <2>1, GrowthKeeps DEF RecordSettles
<1>3. CASE UNCHANGED <<tail, failed, refused, end, stream>>
  <2>1. Grows(Now, Now)
    BY NowIsFine DEF Grows, Grew, SameReceipt
  <2>2. Become(Now)
    BY <1>3, NowIsFine DEF Become
  <2>. QED  BY <1>1, <2>1, <2>2, GrowthKeeps DEF RecordSettles
<1>. QED  BY <1>2, <1>3 DEF RecordSettles

LEMMA WithdrawKeeps ==
  ASSUME EventsAssumption, EventsInv, Withdraw
  PROVE  EventsInv'
<1>. USE NowIsFine
<1> DEFINE r == Emit(Now, "receipt")
           q == BeginEnd(r)
<1>0. /\ withdrawn = "no" /\ withdrawn' = (IF end = "none" THEN "first" ELSE "late") /\ Become(q)
      /\ UNCHANGED <<inflight, records, durable, closed, sealed>>
  BY DEF Withdraw
<1>1. Fine(r) /\ Grew(Now, r) /\ (Fits(Now, "receipt") => r.refused = refused)
  BY EmitGrows
<1> HIDE DEF r
<1>2. Grows(r, q) /\ q.refused = r.refused
  BY <1>1, BeginEndGrows
<1> HIDE DEF q
<1>3. Fine(q) /\ Grew(Now, q) /\ (Fits(Now, "receipt") => q.refused = refused)
  BY <1>1, <1>2, GrewTransitive DEF Grows
<1>4. q \in QState /\ Places(q, records) /\ q.failed \in BOOLEAN
  BY <1>3 DEF Fine, QState
<1>5. /\ failed => q.failed
      /\ q.end = end \/ q.end = "closing"
      /\ tail # <<>> => q.tail # <<>> /\ Head(q.tail) = Head(tail)
      /\ Contains(tail, "session_closed") => Contains(q.tail, "session_closed")
  BY <1>3 DEF Grew
<1>6. /\ StreamTyped' /\ StreamInv' /\ failed' = q.failed
      /\ tail' = q.tail /\ refused' = q.refused /\ end' = q.end
      /\ ~failed' => cursor' = cursor /\ published' = published
  BY <1>0, <1>4, <1>5, BecomeOK
<1>7. end = "none" => Fits(Now, "receipt")
  <2> HAVE end = "none"
  <2>1. /\ Num(tail, Low) \in Nat /\ Num(tail, {"receipt"}) \in Nat /\ Num(tail, Terminal) \in Nat
        /\ Len(tail) = Num(tail, Low) + Num(tail, {"receipt"}) + Num(tail, Terminal)
    BY NumSplits
  <2>2. Num(tail, {"receipt"}) = 0
    BY <1>0 DEF ReceiptInv
  <2>3. Num(tail, Terminal) = 0 /\ Num(tail, Low) + records <= PriorityLimit
    BY DEF Places
  <2>4. "receipt" \in Kind
    BY DEF Kind
  <2>5. PriorityLimit \in Nat /\ LimitOf("receipt") = PriorityLimit + 1
    BY <2>4, LimitsAreOrdered
  <2>6. Len(tail) + records < LimitOf("receipt")
    BY <2>1, <2>2, <2>3, <2>5
  <2>. QED  BY <2>6 DEF Fits
<1>8. ReceiptInv'
  BY <1>0, <1>3, <1>6, <1>7 DEF ReceiptInv
<1>9. HeadInv'
  BY <1>0, <1>5, <1>6 DEF HeadInv
<1>10. AnnounceInv'
  BY <1>5, <1>6 DEF AnnounceInv
<1>. QED  BY <1>0, <1>4, <1>6, <1>8, <1>9, <1>10, InvariantAgain

LEMMA RecordKeeps ==
  ASSUME EventsAssumption, EventsInv, Record
  PROVE  EventsInv'
<1>. USE NowIsFine
<1>1. CASE Fits(Now, "event")
  <2>1. /\ records' = records + 1 /\ UNCHANGED <<tail, failed, refused, end, stream>>
        /\ UNCHANGED <<inflight, durable, closed, withdrawn, sealed>>
    BY <1>1 DEF Record
  <2>2. Len(tail) + records < NormalLimit /\ NormalLimit < PriorityLimit
        /\ NormalLimit \in Nat /\ PriorityLimit \in Nat /\ WithdrawalLimit = PriorityLimit + 1
    <3>1. "event" \in Kind
      BY DEF Kind
    <3>. QED  BY <1>1, <3>1, LimitsAreOrdered DEF Fits
  <2>3. /\ Num(tail, Low) \in Nat /\ Num(tail, {"receipt"}) \in Nat /\ Num(tail, Terminal) \in Nat
        /\ Len(tail) = Num(tail, Low) + Num(tail, {"receipt"}) + Num(tail, Terminal)
    BY NumSplits
  <2>4. /\ Num(tail, Low) + (records + 1) <= PriorityLimit
        /\ Num(tail, Low) + Num(tail, {"receipt"}) + (records + 1) <= WithdrawalLimit
    <3> DEFINE a == Num(tail, Low)
               b == Num(tail, {"receipt"})
               c == Num(tail, Terminal)
    <3>1. /\ a \in Nat /\ b \in Nat /\ c \in Nat /\ records \in Nat
          /\ NormalLimit \in Nat /\ PriorityLimit \in Nat /\ WithdrawalLimit = PriorityLimit + 1
          /\ a + b + c + records < NormalLimit /\ NormalLimit < PriorityLimit
      BY <2>2, <2>3
    <3> HIDE DEF a, b, c
    <3>2. a + (records + 1) <= PriorityLimit /\ a + b + (records + 1) <= WithdrawalLimit
      BY <3>1
    <3>. QED  BY <3>2 DEF a, b
  <2>5. Places(Now, records + 1)
    BY <2>4 DEF Places
  <2>6. records + 1 \in Nat
    OBVIOUS
  <2>7. /\ StreamTyped' /\ StreamInv' /\ ReceiptInv' /\ HeadInv' /\ AnnounceInv'
    BY <2>1 DEF StreamTyped, StreamInv, CursorInv, SubsInv, ReceiptInv, HeadInv, AnnounceInv, stream
  <2>. QED  BY <2>1, <2>5, <2>6, <2>7, InvariantAgain
<1>2. CASE ~Fits(Now, "event")
  <2> DEFINE r == [Now EXCEPT !.refused = @ \cup {"event"}]
  <2>1. /\ records' = records /\ Become(Fail(r))
        /\ UNCHANGED <<inflight, durable, closed, withdrawn, sealed>>
    BY <1>2 DEF Record
  <2>2. /\ r \in QState /\ r.tail = tail /\ r.failed = failed /\ r.end = end
        /\ r.refused = refused \cup {"event"}
    BY DEF QState, Kind
  <2> HIDE DEF r
  <2>3. Grows(Now, r)
    <3>1. Fine(r)
      BY <2>2 DEF Fine, Places, Terminal
    <3>. QED  BY <2>2, <3>1 DEF Grows, Grew, SameReceipt
  <2>4. Grows(Now, Fail(r))
    BY <2>3, FailGrows, GrowsTransitive DEF Grows
  <2>. QED  BY <2>1, <2>4, GrowthKeeps
<1>. QED  BY <1>1, <1>2

\* The operation at the head of the tail settles.
LEMMA TailIsLeft ==
  ASSUME EventsAssumption, EventsInv, tail # <<>>
  PROVE  \E q : /\ q \in QState /\ Places(q, records)
                /\ q.tail = Tail(tail) /\ q.failed = failed /\ q.refused = refused /\ q.end = end
                /\ Tail(tail) \in Seq(Kind) /\ Head(tail) \in Kind
                /\ (Num(tail, {"receipt"}) = 0 => Num(Tail(tail), {"receipt"}) = 0)
                /\ (Head(tail) # "session_closed" /\ Contains(tail, "session_closed")
                      => Contains(Tail(tail), "session_closed"))
<1>. USE NowIsFine
<1> DEFINE q == [Now EXCEPT !.tail = Tail(@)]
<1>1. q \in QState /\ Places(q, records)
  <2>1. Now \in QState /\ Places(Now, records) /\ Now.tail # <<>> /\ records \in Nat
    OBVIOUS
  <2>2. records <= records
    BY <2>1
  <2>. QED  BY <2>1, <2>2, PlacesLeft
<1>2. q.tail = Tail(tail) /\ q.failed = failed /\ q.refused = refused /\ q.end = end
  BY DEF QState
<1>3. Tail(tail) \in Seq(Kind) /\ Head(tail) \in Kind
  BY HeadTailProperties
<1>4. Num(tail, {"receipt"}) = 0 => Num(Tail(tail), {"receipt"}) = 0
  <2>1. Num(Tail(tail), {"receipt"})
          = Num(tail, {"receipt"}) - (IF Head(tail) \in {"receipt"} THEN 1 ELSE 0)
    BY NumTail
  <2>2. Num(Tail(tail), {"receipt"}) \in Nat
    BY <1>3, NumIs
  <2>. QED  BY <2>1, <2>2
<1>5. Head(tail) # "session_closed" /\ Contains(tail, "session_closed")
        => Contains(Tail(tail), "session_closed")
  BY TailContains
<1> HIDE DEF q
<1>. QED  BY <1>1, <1>2, <1>3, <1>4, <1>5

LEMMA BeginKeeps ==
  ASSUME EventsAssumption, EventsInv, Begin
  PROVE  EventsInv'
<1>. USE NowIsFine
<1>0. /\ tail # <<>> /\ inflight = 0 /\ UNCHANGED <<records, failed, refused, durable, ending>>
  BY DEF Begin
<1>1. PICK q : /\ q \in QState /\ Places(q, records)
               /\ q.tail = Tail(tail) /\ q.failed = failed /\ q.refused = refused /\ q.end = end
               /\ (Num(tail, {"receipt"}) = 0 => Num(Tail(tail), {"receipt"}) = 0)
  BY <1>0, TailIsLeft
<1>2. CASE Head(tail) = "session_closed"
  <2>1. tail' = Tail(tail) /\ Publish("session_closed", cursor + 1) /\ inflight' = 0
    BY <1>0, <1>2 DEF Begin
  <2> DEFINE e == [kind |-> "session_closed", cursor |-> cursor + 1]
  <2>2. /\ StreamTyped' /\ CursorInv' /\ SubsInv' /\ e \in Event /\ e.kind = "session_closed"
        /\ published' = Append(published, e)
    BY <2>1, PublishOK DEF StreamInv, Kind
  <2> HIDE DEF e
  <2>3. LogInv(Append(published, e), durable, failed)
    BY <2>2, LogEnds DEF StreamTyped, StreamInv
  <2>4. StreamInv'
    BY <1>0, <2>2, <2>3 DEF StreamInv
  <2>5. \E i \in DOMAIN published' : published'[i].kind = "session_closed"
    BY <2>2, AppendIs DEF StreamTyped
  <2>6. ReceiptInv' /\ HeadInv' /\ AnnounceInv'
    BY <1>0, <1>1, <2>1, <2>5 DEF ReceiptInv, HeadInv, AnnounceInv, ending
  <2>7. inflight' \in Nat
    BY <2>1
  <2>. QED  BY <1>0, <1>1, <2>1, <2>2, <2>4, <2>6, <2>7, InvariantAgain DEF ending
<1>3. CASE Head(tail) # "session_closed" /\ failed
  <2>1. tail' = Tail(tail) /\ inflight' = 0 /\ UNCHANGED stream
    BY <1>0, <1>3 DEF Begin
  <2>2. StreamTyped' /\ StreamInv'
    BY <1>0, <2>1 DEF StreamTyped, StreamInv, CursorInv, SubsInv, stream
  <2>3. ReceiptInv' /\ HeadInv' /\ AnnounceInv'
    BY <1>0, <1>1, <1>3, <2>1 DEF ReceiptInv, HeadInv, AnnounceInv, ending
  <2>4. inflight' \in Nat
    BY <2>1
  <2>. QED  BY <1>0, <1>1, <2>1, <2>2, <2>3, <2>4, InvariantAgain DEF ending
<1>4. CASE Head(tail) # "session_closed" /\ ~failed
  <2>1. inflight' = cursor + 1 /\ UNCHANGED <<tail, stream>>
    BY <1>4 DEF Begin
  <2>2. StreamTyped' /\ StreamInv' /\ ReceiptInv' /\ AnnounceInv'
    BY <1>0, <2>1
    DEF StreamTyped, StreamInv, CursorInv, SubsInv, ReceiptInv, AnnounceInv, stream, ending
  <2>3. HeadInv' /\ inflight' \in Nat
    BY <1>0, <1>4, <2>1 DEF HeadInv, StreamTyped, stream
  <2>. QED  BY <1>0, <2>1, <2>2, <2>3, InvariantAgain DEF ending
<1>. QED  BY <1>2, <1>3, <1>4

LEMMA PersistedKeeps ==
  ASSUME EventsAssumption, EventsInv, Persisted
  PROVE  EventsInv'
<1>. USE NowIsFine
<1> DEFINE e == [kind |-> Head(tail), cursor |-> inflight]
<1>0. /\ inflight # 0 /\ inflight' = 0 /\ tail' = Tail(tail) /\ durable' = Append(durable, e)
      /\ UNCHANGED <<records, failed, refused, withdrawn, end, sealed>>
  BY DEF Persisted
<1>1. /\ tail # <<>> /\ Head(tail) # "session_closed" /\ (~failed => inflight = cursor + 1)
  BY <1>0 DEF HeadInv
<1>2. PICK q : /\ q \in QState /\ Places(q, records)
               /\ q.tail = Tail(tail) /\ q.failed = failed /\ q.refused = refused /\ q.end = end
               /\ Head(tail) \in Kind
               /\ (Num(tail, {"receipt"}) = 0 => Num(Tail(tail), {"receipt"}) = 0)
               /\ (Contains(tail, "session_closed") => Contains(Tail(tail), "session_closed"))
  BY <1>1, TailIsLeft
<1>3. e \in Event /\ e.kind = Head(tail) /\ e.cursor = inflight /\ e.kind # "failure"
  BY <1>2 DEF Event, Kind
<1>4. durable' \in Seq(Event)
  BY <1>0, <1>3, AppendIs
<1>5. /\ StreamTyped' /\ StreamInv' /\ closed' \in BOOLEAN
      /\ \A i \in DOMAIN published : \E j \in DOMAIN published' : published'[j] = published[i]
  <2>1. CASE failed
    <3>1. UNCHANGED <<stream, closed>>
      BY <2>1 DEF Persisted
    <3>2. LogInv(published, Append(durable, e), TRUE)
      <4> HIDE DEF e
      <4>1. LogInv(published, durable, TRUE)
        BY <2>1 DEF StreamInv
      <4>. QED  BY <1>3, <4>1, LogLags DEF StreamTyped
    <3>3. LogInv(published', durable', failed')
      BY <1>0, <2>1, <3>1, <3>2 DEF stream
    <3>. QED  BY <3>1, <3>3 DEF StreamTyped, StreamInv, CursorInv, SubsInv, stream
  <2>2. CASE ~failed
    <3>1. Publish(Head(tail), cursor + 1) /\ closed' \in BOOLEAN /\ e.cursor = cursor + 1
      BY <1>1, <2>2 DEF Persisted
    <3>2. /\ StreamTyped' /\ CursorInv' /\ SubsInv'
          /\ published' = Append(published, e)
      BY <1>1, <1>2, <2>2, <3>1, PublishOK DEF StreamInv
    <3> HIDE DEF e
    <3>3. LogInv(Append(published, e), Append(durable, e), FALSE)
      <4>1. LogInv(published, durable, FALSE)
        BY <2>2 DEF StreamInv
      <4>. QED  BY <1>3, <4>1, LogStores DEF StreamTyped
    <3>4. LogInv(published', durable', failed')
      BY <1>0, <2>2, <3>2, <3>3
    <3>5. \A i \in DOMAIN published : published'[i] = published[i] /\ i \in DOMAIN published'
      BY <1>3, <3>2, AppendIs DEF StreamTyped
    <3>. QED  BY <3>1, <3>2, <3>4, <3>5 DEF StreamInv
  <2>. QED  BY <2>1, <2>2
<1>6. ReceiptInv' /\ HeadInv'
  BY <1>0, <1>2 DEF ReceiptInv, HeadInv
<1>7. AnnounceInv'
  BY <1>0, <1>2, <1>5 DEF AnnounceInv
<1>8. inflight' \in Nat
  BY <1>0
<1>. QED  BY <1>0, <1>2, <1>4, <1>5, <1>6, <1>7, <1>8, InvariantAgain

LEMMA PersistFailsKeeps ==
  ASSUME EventsAssumption, EventsInv, PersistFails
  PROVE  EventsInv'
<1>. USE NowIsFine
<1> DEFINE q == Fail(Now)
           r == [q EXCEPT !.tail = Tail(@)]
<1>0. /\ inflight # 0 /\ inflight' = 0 /\ Become(r)
      /\ UNCHANGED <<records, durable, closed, withdrawn, sealed>>
  BY DEF PersistFails
<1>1. Grows(Now, q) /\ q.failed
  BY FailGrows
<1> HIDE DEF q
<1>2. tail # <<>>
  BY <1>0 DEF HeadInv
<1>3. /\ q \in QState /\ Places(q, records) /\ q.tail # <<>> /\ q.tail \in Seq(Kind)
      /\ Num(q.tail, {"receipt"}) = Num(tail, {"receipt"})
      /\ ("receipt" \in q.refused <=> "receipt" \in refused)
  BY <1>1, <1>2 DEF Grows, Grew, SameReceipt, Fine, QState
<1>4. r \in QState /\ Places(r, records)
  <2>1. records <= records
    OBVIOUS
  <2>. QED  BY <1>3, <2>1, PlacesLeft
<1>5. r.tail = Tail(q.tail) /\ r.failed = q.failed /\ r.refused = q.refused /\ r.end = q.end
  BY <1>3 DEF QState
<1>6. q.failed \in BOOLEAN
  BY <1>3 DEF QState
<1> HIDE DEF r
<1>7. /\ StreamTyped' /\ StreamInv' /\ failed' = r.failed
      /\ tail' = r.tail /\ refused' = r.refused /\ end' = r.end
  <2>1. r.failed \in BOOLEAN /\ (failed => r.failed) /\ durable' = durable
    BY <1>0, <1>1, <1>5, <1>6
  <2>. QED  BY <1>0, <2>1, BecomeOK
<1>8. Num(tail, {"receipt"}) = 0 => Num(Tail(q.tail), {"receipt"}) = 0
  <2>1. Num(Tail(q.tail), {"receipt"})
          = Num(q.tail, {"receipt"}) - (IF Head(q.tail) \in {"receipt"} THEN 1 ELSE 0)
    BY <1>3, NumTail
  <2>2. Tail(q.tail) \in Seq(Kind)
    BY <1>3, HeadTailProperties
  <2>3. Num(Tail(q.tail), {"receipt"}) \in Nat
    BY <2>2, NumIs
  <2>. QED  BY <1>3, <2>1, <2>3
<1>9. ReceiptInv' /\ HeadInv' /\ AnnounceInv'
  BY <1>0, <1>1, <1>3, <1>5, <1>7, <1>8 DEF ReceiptInv, HeadInv, AnnounceInv
<1>10. inflight' \in Nat
  BY <1>0
<1>. QED  BY <1>0, <1>4, <1>7, <1>9, <1>10, InvariantAgain

LEMMA EndClosingKeeps ==
  ASSUME EventsAssumption, EventsInv, EndClosing
  PROVE  EventsInv'
<1>. USE NowIsFine
<1>0. /\ end = "closing" /\ Settled("closing")
      /\ UNCHANGED <<inflight, records, durable, withdrawn, sealed>>
  BY DEF EndClosing
<1>1. CASE failed
  <2> DEFINE q == [Now EXCEPT !.end = "drain"]
  <2>1. /\ closed' = TRUE /\ end' = "drain" /\ UNCHANGED <<tail, failed, refused, stream>>
    BY <1>1 DEF EndClosing
  <2>2. /\ q \in QState /\ q.tail = tail /\ q.failed = failed /\ q.refused = refused
        /\ q.end = "drain"
    BY DEF QState, EndStage
  <2> HIDE DEF q
  <2>3. Places(q, records)
    BY <2>2 DEF Places
  <2>4. /\ StreamTyped' /\ StreamInv' /\ ReceiptInv' /\ HeadInv' /\ AnnounceInv'
    BY <1>0, <2>1
    DEF StreamTyped, StreamInv, CursorInv, SubsInv, ReceiptInv, HeadInv, AnnounceInv, stream
  <2>. QED  BY <1>0, <2>1, <2>2, <2>3, <2>4, InvariantAgain
<1>2. CASE ~failed
  <2> DEFINE r == Admit(Now, "closed")
             q == [r EXCEPT !.end = "closed"]
  <2>1. Become(q) /\ closed' = closed
    BY <1>2 DEF EndClosing
  <2>2. /\ Num(tail, Low) \in Nat /\ Num(tail, {"receipt"}) \in Nat /\ Num(tail, Terminal) \in Nat
        /\ Num(tail, Terminal)
             = Num(tail, {"closing"}) + Num(tail, {"end_cut"}) + Num(tail, {"closed"})
        /\ Num(tail, {"end_cut"}) \in Nat
    BY NumSplits
  <2>3. Num(tail, {"closing"}) = 0
    BY <1>0, <1>2, NumOne DEF Settled
  <2>4. Num(tail, {"end_cut"}) <= 2 /\ Num(tail, {"closed"}) = 0
    BY <1>0 DEF Places
  <2>5. Num(tail, Terminal) < 3
    BY <2>2, <2>3, <2>4
  <2>6. /\ Num(tail, Low) + records <= PriorityLimit
        /\ Num(tail, Low) + Num(tail, {"receipt"}) + records <= WithdrawalLimit
    BY DEF Places
  <2>7. "closed" \in Terminal
    BY DEF Terminal
  <2>8. /\ r \in QState /\ Grew(Now, r) /\ SameReceipt(Now, r) /\ r.failed = failed
        /\ r.refused = refused /\ Num(r.tail, Low) = Num(tail, Low)
        /\ Num(r.tail, {"receipt"}) = Num(tail, {"receipt"})
        /\ Num(r.tail, Terminal) = Num(tail, Terminal) + 1
    BY <2>5, <2>6, <2>7, AdmitTerminal
  <2> HIDE DEF r
  <2>9. /\ q \in QState /\ q.tail = r.tail /\ q.failed = r.failed /\ q.refused = r.refused
        /\ q.end = "closed"
    BY <2>8 DEF QState, EndStage
  <2> HIDE DEF q
  <2>10. Places(q, records)
    <3>1. refused \cap Terminal = {}
      BY DEF Places
    <3>. QED  BY <2>2, <2>5, <2>6, <2>8, <2>9, <3>1 DEF Places
  <2>11. /\ tail # <<>> => q.tail # <<>> /\ Head(q.tail) = Head(tail)
         /\ Num(q.tail, {"receipt"}) = Num(tail, {"receipt"})
    BY <2>8, <2>9 DEF Grew
  <2>12. /\ StreamTyped' /\ StreamInv' /\ failed' = q.failed
         /\ tail' = q.tail /\ refused' = q.refused /\ end' = q.end
         /\ ~failed' => cursor' = cursor /\ published' = published
    BY <1>0, <2>1, <2>8, <2>9, BecomeOK
  <2>13. ReceiptInv' /\ HeadInv' /\ AnnounceInv'
    BY <1>0, <2>8, <2>9, <2>11, <2>12 DEF ReceiptInv, HeadInv, AnnounceInv
  <2>. QED  BY <1>0, <2>1, <2>9, <2>10, <2>12, <2>13, InvariantAgain
<1>. QED  BY <1>1, <1>2

LEMMA EndClosedKeeps ==
  ASSUME EventsAssumption, EventsInv, EndClosed
  PROVE  EventsInv'
<1>. USE NowIsFine
<1> DEFINE q == [Now EXCEPT !.end = "drain"]
<1>1. /\ closed' \in BOOLEAN /\ end' = "drain" /\ UNCHANGED <<evidence, stream, withdrawn, sealed>>
  BY DEF EndClosed
<1>2. /\ q \in QState /\ q.tail = tail /\ q.failed = failed /\ q.refused = refused
      /\ q.end = "drain"
  BY DEF QState, EndStage
<1> HIDE DEF q
<1>3. Places(q, records)
  BY <1>2 DEF Places
<1>4. /\ StreamTyped' /\ StreamInv' /\ ReceiptInv' /\ HeadInv' /\ AnnounceInv'
  BY <1>1
  DEF StreamTyped, StreamInv, CursorInv, SubsInv, ReceiptInv, HeadInv, AnnounceInv, stream, evidence
<1>. QED  BY <1>1, <1>2, <1>3, <1>4, InvariantAgain DEF evidence

LEMMA EndDrainedKeeps ==
  ASSUME EventsAssumption, EventsInv, EndDrained
  PROVE  EventsInv'
<1>. USE NowIsFine
<1>0. UNCHANGED <<inflight, records, durable, closed, withdrawn, sealed>>
  BY DEF EndDrained
<1>1. \E f \in BOOLEAN : (failed => f) /\ Become([Now EXCEPT !.failed = f, !.end = "finalizing"])
  <2>1. CASE tail = <<>> /\ records = 0
    <3>1. end' = "finalizing" /\ UNCHANGED <<tail, failed, refused, stream>>
      BY <2>1 DEF EndDrained
    <3>2. Become([Now EXCEPT !.failed = failed, !.end = "finalizing"])
      BY <3>1 DEF Become, QState
    <3>. QED  BY <3>2
  <2>2. CASE ~(tail = <<>> /\ records = 0)
    <3>1. Become([Now EXCEPT !.failed = TRUE, !.end = "finalizing"])
      BY <2>2 DEF EndDrained
    <3>. QED  BY <3>1
  <2>. QED  BY <2>1, <2>2
<1>2. PICK f \in BOOLEAN : (failed => f) /\ Become([Now EXCEPT !.failed = f, !.end = "finalizing"])
  BY <1>1
<1> DEFINE q == [Now EXCEPT !.failed = f, !.end = "finalizing"]
<1>3. /\ q \in QState /\ q.tail = tail /\ q.failed = f /\ q.refused = refused
      /\ q.end = "finalizing"
  BY DEF QState, EndStage
<1>4. Become(q)
  BY <1>2
<1> HIDE DEF q
<1>5. Places(q, records)
  BY <1>3 DEF Places
<1>6. /\ StreamTyped' /\ StreamInv' /\ failed' = q.failed
      /\ tail' = q.tail /\ refused' = q.refused /\ end' = q.end
      /\ ~failed' => cursor' = cursor /\ published' = published
  BY <1>0, <1>2, <1>3, <1>4, BecomeOK
<1>7. ReceiptInv' /\ HeadInv' /\ AnnounceInv'
  BY <1>0, <1>2, <1>3, <1>6 DEF ReceiptInv, HeadInv, AnnounceInv
<1>. QED  BY <1>0, <1>3, <1>5, <1>6, <1>7, InvariantAgain

LEMMA FinalizeKeeps ==
  ASSUME EventsAssumption, EventsInv, Finalize
  PROVE  EventsInv'
<1>. USE NowIsFine
<1>0. /\ sealed' \in BOOLEAN /\ UNCHANGED <<inflight, records, durable, closed, withdrawn>>
  BY DEF Finalize
<1>1. CASE failed
  <2> DEFINE q == [Now EXCEPT !.end = "done"]
             e == [kind |-> "session_closed", cursor |-> cursor + 1]
  <2>1. /\ end' = "done" /\ cursor' = cursor + 1 /\ published' = Append(published, e)
        /\ subs' = [s \in Subscriber |-> Closed(Offered(subs[s], cursor + 1))]
        /\ UNCHANGED <<tail, failed, refused>>
    BY <1>1 DEF Finalize
  <2>2. /\ q \in QState /\ q.tail = tail /\ q.failed = failed /\ q.refused = refused
        /\ q.end = "done"
    BY DEF QState, EndStage
  <2>3. /\ e \in Event /\ e.kind = "session_closed" /\ e.cursor = cursor + 1 /\ cursor + 1 \in Nat
        /\ cursor \in Nat /\ published \in Seq(Event)
    BY DEF Event, Kind, StreamTyped
  <2> HIDE DEF q, e
  <2>4. Places(q, records)
    BY <2>2 DEF Places
  <2>5. /\ published' \in Seq(Event) /\ Len(published') = Len(published) + 1
        /\ DOMAIN published' = DOMAIN published \cup {Len(published) + 1}
        /\ \A i \in DOMAIN published : published'[i] = published[i]
        /\ published'[Len(published) + 1] = e
    BY <2>1, <2>3, AppendIs
  <2>6. CursorInv'
    BY <2>1, <2>3, <2>5 DEF StreamInv, CursorInv
  <2>7. LogInv(published', durable', failed')
    BY <1>0, <2>1, <2>3, LogEnds DEF StreamInv
  <2>8. Ended(published', cursor + 1)
    BY <2>1, <2>3, EndedAppend DEF EndKind
  <2>9. \A s \in Subscriber :
          LET c == Closed(Offered(subs[s], cursor + 1))
          IN Bounded(c) /\ SubOK(c, cursor + 1, published')
    <3> TAKE s \in Subscriber
    <3>1. Bounded(subs[s]) /\ SubOK(subs[s], cursor, published)
      BY DEF StreamTyped, StreamInv, SubsInv, Bounded
    <3>2. LET o == Offered(subs[s], cursor + 1) IN Bounded(o) /\ SubOK(o, cursor + 1, published')
      BY <2>1, <2>3, <3>1, OfferedOK
    <3>. QED  BY <2>3, <2>5, <2>8, <3>2, ClosedOK
  <2>10. SubsInv'
    BY <2>1, <2>9 DEF SubsInv
  <2>11. StreamTyped'
    BY <2>1, <2>3, <2>5, <2>9 DEF StreamTyped, Bounded
  <2>12. StreamInv'
    BY <2>6, <2>7, <2>10 DEF StreamInv
  <2>13. ReceiptInv' /\ HeadInv' /\ AnnounceInv'
    BY <1>0, <1>1, <2>1 DEF ReceiptInv, HeadInv, AnnounceInv
  <2>. QED  BY <1>0, <2>1, <2>2, <2>4, <2>11, <2>12, <2>13, InvariantAgain
<1>2. CASE ~failed
  <2> DEFINE r == Admit(Now, "session_closed")
             q == [r EXCEPT !.end = "announce"]
  <2>1. Become(q)
    BY <1>2 DEF Finalize
  <2>2. "session_closed" \in Kind /\ "session_closed" \in Low \cup {"receipt"}
        /\ "session_closed" # "receipt"
    BY DEF Kind, Low
  <2>3. Fine(r)
    BY <2>2, AdmitIsFine
  <2>n. Now \in QState /\ Fine(Now) /\ Now.tail = tail
    OBVIOUS
  <2>4. /\ Grew(Now, r) /\ SameReceipt(Now, r)
        /\ (r.tail = Append(tail, "session_closed") \/ r.failed)
    <3>1. CASE Fits(Now, "session_closed")
      <4>1. /\ Grew(Now, Admit(Now, "session_closed"))
            /\ SameReceipt(Now, Admit(Now, "session_closed"))
            /\ Admit(Now, "session_closed").tail = Append(Now.tail, "session_closed")
        BY <2>n, <2>2, <3>1, AdmitGrows
      <4>. QED  BY <2>n, <4>1
    <3>2. CASE ~Fits(Now, "session_closed")
      <4>1. /\ Grew(Now, Admit(Now, "session_closed"))
            /\ SameReceipt(Now, Admit(Now, "session_closed"))
            /\ Admit(Now, "session_closed").failed
        BY <2>n, <2>2, <3>2, AdmitGrows
      <4>. QED  BY <4>1
    <3>. QED  BY <3>1, <3>2
  <2> HIDE DEF r
  <2>5. r.failed \/ Contains(r.tail, "session_closed")
    <3>1. Contains(Append(tail, "session_closed"), "session_closed")
      BY <2>2, AppendContains
    <3>. QED  BY <2>4, <3>1
  <2>6. /\ q \in QState /\ q.tail = r.tail /\ q.failed = r.failed /\ q.refused = r.refused
        /\ q.end = "announce" /\ q.failed \in BOOLEAN
    BY <2>3 DEF Fine, QState, EndStage
  <2> HIDE DEF q
  <2>7. Places(q, records)
    BY <2>3, <2>6 DEF Fine, Places
  <2>8. /\ StreamTyped' /\ StreamInv' /\ failed' = q.failed
        /\ tail' = q.tail /\ refused' = q.refused /\ end' = q.end
        /\ ~failed' => cursor' = cursor /\ published' = published
    BY <1>0, <1>2, <2>1, <2>6, BecomeOK
  <2>9. /\ tail # <<>> => q.tail # <<>> /\ Head(q.tail) = Head(tail)
        /\ Num(q.tail, {"receipt"}) = Num(tail, {"receipt"})
        /\ ("receipt" \in q.refused <=> "receipt" \in refused)
    BY <2>4, <2>6 DEF Grew, SameReceipt
  <2>10. ReceiptInv' /\ HeadInv' /\ AnnounceInv'
    BY <1>0, <1>2, <2>5, <2>6, <2>8, <2>9 DEF ReceiptInv, HeadInv, AnnounceInv
  <2>. QED  BY <1>0, <2>6, <2>7, <2>8, <2>10, InvariantAgain
<1>. QED  BY <1>1, <1>2

LEMMA EndAnnouncedKeeps ==
  ASSUME EventsAssumption, EventsInv, EndAnnounced
  PROVE  EventsInv'
<1>. USE NowIsFine
<1> DEFINE q == [Now EXCEPT !.end = "done"]
<1>0. /\ end = "announce" /\ Settled("session_closed") /\ end' = "done"
      /\ subs' = [s \in Subscriber |-> Closed(subs[s])]
      /\ UNCHANGED <<evidence, cursor, published, closed, withdrawn, sealed>>
  BY DEF EndAnnounced
<1>1. /\ q \in QState /\ q.tail = tail /\ q.failed = failed /\ q.refused = refused /\ q.end = "done"
  BY DEF QState, EndStage
<1> HIDE DEF q
<1>2. Places(q, records)
  BY <1>1 DEF Places
<1>3. \E i \in DOMAIN published : published[i].kind \in EndKind
  <2>1. CASE failed
    BY <2>1 DEF StreamInv, LogInv, EndKind
  <2>2. CASE ~failed
    BY <1>0, <2>2 DEF AnnounceInv, Settled, EndKind
  <2>. QED  BY <2>1, <2>2
<1>4. Ended(published, cursor)
  <2>1. PICK i \in DOMAIN published : published[i].kind \in EndKind
    BY <1>3
  <2>2. published \in Seq(Event) /\ Len(published) = cursor /\ published[i].cursor = i
    BY DEF StreamTyped, StreamInv, CursorInv
  <2>3. i <= cursor
    BY <2>2
  <2>. QED  BY <2>1, <2>2, <2>3 DEF Ended
<1>5. \A s \in Subscriber : Bounded(Closed(subs[s])) /\ SubOK(Closed(subs[s]), cursor, published)
  BY <1>4, ClosedOK DEF StreamTyped, StreamInv, SubsInv, Bounded
<1>6. SubsInv'
  BY <1>0, <1>5 DEF SubsInv
<1>7. StreamTyped'
  BY <1>0, <1>5 DEF StreamTyped, Bounded
<1>8. StreamInv'
  BY <1>0, <1>6 DEF StreamInv, CursorInv, evidence
<1>9. ReceiptInv' /\ HeadInv' /\ AnnounceInv'
  BY <1>0 DEF ReceiptInv, HeadInv, AnnounceInv, evidence
<1>. QED  BY <1>0, <1>1, <1>2, <1>7, <1>8, <1>9, InvariantAgain DEF evidence

\* The history is the end of what was published, and not empty after the first event.
LEMMA HistoryIs ==
  ASSUME EventsAssumption, StreamTyped, CursorInv
  PROVE  \E b \in Nat :
           /\ b <= cursor /\ (b = 0 \/ (b < cursor /\ cursor - b = HistoryLimit))
           /\ Len(History) = cursor - b /\ Len(History) <= HistoryLimit
           /\ DOMAIN History = 1 .. cursor - b
           /\ \A j \in 1 .. cursor - b : History[j].cursor = b + j
           /\ History # <<>> => Head(History).cursor = b + 1
           /\ History = <<>> => cursor = b
<1> DEFINE b == IF cursor > HistoryLimit THEN cursor - HistoryLimit ELSE 0
           h == SubSeq(published, b + 1, cursor)
<1>1. /\ cursor \in Nat /\ published \in Seq(Event) /\ Len(published) = cursor
      /\ HistoryLimit \in Nat /\ HistoryLimit > 0
      /\ \A i \in 1 .. cursor : published[i].cursor = i
  BY DEF StreamTyped, CursorInv, EventsAssumption
<1>2. b \in Nat /\ b <= cursor /\ (b = 0 \/ (b < cursor /\ cursor - b = HistoryLimit))
      /\ cursor - b <= HistoryLimit
      /\ cursor - b \in Nat
  BY <1>1
<1>3. History = h
  <2>1. (IF Len(published) > HistoryLimit THEN Len(published) - HistoryLimit + 1 ELSE 1) = b + 1
    BY <1>1
  <2>. QED  BY <1>1, <2>1 DEF History
<1> HIDE DEF b
<1>4. /\ Len(h) = cursor - b
      /\ h \in Seq(Event) /\ \A j \in 1 .. cursor - b : h[j] = published[b + j]
  <2>1. b + 1 \in 1 .. cursor + 1 /\ cursor \in b .. cursor
    BY <1>1, <1>2
  <2>2. \A i \in b + 1 .. cursor : published[i] \in Event
    BY <1>1, <1>2, ElementOfSeq
  <2>3. b + 1 \in Int /\ cursor \in Int
    BY <1>1, <1>2
  <2>4. /\ h \in Seq(Event) /\ Len(h) = IF b + 1 <= cursor THEN cursor - (b + 1) + 1 ELSE 0
        /\ \A i \in 1 .. cursor - (b + 1) + 1 : h[i] = published[b + 1 + i - 1]
    BY <1>1, <2>2, <2>3, SubSeqProperties
  <2>5. cursor - (b + 1) + 1 = cursor - b
    BY <1>1, <1>2
  <2>6. Len(h) = cursor - b
    BY <1>1, <1>2, <2>4, <2>5
  <2>7. \A j \in 1 .. cursor - b : b + 1 + j - 1 = b + j
    BY <1>1, <1>2
  <2>. QED  BY <2>4, <2>5, <2>6, <2>7
<1>5. DOMAIN h = 1 .. cursor - b
  BY <1>4
<1>6. \A j \in 1 .. cursor - b : h[j].cursor = b + j
  <2> TAKE j \in 1 .. cursor - b
  <2>1. b + j \in 1 .. cursor
    BY <1>1, <1>2
  <2>. QED  BY <1>1, <1>4, <2>1
<1>7. h # <<>> => Head(h).cursor = b + 1
  <2> HAVE h # <<>>
  <2>1. Len(h) # 0 /\ Head(h) = h[1]
    BY <1>4, EmptySeq, HeadTailProperties
  <2>2. 1 \in 1 .. cursor - b
    BY <1>2, <1>4, <2>1
  <2>. QED  BY <1>6, <2>1, <2>2
<1>8. h = <<>> => cursor = b
  BY <1>1, <1>2, <1>4
<1> HIDE DEF h
<1>. QED  BY <1>2, <1>3, <1>4, <1>5, <1>6, <1>7, <1>8

\* A subscriber without a gap gets everything behind its last event.
LEMMA BehindIs ==
  ASSUME EventsAssumption, StreamTyped, CursorInv, NEW c \in Nat, c <= cursor,
         History # <<>> => ~(c < Head(History).cursor - 1)
  PROVE  /\ Behind(c) \in Seq(Nat) /\ Len(Behind(c)) = cursor - c /\ cursor - c <= HistoryLimit
         /\ DOMAIN Behind(c) = 1 .. cursor - c /\ \A i \in 1 .. cursor - c : Behind(c)[i] = c + i
<1>1. PICK b \in Nat :
        /\ b <= cursor /\ (b = 0 \/ (b < cursor /\ cursor - b = HistoryLimit))
        /\ Len(History) = cursor - b /\ Len(History) <= HistoryLimit
        /\ DOMAIN History = 1 .. cursor - b
        /\ \A j \in 1 .. cursor - b : History[j].cursor = b + j
        /\ History # <<>> => Head(History).cursor = b + 1
        /\ History = <<>> => cursor = b
  BY HistoryIs
<1>2. cursor \in Nat /\ HistoryLimit \in Nat
  BY DEF StreamTyped, EventsAssumption
<1>3. c >= b
  <2>1. CASE History = <<>>
    BY <1>1, <1>2, <2>1
  <2>2. CASE History # <<>>
    BY <1>1, <1>2, <2>2
  <2>. QED  BY <2>1, <2>2
<1> DEFINE n == Len(History)
           P(i) == \A j \in DOMAIN History : j >= i <=> History[j].cursor > c
           first == CHOOSE i \in 1 .. n + 1 : P(i)
           f == c - b + 1
<1>4. n = cursor - b /\ n \in Nat /\ f \in 1 .. n + 1
  BY <1>1, <1>2, <1>3
<1>5. \A j \in DOMAIN History : j \in Nat /\ j \in 1 .. n /\ (History[j].cursor > c <=> j >= f)
  <2> TAKE j \in DOMAIN History
  <2>1. j \in 1 .. cursor - b /\ History[j].cursor = b + j
    BY <1>1
  <2>2. b + j > c <=> j >= c - b + 1
    BY <1>2, <1>3, <2>1
  <2>. QED  BY <1>2, <1>4, <2>1, <2>2
<1>6. P(f)
  BY <1>5
<1>7. first \in 1 .. n + 1 /\ P(first)
  BY <1>4, <1>6
<1>8. first = f
  <2> HIDE DEF first, f
  <2>1. first \in Nat /\ f \in Nat /\ first <= n + 1 /\ f <= n + 1 /\ first >= 1 /\ f >= 1
    BY <1>4, <1>7
  <2>2. \A j \in 1 .. n : j >= first <=> j >= f
    BY <1>1, <1>4, <1>5, <1>7
  <2>3. CASE first < f
    <3>1. first \in 1 .. n
      BY <1>4, <2>1, <2>3
    <3>. QED  BY <2>1, <2>2, <2>3, <3>1
  <2>4. CASE f < first
    <3>1. f \in 1 .. n
      BY <1>4, <2>1, <2>4
    <3>. QED  BY <2>1, <2>2, <2>4, <3>1
  <2>. QED  BY <2>1, <2>3, <2>4
<1>9. Behind(c) = [i \in 1 .. n + 1 - first |-> History[first + i - 1].cursor]
  BY DEF Behind
<1> HIDE DEF first, P
<1>10. n + 1 - first = cursor - c /\ cursor - c \in Nat /\ cursor - c <= HistoryLimit
  BY <1>1, <1>2, <1>3, <1>4, <1>8
<1>11. \A i \in 1 .. cursor - c : History[first + i - 1].cursor = c + i /\ c + i \in Nat
  <2> TAKE i \in 1 .. cursor - c
  <2>1. first + i - 1 = c - b + i /\ c - b + i \in 1 .. cursor - b /\ b + (c - b + i) = c + i
    BY <1>2, <1>3, <1>8, <1>10
  <2>. QED  BY <1>1, <2>1
<1>12. Behind(c) = [i \in 1 .. cursor - c |-> History[first + i - 1].cursor]
  BY <1>9, <1>10
<1> DEFINE m == cursor - c
           w == Behind(c)
<1>13. m \in Nat /\ w = [i \in 1 .. m |-> History[first + i - 1].cursor]
       /\ \A i \in 1 .. m : History[first + i - 1].cursor \in Nat
  BY <1>10, <1>11, <1>12
<1> HIDE DEF m, w
<1>14. w \in Seq(Nat) /\ Len(w) = m /\ DOMAIN w = 1 .. m
  BY <1>13
<1>15. \A i \in 1 .. m : w[i] = History[first + i - 1].cursor
  BY <1>13
<1>. QED  BY <1>10, <1>11, <1>14, <1>15 DEF m, w

\* A subscriber of its own may change while nothing else does.
LEMMA SubscriberKeeps ==
  ASSUME EventsAssumption, EventsInv, Others, NEW s \in Subscriber, NEW sub,
         subs' = [subs EXCEPT ![s] = sub], Bounded(sub), SubOK(sub, cursor, published)
  PROVE  EventsInv'
<1>. USE NowIsFine
<1>1. UNCHANGED <<evidence, cursor, published, ending>>
  BY DEF Others
<1>2. subs \in [Subscriber -> Sub]
  BY DEF StreamTyped
<1>3. \A z \in Subscriber : subs'[z] = IF z = s THEN sub ELSE subs[z]
  BY <1>2
<1>4. \A z \in Subscriber : Bounded(subs'[z]) /\ SubOK(subs'[z], cursor, published)
  BY <1>3 DEF StreamTyped, StreamInv, SubsInv, Bounded
<1>5. subs' \in [Subscriber -> Sub]
  BY <1>2 DEF Bounded
<1>6. StreamTyped' /\ StreamInv'
  BY <1>1, <1>4, <1>5 DEF StreamTyped, StreamInv, CursorInv, SubsInv, Bounded, evidence
<1>7. ReceiptInv' /\ HeadInv' /\ AnnounceInv'
  BY <1>1 DEF ReceiptInv, HeadInv, AnnounceInv, evidence, ending
<1>. QED  BY <1>1, <1>6, <1>7, InvariantAgain DEF evidence, ending

LEMMA SubIs ==
  ASSUME EventsInv, NEW s \in Subscriber
  PROVE  /\ Bounded(subs[s]) /\ SubOK(subs[s], cursor, published) /\ cursor \in Nat
         /\ subs[s] \in Sub /\ subs[s].queue \in Seq(Nat) /\ Len(subs[s].queue) \in Nat
         /\ subs[s].last \in Nat /\ subs[s].got \in Nat /\ subs[s].state \in SubState
         /\ subs[s].waiting \in BOOLEAN /\ subs[s].late \in BOOLEAN
<1>1. subs[s] \in Sub /\ Len(subs[s].queue) <= HistoryLimit /\ cursor \in Nat
  BY NowIsFine DEF StreamTyped
<1>2. SubOK(subs[s], cursor, published)
  BY NowIsFine DEF StreamInv, SubsInv
<1>. QED  BY <1>1, <1>2 DEF Bounded, Sub

LEMMA SubscribeKeeps ==
  ASSUME EventsAssumption, EventsInv, NEW s \in Subscriber, Subscribe(s)
  PROVE  EventsInv'
<1> DEFINE sub == subs[s]
           w == Behind(sub.last)
<1>0. /\ Bounded(sub) /\ SubOK(sub, cursor, published) /\ cursor \in Nat
      /\ sub \in Sub /\ sub.queue \in Seq(Nat) /\ sub.last \in Nat /\ sub.got \in Nat
      /\ sub.state \in SubState /\ sub.waiting \in BOOLEAN /\ sub.late \in BOOLEAN
  BY SubIs
<1>1. Others /\ sub.state \in {"off", "error"}
  BY DEF Subscribe
<1>2. sub.queue = <<>> /\ sub.waiting = FALSE /\ sub.last <= cursor /\ sub.got = sub.last
  <2>1. Len(<<>>) = 0
    OBVIOUS
  <2>. QED  BY <1>0, <1>1, <2>1 DEF SubOK
<1>3. CASE History # <<>> /\ sub.last < Head(History).cursor - 1
  <2> DEFINE r == [sub EXCEPT !.state = "gap"]
  <2>1. subs' = [subs EXCEPT ![s] = r]
    BY <1>3 DEF Subscribe
  <2> HIDE DEF sub
  <2>2. /\ r \in Sub /\ r.state = "gap" /\ r.queue = sub.queue /\ r.last = sub.last
        /\ r.got = sub.got /\ r.waiting = sub.waiting
    BY <1>0 DEF Sub, SubState
  <2> HIDE DEF r
  <2>3. Bounded(r) /\ SubOK(r, cursor, published)
    BY <1>0, <1>2, <2>2 DEF Bounded, SubOK
  <2>. QED  BY <1>1, <2>1, <2>3, SubscriberKeeps
<1>4. CASE ~(History # <<>> /\ sub.last < Head(History).cursor - 1)
  <2> DEFINE r == [sub EXCEPT !.state = IF closed THEN "draining" ELSE "live",
                              !.queue = w, !.late = closed]
  <2>1. subs' = [subs EXCEPT ![s] = r]
    BY <1>4 DEF Subscribe
  <2> HIDE DEF sub, w
  <2>2. /\ w \in Seq(Nat) /\ Len(w) = cursor - sub.last /\ cursor - sub.last <= HistoryLimit
        /\ DOMAIN w = 1 .. cursor - sub.last
        /\ \A i \in 1 .. cursor - sub.last : w[i] = sub.last + i
    <3>1. StreamTyped /\ CursorInv
      BY NowIsFine DEF StreamInv
    <3>. QED  BY <1>0, <1>2, <1>4, <3>1, BehindIs DEF w
  <2>3. closed \in BOOLEAN
    BY NowIsFine
  <2>4. /\ r \in Sub /\ r.state = (IF closed THEN "draining" ELSE "live") /\ r.queue = w
        /\ r.last = sub.last /\ r.got = sub.got /\ r.waiting = sub.waiting /\ r.late = closed
    BY <1>0, <2>2, <2>3 DEF Sub, SubState
  <2> HIDE DEF r
  <2>5. sub.last + Len(w) = cursor
    <3>1. Len(w) = cursor - sub.last /\ sub.last \in Nat /\ cursor \in Nat
      BY <1>0, <2>2
    <3>. QED  BY <3>1
  <2>6. Bounded(r)
    BY <2>2, <2>4 DEF Bounded
  <2>7. SubOK(r, cursor, published)
    <3>1. \A i \in DOMAIN w : w[i] = sub.last + i
      BY <2>2
    <3>2. sub.last + Len(w) <= cursor
      BY <1>0, <2>5
    <3> HIDE DEF w
    <3>. QED  BY <1>2, <2>3, <2>4, <2>5, <3>1, <3>2 DEF SubOK
  <2>. QED  BY <1>1, <2>1, <2>6, <2>7, SubscriberKeeps
<1>. QED  BY <1>3, <1>4

LEMMA NextEventKeeps ==
  ASSUME EventsAssumption, EventsInv, NEW s \in Subscriber, NextEvent(s)
  PROVE  EventsInv'
<1> DEFINE sub == subs[s]
           taken == [Given(sub, Head(sub.queue)) EXCEPT !.queue = Tail(@)]
           erred == [sub EXCEPT !.state = "error"]
           over == [sub EXCEPT !.state = "done"]
           waits == [sub EXCEPT !.waiting = TRUE]
<1>0. /\ Bounded(sub) /\ SubOK(sub, cursor, published) /\ cursor \in Nat
      /\ sub \in Sub /\ sub.queue \in Seq(Nat) /\ Len(sub.queue) \in Nat
      /\ sub.last \in Nat /\ sub.got \in Nat
      /\ sub.state \in SubState /\ sub.waiting \in BOOLEAN /\ sub.late \in BOOLEAN
  BY SubIs
<1>1. Others /\ sub.state \in {"live", "draining", "overflow"} /\ ~sub.waiting
  BY DEF NextEvent
<1>2. CASE sub.queue # <<>>
  <2> DEFINE h == Head(sub.queue)
             t == Tail(sub.queue)
             g == Given(sub, h)
             r == [g EXCEPT !.queue = Tail(@)]
  <2>1. subs' = [subs EXCEPT ![s] = r]
    <3>1. sub.state # "overflow"
      BY <1>0, <1>2 DEF SubOK
    <3>. QED  BY <1>2, <3>1 DEF NextEvent
  <2> HIDE DEF sub
  <2>2. /\ h \in Nat /\ t \in Seq(Nat) /\ Len(t) = Len(sub.queue) - 1 /\ Len(sub.queue) > 0
        /\ h = sub.queue[1] /\ \A i \in 1 .. Len(t) : t[i] = sub.queue[i + 1]
        /\ DOMAIN sub.queue = 1 .. Len(sub.queue) /\ DOMAIN t = 1 .. Len(t) /\ Len(t) \in Nat
    <3>1. /\ h \in Nat /\ t \in Seq(Nat) /\ Len(t) = Len(sub.queue) - 1
          /\ \A i \in 1 .. Len(t) : t[i] = sub.queue[i + 1]
      BY <1>0, <1>2, HeadTailProperties
    <3>2. Len(sub.queue) # 0 /\ h = sub.queue[1]
      BY <1>0, <1>2, EmptySeq
    <3>3. DOMAIN sub.queue = 1 .. Len(sub.queue)
      BY <1>0
    <3> HIDE DEF h, t
    <3>4. DOMAIN t = 1 .. Len(t) /\ Len(t) \in Nat
      BY <3>1
    <3>. QED  BY <1>0, <3>1, <3>2, <3>3, <3>4
  <2>3. /\ g \in Sub /\ g.state = sub.state /\ g.queue = sub.queue /\ g.last = h
        /\ g.got = sub.got + 1 /\ g.waiting = sub.waiting /\ g.late = sub.late
    <3>1. sub.got + 1 \in Nat
      BY <1>0
    <3> HIDE DEF h
    <3>. QED  BY <1>0, <2>2, <3>1 DEF Given, Sub
  <2> HIDE DEF h, g
  <2>4. /\ r \in Sub /\ r.state = sub.state /\ r.queue = t /\ r.last = h
        /\ r.got = sub.got + 1 /\ r.waiting = sub.waiting /\ r.late = sub.late
    BY <2>2, <2>3 DEF Sub
  <2> HIDE DEF r, t
  <2>5. h = sub.last + 1 /\ sub.got + 1 = h
    <3>1. 1 \in DOMAIN sub.queue
      BY <1>0, <2>2
    <3>2. sub.queue[1] = sub.last + 1 /\ sub.got = sub.last
      BY <1>0, <3>1 DEF SubOK
    <3>. QED  BY <2>2, <3>2
  <2>6. h + Len(t) = sub.last + Len(sub.queue)
    <3> DEFINE n == Len(sub.queue)
               m == Len(t)
    <3>1. m = n - 1 /\ n \in Nat /\ m \in Nat /\ sub.last \in Nat /\ h = sub.last + 1
      BY <1>0, <2>2, <2>5
    <3> HIDE DEF n, m
    <3>2. h + m = sub.last + n
      BY <3>1
    <3>. QED  BY <3>2 DEF n, m
  <2>7. \A i \in DOMAIN t : t[i] = h + i
    <3> TAKE i \in DOMAIN t
    <3>1. i \in 1 .. Len(t) /\ i \in Nat /\ i + 1 \in DOMAIN sub.queue
      <4>1. i \in 1 .. Len(t) /\ i \in Nat
        BY <2>2
      <4>2. i + 1 \in 1 .. Len(sub.queue)
        <5> DEFINE n == Len(sub.queue)
                   m == Len(t)
        <5>1. m = n - 1 /\ n \in Nat /\ m \in Nat /\ i \in 1 .. m
          BY <1>0, <2>2, <4>1
        <5> HIDE DEF n, m
        <5>2. i + 1 \in 1 .. n
          BY <5>1
        <5>. QED  BY <5>2 DEF n
      <4>. QED  BY <2>2, <4>1, <4>2
    <3>2. t[i] = sub.last + (i + 1)
      <4>1. \A j \in DOMAIN sub.queue : sub.queue[j] = sub.last + j
        BY <1>0 DEF SubOK
      <4>. QED  BY <2>2, <3>1, <4>1
    <3>3. sub.last + (i + 1) = h + i
      <4> DEFINE n == sub.last
      <4>1. h = n + 1 /\ n \in Nat /\ i \in Nat
        BY <1>0, <2>5, <3>1
      <4> HIDE DEF n
      <4>2. n + (i + 1) = h + i
        BY <4>1
      <4>. QED  BY <4>2 DEF n
    <3>. QED  BY <3>2, <3>3
  <2>8. Bounded(r)
    BY <1>0, <2>2, <2>4 DEF Bounded, EventsAssumption
  <2>9. SubOK(r, cursor, published)
    BY <1>1, <1>2, <2>4, <2>5, <2>6, <2>7, <1>0 DEF SubOK
  <2>. QED  BY <1>1, <2>1, <2>8, <2>9, SubscriberKeeps
<1>3. CASE sub.queue = <<>> /\ sub.state = "overflow"
  <2>1. subs' = [subs EXCEPT ![s] = erred]
    BY <1>3 DEF NextEvent
  <2> HIDE DEF sub
  <2>2. /\ erred \in Sub /\ erred.state = "error" /\ erred.queue = sub.queue /\ erred.last = sub.last
        /\ erred.got = sub.got /\ erred.waiting = sub.waiting
    BY <1>0 DEF Sub, SubState
  <2> HIDE DEF erred
  <2>3. Bounded(erred) /\ SubOK(erred, cursor, published)
    BY <1>0, <1>1, <1>3, <2>2 DEF Bounded, SubOK
  <2>. QED  BY <1>1, <2>1, <2>3, SubscriberKeeps
<1>4. CASE sub.queue = <<>> /\ sub.state = "draining"
  <2>1. subs' = [subs EXCEPT ![s] = over]
    BY <1>4 DEF NextEvent
  <2> HIDE DEF sub
  <2>2. /\ over \in Sub /\ over.state = "done" /\ over.queue = sub.queue /\ over.last = sub.last
        /\ over.got = sub.got /\ over.waiting = sub.waiting /\ over.late = sub.late
    BY <1>0 DEF Sub, SubState
  <2> HIDE DEF over
  <2>3. Bounded(over) /\ SubOK(over, cursor, published)
    BY <1>0, <1>1, <1>4, <2>2 DEF Bounded, SubOK
  <2>. QED  BY <1>1, <2>1, <2>3, SubscriberKeeps
<1>5. CASE sub.queue = <<>> /\ sub.state = "live"
  <2>1. subs' = [subs EXCEPT ![s] = waits]
    BY <1>5 DEF NextEvent
  <2> HIDE DEF sub
  <2>2. /\ waits \in Sub /\ waits.state = "live" /\ waits.queue = sub.queue
        /\ waits.last = sub.last /\ waits.got = sub.got /\ waits.late = sub.late
    BY <1>0, <1>5 DEF Sub
  <2> HIDE DEF waits
  <2>3. Bounded(waits) /\ SubOK(waits, cursor, published)
    BY <1>0, <1>5, <2>2 DEF Bounded, SubOK
  <2>. QED  BY <1>1, <2>1, <2>3, SubscriberKeeps
<1>. QED  BY <1>1, <1>2, <1>3, <1>4, <1>5

LEMMA UnsubscribeKeeps ==
  ASSUME EventsAssumption, EventsInv, NEW s \in Subscriber, Unsubscribe(s)
  PROVE  EventsInv'
<1> DEFINE sub == subs[s]
           r == [sub EXCEPT !.state = "off", !.queue = <<>>, !.waiting = FALSE]
<1>0. /\ Bounded(sub) /\ SubOK(sub, cursor, published) /\ cursor \in Nat
      /\ sub \in Sub /\ sub.queue \in Seq(Nat) /\ Len(sub.queue) \in Nat /\ sub.last \in Nat
  BY SubIs
<1>1. Others /\ subs' = [subs EXCEPT ![s] = r]
  BY DEF Unsubscribe
<1> HIDE DEF sub
<1>2. /\ r \in Sub /\ r.state = "off" /\ r.queue = <<>> /\ r.last = sub.last
      /\ r.got = sub.got /\ r.waiting = FALSE
  <2>1. <<>> \in Seq(Nat)
    OBVIOUS
  <2>. QED  BY <1>0, <2>1 DEF Sub, SubState
<1> HIDE DEF r
<1>3. Len(<<>>) = 0 /\ DOMAIN <<>> = {} /\ sub.last <= cursor /\ 0 <= HistoryLimit
  BY <1>0 DEF SubOK, EventsAssumption
<1>4. Bounded(r) /\ SubOK(r, cursor, published)
  BY <1>0, <1>2, <1>3 DEF Bounded, SubOK
<1>. QED  BY <1>1, <1>4, SubscriberKeeps

-----------------------------------------------------------------------------
(***************************************************************************)
(* The invariant, and what follows from it.                                *)
(***************************************************************************)
LEMMA EventsInit ==
  ASSUME EventsAssumption, Init
  PROVE  EventsInv
<1>1. /\ tail = <<>> /\ inflight = 0 /\ records = 0 /\ failed = FALSE /\ refused = {}
      /\ cursor = 0 /\ published = <<>> /\ durable = <<>>
      /\ closed = FALSE /\ withdrawn = "no" /\ end = "none" /\ sealed = FALSE
  BY DEF Init
<1>2. Len(<<>>) = 0 /\ DOMAIN <<>> = {} /\ <<>> \in Seq(Kind) /\ <<>> \in Seq(Event)
      /\ <<>> \in Seq(Nat)
  OBVIOUS
<1>3. /\ NormalLimit \in Nat /\ PriorityLimit = NormalLimit + 2
      /\ WithdrawalLimit = NormalLimit + 3 /\ TerminalLimit = NormalLimit + 6 /\ 0 <= HistoryLimit
  BY DEF EventsAssumption, PriorityLimit, WithdrawalLimit, TerminalLimit
<1> DEFINE sub == [state |-> "off", queue |-> <<>>, last |-> 0, got |-> 0,
                   waiting |-> FALSE, late |-> FALSE]
<1>4. subs = [s \in Subscriber |-> sub]
  BY DEF Init
<1>5. /\ sub \in Sub /\ sub.queue = <<>> /\ sub.last = 0 /\ sub.got = 0 /\ sub.state = "off"
      /\ sub.waiting = FALSE
  BY <1>2 DEF Sub, SubState
<1> HIDE DEF sub
<1>6. Len(sub.queue) <= HistoryLimit /\ SubOK(sub, 0, <<>>)
  BY <1>2, <1>3, <1>5 DEF SubOK
<1>7. TypeOK
  <2>1. Len(tail) + records <= TerminalLimit
    BY <1>1, <1>2, <1>3
  <2>. QED  BY <1>1, <1>2, <1>4, <1>5, <1>6, <2>1 DEF TypeOK, EndStage
<1>8. Places(Now, records)
  <2>1. \A S : Num(<<>>, S) = 0
    BY NumEmpty
  <2>. QED  BY <1>1, <1>3, <2>1 DEF Places, Now
<1>9. ReceiptInv /\ HeadInv /\ AnnounceInv
  BY <1>1, NumEmpty DEF ReceiptInv, HeadInv, AnnounceInv
<1>10. StreamInv
  BY <1>1, <1>2, <1>4, <1>6 DEF StreamInv, CursorInv, SubsInv, LogInv
<1>. QED  BY <1>7, <1>8, <1>9, <1>10 DEF EventsInv, TailInv

LEMMA EventsStep ==
  ASSUME EventsAssumption, EventsInv, [Next]_vars
  PROVE  EventsInv'
<1>1. CASE Handle
  BY <1>1, HandleKeeps
<1>2. CASE Record
  BY <1>2, RecordKeeps
<1>3. CASE TailNext
  BY <1>3, BeginKeeps, PersistedKeeps, PersistFailsKeeps, SettlesKeeps, TimesOutKeeps DEF TailNext
<1>4. CASE EndNext
  BY <1>4, EndKeeps, WithdrawKeeps, EndClosingKeeps, EndClosedKeeps, EndDrainedKeeps, FinalizeKeeps,
     EndAnnouncedKeeps DEF EndNext
<1>5. CASE SubscriberNext
  BY <1>5, SubscribeKeeps, NextEventKeeps, UnsubscribeKeeps DEF SubscriberNext
<1>6. CASE UNCHANGED vars
  <2>1. records' \in Nat /\ records' <= records /\ Grows(Now, Now) /\ Become(Now)
    BY <1>6, NowIsFine DEF vars, evidence, stream, ending, Grows, Grew, SameReceipt, Become
  <2>2. UNCHANGED <<inflight, durable, closed, withdrawn, sealed>>
    BY <1>6 DEF vars, evidence, ending
  <2>. QED  BY <2>1, <2>2, GrowthKeeps
<1>. QED  BY <1>1, <1>2, <1>3, <1>4, <1>5, <1>6 DEF Next

\* Every subscriber that is not behind its bound has what is published, in its
\* queue or behind its last event.
LEMMA StreamFollows ==
  ASSUME EventsAssumption, EventsInv
  PROVE  NoGap /\ LiveIsRetained /\ DoneMeansEnd
<1>1. NoGap
  BY SubIs DEF NoGap, SubOK
<1>2. LiveIsRetained
  <2> SUFFICES ASSUME NEW s \in Subscriber, subs[s].state = "live", History # <<>>
               PROVE  subs[s].last >= Head(History).cursor - 1
    BY DEF LiveIsRetained
  <2>1. StreamTyped /\ CursorInv
    BY NowIsFine DEF StreamInv
  <2>2. PICK b \in Nat : /\ Len(History) = cursor - b /\ Head(History).cursor = b + 1
                         /\ (b = 0 \/ cursor - b = HistoryLimit) /\ b <= cursor
    BY <2>1, HistoryIs
  <2> DEFINE n == Len(subs[s].queue)
             l == subs[s].last
  <2>3. n \in Nat /\ l \in Nat /\ cursor \in Nat /\ l + n = cursor /\ n <= HistoryLimit
    BY SubIs DEF SubOK, Bounded
  <2> HIDE DEF n, l
  <2>4. l >= b
    BY <2>2, <2>3 DEF EventsAssumption
  <2>. QED  BY <2>2, <2>3, <2>4 DEF l
<1>3. DoneMeansEnd
  <2> SUFFICES ASSUME NEW s \in Subscriber, subs[s].state = "done", ~subs[s].late
               PROVE  \E i \in DOMAIN published :
                        published[i].kind \in {"failure", "session_closed"}
                        /\ published[i].cursor <= subs[s].last
    BY DEF DoneMeansEnd
  <2>1. subs[s].queue = <<>> /\ Ended(published, subs[s].last + Len(subs[s].queue))
    BY SubIs DEF SubOK
  <2>2. subs[s].last + Len(<<>>) = subs[s].last
    BY SubIs
  <2>. QED  BY <2>1, <2>2 DEF Ended, EndKind
<1>. QED  BY <1>1, <1>2, <1>3

LEMMA EvidenceFollows ==
  ASSUME EventsAssumption, EventsInv
  PROVE  EvidenceMatchesStream /\ FailureIsLast /\ TerminalIsAdmitted
<1>. USE NowIsFine
<1>1. EvidenceMatchesStream
  BY DEF EvidenceMatchesStream, StreamInv, LogInv, EndKind
<1>2. FailureIsLast
  BY DEF FailureIsLast, StreamInv, LogInv
<1>3. TerminalIsAdmitted
  BY DEF TerminalIsAdmitted, Places, Terminal, ReceiptInv
<1>. QED  BY <1>1, <1>2, <1>3

LEMMA EventsInvariance == Spec => []EventsInv
<1>1. Init => EventsInv
  BY EventsInit, EventsAssumption
<1>2. EventsInv /\ [Next]_vars => EventsInv'
  BY EventsStep, EventsAssumption
<1>. QED  BY <1>1, <1>2, PTL DEF Spec

\* A subscriber gets every event once and in order, over overflows, reconnects
\* and failures; one that is not behind its bound could come back with its
\* cursor; and a stream that ends without an error ends behind the last event.
\* For any subscribers, any history and any number of operations.
THEOREM StreamIsKept == Spec => []StreamHolds
<1>1. EventsInv => StreamHolds
  BY StreamFollows, EventsAssumption DEF StreamHolds, EventsInv
<1>. QED  BY <1>1, EventsInvariance, PTL

\* What is published is in the store, nothing durable is published after the
\* alert of a failure, and the operations that end a session, or withdraw from
\* one that has not begun to end, are never refused a slot.
THEOREM EvidenceIsKept == Spec => []EvidenceHolds
<1>1. EventsInv => EvidenceHolds
  BY EvidenceFollows, EventsAssumption DEF EvidenceHolds
<1>. QED  BY <1>1, EventsInvariance, PTL

-----------------------------------------------------------------------------
(***************************************************************************)
(* The queue and the commands, instances of MCRelayFlow.                   *)
(***************************************************************************)
LEMMA CapacityIs == Capacity \in Nat \ {0}
BY FlowAssumption DEF Queue!CapacityAssumption

\* An instance has the operators of the library under its own name.
LEMMA SameToSet == ASSUME NEW s PROVE Queue!ToSet(s) = ToSet(s)
BY DEF Queue!ToSet, ToSet

LEMMA SameRemoveAt == ASSUME NEW s, NEW i PROVE Queue!RemoveAt(s, i) = RemoveAt(s, i)
BY DEF Queue!RemoveAt, RemoveAt

LEMMA SameCardinality == ASSUME NEW S PROVE Commands!Cardinality(S) = Cardinality(S)
BY DEF Commands!Cardinality, Cardinality

-----------------------------------------------------------------------------
(***************************************************************************)
(* Sequences that lose one element, in their middle or at their head.      *)
(***************************************************************************)
Shorter(s, r, i) ==
  /\ Len(r) = Len(s) - 1
  /\ \A j \in 1 .. Len(r) : r[j] = IF j < i THEN s[j] ELSE s[j + 1]

LEMMA RemoveAtShorter ==
  ASSUME NEW S, NEW s \in Seq(S), NEW i \in 1 .. Len(s)
  PROVE  RemoveAt(s, i) \in Seq(S) /\ Shorter(s, RemoveAt(s, i), i)
<1> DEFINE a == SubSeq(s, 1, i - 1)
           b == SubSeq(s, i + 1, Len(s))
<1>1. a \in Seq(S) /\ Len(a) = i - 1 /\ \A j \in 1 .. i - 1 : a[j] = s[j]
  BY SubSeqProperties
<1>2. b \in Seq(S) /\ Len(b) = Len(s) - i /\ \A j \in 1 .. Len(s) - i : b[j] = s[i + j]
  BY SubSeqProperties
<1> HIDE DEF a, b
<1>3. /\ a \o b \in Seq(S) /\ Len(a \o b) = Len(s) - 1
      /\ \A j \in 1 .. Len(s) - 1 : (a \o b)[j] = IF j <= i - 1 THEN a[j] ELSE b[j - (i - 1)]
  <2>1. /\ a \o b \in Seq(S) /\ Len(a \o b) = Len(a) + Len(b)
        /\ \A j \in 1 .. Len(a) + Len(b) :
             (a \o b)[j] = IF j <= Len(a) THEN a[j] ELSE b[j - Len(a)]
    BY <1>1, <1>2, ConcatProperties
  <2>2. Len(a) = i - 1 /\ Len(a) + Len(b) = Len(s) - 1
    BY <1>1, <1>2
  <2> QED BY <2>1, <2>2
<1>4. \A j \in 1 .. Len(s) - 1 : (a \o b)[j] = IF j < i THEN s[j] ELSE s[j + 1]
  <2> SUFFICES ASSUME NEW j \in 1 .. Len(s) - 1
               PROVE  (a \o b)[j] = IF j < i THEN s[j] ELSE s[j + 1]
    OBVIOUS
  <2>1. CASE j < i
    <3>1. j <= i - 1 /\ j \in 1 .. i - 1
      BY <2>1
    <3> QED BY <2>1, <3>1, <1>1, <1>3
  <2>2. CASE j >= i
    <3>1. j - (i - 1) \in 1 .. Len(s) - i /\ i + (j - (i - 1)) = j + 1
      BY <2>2
    <3>2. b[j - (i - 1)] = s[j + 1]
      BY <3>1, <1>2
    <3>3. ~(j <= i - 1) /\ ~(j < i)
      BY <2>2
    <3> QED BY <3>2, <3>3, <1>3
  <2>3. j < i \/ j >= i
    OBVIOUS
  <2> HIDE DEF a, b
  <2> QED BY <2>1, <2>2, <2>3, Zenon
<1>5. RemoveAt(s, i) = a \o b
  BY DEF RemoveAt, a, b
<1> QED BY <1>3, <1>4, <1>5 DEF Shorter

LEMMA TailShorter ==
  ASSUME NEW S, NEW s \in Seq(S), s # <<>>
  PROVE  Tail(s) \in Seq(S) /\ Shorter(s, Tail(s), 1) /\ Head(s) = s[1] /\ 1 \in 1 .. Len(s)
BY DEF Shorter

Increasing(s) == \A i, j \in 1 .. Len(s) : i < j => s[i].id < s[j].id

LEMMA ShorterIncreasing ==
  ASSUME NEW s \in Seq(Queue!Value), NEW r \in Seq(Queue!Value), NEW i \in 1 .. Len(s),
         Shorter(s, r, i), Increasing(s)
  PROVE  Increasing(r)
<1> DEFINE at(j) == IF j < i THEN j ELSE j + 1
<1>1. Len(s) \in Nat /\ Len(r) = Len(s) - 1
  BY DEF Shorter
<1>2. \A j \in 1 .. Len(r) : at(j) \in 1 .. Len(s) /\ r[j] = s[at(j)]
  BY <1>1 DEF Shorter
<1>3. \A j, k \in 1 .. Len(r) : j < k => at(j) < at(k)
  BY <1>1
<1> QED BY <1>2, <1>3 DEF Increasing

LEMMA ShorterIds ==
  ASSUME NEW s \in Seq(Queue!Value), NEW r \in Seq(Queue!Value), NEW i \in 1 .. Len(s),
         Shorter(s, r, i), Increasing(s)
  PROVE  Queue!Ids(r) = Queue!Ids(s) \ {s[i].id}
<1>1. \A j \in 1 .. Len(r) : r[j].id \in Queue!Ids(s) /\ r[j].id # s[i].id
  <2> SUFFICES ASSUME NEW j \in 1 .. Len(r) PROVE r[j].id \in Queue!Ids(s) /\ r[j].id # s[i].id
    OBVIOUS
  <2> DEFINE k == IF j < i THEN j ELSE j + 1
  <2>1. k \in 1 .. Len(s) /\ r[j] = s[k] /\ (k < i \/ i < k)
    BY DEF Shorter
  <2>2. s[k].id \in Nat /\ s[i].id \in Nat /\ (s[k].id < s[i].id \/ s[i].id < s[k].id)
    <3>1. s[k] \in Queue!Value /\ s[i] \in Queue!Value
      BY <2>1, ElementOfSeq
    <3>2. k < i => s[k].id < s[i].id
      BY <2>1 DEF Increasing
    <3>3. i < k => s[i].id < s[k].id
      BY <2>1 DEF Increasing
    <3> QED BY <2>1, <3>1, <3>2, <3>3 DEF Queue!Value
  <2> QED BY <2>1, <2>2 DEF Queue!Ids
<1>2. \A j \in 1 .. Len(s) : j # i => s[j].id \in Queue!Ids(r)
  <2> SUFFICES ASSUME NEW j \in 1 .. Len(s), j # i PROVE s[j].id \in Queue!Ids(r)
    OBVIOUS
  <2>1. CASE j < i
    <3>1. j \in 1 .. Len(r) /\ r[j] = s[j]
      BY <2>1 DEF Shorter
    <3> QED BY <3>1 DEF Queue!Ids
  <2>2. CASE j > i
    <3>1. j - 1 \in 1 .. Len(r) /\ r[j - 1] = s[j]
      BY <2>2 DEF Shorter
    <3> QED BY <3>1 DEF Queue!Ids
  <2> QED BY <2>1, <2>2
<1>3. DOMAIN s = 1 .. Len(s) /\ DOMAIN r = 1 .. Len(r)
  OBVIOUS
<1> QED BY <1>1, <1>2, <1>3 DEF Queue!Ids

LEMMA AppendIds ==
  ASSUME NEW s \in Seq(Queue!Value), NEW v \in Queue!Value
  PROVE  Queue!Ids(Append(s, v)) = Queue!Ids(s) \cup {v.id}
<1>1. \A j \in 1 .. Len(s) : Append(s, v)[j] = s[j]
  OBVIOUS
<1>2. Append(s, v)[Len(s) + 1] = v /\ Len(Append(s, v)) = Len(s) + 1
  OBVIOUS
<1>3. DOMAIN Append(s, v) = (1 .. Len(s)) \cup {Len(s) + 1}
  BY <1>2
<1> QED BY <1>1, <1>2, <1>3 DEF Queue!Ids

LEMMA ToSetAppend ==
  ASSUME NEW s \in Seq(Nat), NEW n \in Nat
  PROVE  ToSet(Append(s, n)) = ToSet(s) \cup {n}
<1>1. \A j \in 1 .. Len(s) : Append(s, n)[j] = s[j]
  OBVIOUS
<1>2. Append(s, n)[Len(s) + 1] = n /\ DOMAIN Append(s, n) = (1 .. Len(s)) \cup {Len(s) + 1}
  OBVIOUS
<1> QED BY <1>1, <1>2 DEF ToSet

-----------------------------------------------------------------------------
(***************************************************************************)
(* The inductive invariant: Fifo in parts, with the numbers given so far.  *)
(***************************************************************************)
Ordered ==
  /\ \A i, j \in 1 .. Len(delivered) : i < j => delivered[i] < delivered[j]
  /\ Increasing(values)
  /\ \A i \in 1 .. Len(delivered), j \in 1 .. Len(values) : delivered[i] < values[j].id
  /\ \A i \in 1 .. Len(delivered) : delivered[i] <= accepted
  /\ \A j \in 1 .. Len(values) : values[j].id <= accepted

IInv == Queue!TypeOK /\ Queue!NoLostWakeup /\ Ordered /\ Queue!NothingVanishes

LEMMA OrderedIsFifo == Queue!TypeOK /\ Ordered => Queue!Fifo
<1> SUFFICES ASSUME Queue!TypeOK, Ordered PROVE Queue!Fifo
  OBVIOUS
<1> DEFINE ids == [i \in DOMAIN values |-> values[i].id]
<1>1. ids \in Seq(Nat) /\ Len(ids) = Len(values)
      /\ \A i \in 1 .. Len(values) : ids[i] = values[i].id
  <2>1. Len(values) \in Nat /\ DOMAIN values = 1 .. Len(values)
    BY DEF Queue!TypeOK
  <2>2. \A i \in 1 .. Len(values) : values[i].id \in Nat
    <3>1. values \in Seq(Queue!Value)
      BY DEF Queue!TypeOK
    <3>2. \A i \in 1 .. Len(values) : values[i] \in Queue!Value
      BY <3>1, ElementOfSeq
    <3> QED BY <3>2 DEF Queue!Value
  <2>3. ids = [i \in 1 .. Len(values) |-> values[i].id]
    BY <2>1
  <2> QED BY <2>1, <2>2, <2>3, IsASeq
<1>2. delivered \in Seq(Nat)
  BY DEF Queue!TypeOK
<1>3. Len(delivered) \in Nat /\ Len(values) \in Nat
  BY DEF Queue!TypeOK
<1> DEFINE line == delivered \o ids
<1>4. Queue!Fifo <=> \A i, j \in DOMAIN line : i < j => line[i] < line[j]
  BY DEF Queue!Fifo
<1> HIDE DEF ids
<1>5. /\ DOMAIN line = 1 .. Len(delivered) + Len(values)
      /\ \A i \in 1 .. Len(delivered) + Len(values) :
           line[i] = IF i <= Len(delivered) THEN delivered[i] ELSE ids[i - Len(delivered)]
  <2>1. line \in Seq(Nat) /\ Len(line) = Len(delivered) + Len(ids)
    BY <1>1, <1>2, ConcatProperties
  <2>2. DOMAIN line = 1 .. Len(line)
    BY <2>1, LenProperties
  <2> QED BY <1>1, <1>2, <2>1, <2>2, ConcatProperties
<1> HIDE DEF line
<1>6. ASSUME NEW i \in DOMAIN line, NEW j \in DOMAIN line, i < j
      PROVE  line[i] < line[j]
  <2>1. CASE j <= Len(delivered)
    <3>1. i \in 1 .. Len(delivered) /\ j \in 1 .. Len(delivered) /\ i <= Len(delivered)
      BY <1>3, <1>5, <1>6, <2>1
    <3> QED BY <1>5, <1>6, <2>1, <3>1 DEF Ordered
  <2>2. CASE i <= Len(delivered) /\ ~(j <= Len(delivered))
    <3>1. i \in 1 .. Len(delivered) /\ j - Len(delivered) \in 1 .. Len(values)
      BY <1>3, <1>5, <2>2
    <3> QED BY <1>1, <1>5, <2>2, <3>1 DEF Ordered
  <2>3. CASE ~(i <= Len(delivered))
    <3>1. /\ i - Len(delivered) \in 1 .. Len(values) /\ j - Len(delivered) \in 1 .. Len(values)
          /\ i - Len(delivered) < j - Len(delivered) /\ ~(j <= Len(delivered))
      BY <1>3, <1>5, <1>6, <2>3
    <3> QED BY <1>1, <1>5, <2>3, <3>1 DEF Ordered, Increasing
  <2> QED BY <2>1, <2>2, <2>3
<1> QED BY <1>4, <1>6

LEMMA InitIInv == Queue!Init => IInv
<1> SUFFICES ASSUME Queue!Init PROVE IInv
  OBVIOUS
<1>1. Queue!TypeOK
  <2>1. <<>> \in Seq(Queue!Value) /\ <<>> \in Seq(Consumer) /\ <<>> \in Seq(Nat)
        /\ Len(<<>>) <= Capacity
    BY CapacityIs
  <2>2. told \in [Consumer -> {"no", "done", "failed"}]
    BY DEF Queue!Init
  <2> QED BY <2>1, <2>2 DEF Queue!Init, Queue!TypeOK
<1>2. Queue!NoLostWakeup /\ Ordered
  BY DEF Queue!Init, Queue!NoLostWakeup, Ordered, Increasing
<1>3. Queue!NothingVanishes
  BY SameToSet DEF Queue!Init, Queue!NothingVanishes, ToSet, Queue!Ids
<1> QED BY <1>1, <1>2, <1>3 DEF IInv
-----------------------------------------------------------------------------
(***************************************************************************)
(* Steps.                                                                  *)
(***************************************************************************)

\* A value that is handed over comes behind all that were delivered, and none
\* is buffered.
LEMMA HandOverStep ==
  ASSUME IInv, Queue!HandOver, UNCHANGED <<queueClosed, queueFailed, inactive, told>>
  PROVE  IInv'
<1> USE DEF IInv
<1>1. values = <<>> /\ ~queueClosed /\ values' = <<>> /\ Len(values) = 0 /\ Len(values') = 0
  BY DEF Queue!HandOver, Queue!NoLostWakeup
<1>2. waiters' \in Seq(Consumer) /\ accepted' \in Nat /\ delivered' \in Seq(Nat)
  BY DEF Queue!HandOver, Queue!TypeOK
<1>3. Queue!TypeOK'
  BY <1>2 DEF Queue!TypeOK, Queue!HandOver
<1>4. Queue!NoLostWakeup'
  BY <1>1 DEF Queue!NoLostWakeup
<1>5. Ordered'
  <2>1. /\ Len(delivered') = Len(delivered) + 1 /\ delivered'[Len(delivered) + 1] = accepted + 1
        /\ \A i \in 1 .. Len(delivered) : delivered'[i] = delivered[i] /\ delivered[i] \in Nat
        /\ Len(delivered) \in Nat /\ accepted \in Nat
    BY AppendProperties, ElementOfSeq DEF Queue!HandOver, Queue!TypeOK
  <2>2. ASSUME NEW i \in 1 .. Len(delivered'), NEW j \in 1 .. Len(delivered'), i < j
        PROVE  delivered'[i] < delivered'[j]
    <3>1. i \in 1 .. Len(delivered)
      BY <2>1, <2>2
    <3>2. CASE j = Len(delivered) + 1
      BY <2>1, <3>1, <3>2 DEF Ordered
    <3>3. CASE j \in 1 .. Len(delivered)
      BY <2>1, <2>2, <3>1, <3>3 DEF Ordered
    <3> QED BY <2>1, <3>2, <3>3
  <2>3. \A i \in 1 .. Len(delivered') : delivered'[i] <= accepted'
    <3> SUFFICES ASSUME NEW i \in 1 .. Len(delivered') PROVE delivered'[i] <= accepted'
      OBVIOUS
    <3>1. i \in 1 .. Len(delivered) \/ i = Len(delivered) + 1
      BY <2>1
    <3> QED BY <2>1, <3>1 DEF Ordered, Queue!HandOver
  <2> QED BY <1>1, <2>2, <2>3 DEF Ordered, Increasing
<1>6. Queue!NothingVanishes'
  <2>1. ToSet(delivered') = ToSet(delivered) \cup {accepted + 1}
    BY ToSetAppend DEF Queue!HandOver, Queue!TypeOK
  <2>2. Queue!Ids(values') = Queue!Ids(values) /\ lost' = lost
    BY DEF Queue!HandOver
  <2>3. 1 .. accepted' = (1 .. accepted) \cup {accepted + 1} /\ accepted + 1 \notin 1 .. accepted
    BY DEF Queue!HandOver, Queue!TypeOK
  <2> QED BY <2>1, <2>2, <2>3, SameToSet DEF Queue!NothingVanishes
<1> QED BY <1>3, <1>4, <1>5, <1>6

\* What is left of the buffer: all of it, or all but one value.
Rest(s, i) ==
  \/ s = values /\ i = 0
  \/ i \in 1 .. Len(values) /\ s \in Seq(Queue!Value) /\ Shorter(values, s, i)

\* A value that is pushed comes behind all that were delivered or are left.
LEMMA PushStep ==
  ASSUME IInv, NEW low \in BOOLEAN, NEW s, NEW i \in Nat, Rest(s, i), Len(s) < Capacity,
         waiters = <<>>, Queue!Push(s, low),
         lost' = IF i = 0 THEN lost ELSE lost \cup {values[i].id},
         ~queueClosed, UNCHANGED <<queueClosed, queueFailed, inactive, told>>
  PROVE  IInv'
<1> USE DEF IInv
<1> DEFINE v == Queue!Fresh(low)
<1>1. /\ s \in Seq(Queue!Value) /\ Increasing(s) /\ Len(s) \in Nat
      /\ values' = Append(s, v) /\ v \in Queue!Value /\ v.id = accepted + 1
      /\ delivered' = delivered /\ accepted' = accepted + 1 /\ accepted \in Nat
  <2>1. s \in Seq(Queue!Value) /\ Increasing(s)
    BY ShorterIncreasing DEF Rest, Ordered, Queue!TypeOK
  <2> QED BY <2>1 DEF Queue!Push, Queue!Fresh, Queue!Value, Queue!TypeOK
<1>2. Queue!Ids(s) = IF i = 0 THEN Queue!Ids(values) ELSE Queue!Ids(values) \ {values[i].id}
  BY ShorterIds DEF Rest, Ordered, Queue!TypeOK
<1>3. i # 0 => values[i].id \in Queue!Ids(values) /\ values[i].id \in Nat
  <2> SUFFICES ASSUME i # 0 PROVE values[i].id \in Queue!Ids(values) /\ values[i].id \in Nat
    OBVIOUS
  <2>1. i \in 1 .. Len(values) /\ DOMAIN values = 1 .. Len(values)
    BY DEF Rest, Queue!TypeOK
  <2>2. values[i] \in Queue!Value
    BY <2>1, ElementOfSeq DEF Queue!TypeOK
  <2> QED BY <2>1, <2>2 DEF Queue!Ids, Queue!Value
<1>4. \A j \in 1 .. Len(s) : s[j] \in Queue!Value /\ s[j].id \in Queue!Ids(values)
  <2>1. \A j \in 1 .. Len(s) : s[j].id \in Queue!Ids(s)
    BY <1>1 DEF Queue!Ids
  <2> QED BY <1>1, <1>2, <2>1, ElementOfSeq
<1>5. \A n \in Queue!Ids(values) : n <= accepted /\ \A j \in 1 .. Len(delivered) : delivered[j] < n
  BY DEF Queue!Ids, Ordered, Queue!TypeOK
<1>6. /\ Len(values') = Len(s) + 1 /\ values'[Len(s) + 1] = v
      /\ \A j \in 1 .. Len(s) : values'[j] = s[j]
  BY <1>1, AppendProperties
<1> HIDE DEF v
<1>7. Queue!TypeOK'
  <2>1. values' \in Seq(Queue!Value) /\ Len(values') <= Capacity
    BY <1>1, <1>6, CapacityIs
  <2>2. lost' \in SUBSET Nat
    BY <1>3 DEF Queue!TypeOK
  <2> QED BY <1>1, <2>1, <2>2 DEF Queue!TypeOK, Queue!Push
<1>8. Queue!NoLostWakeup'
  BY DEF Queue!NoLostWakeup, Queue!Push
<1>9. Ordered'
  <2>1. \A j \in 1 .. Len(values') : j \in 1 .. Len(s) \/ j = Len(s) + 1
    BY <1>1, <1>6
  <2>2. \A j \in 1 .. Len(s) : values'[j].id \in Nat /\ values'[j].id <= accepted
    BY <1>4, <1>5, <1>6 DEF Queue!Value
  <2>3. Increasing(values')
    <3> SUFFICES ASSUME NEW j \in 1 .. Len(values'), NEW k \in 1 .. Len(values'), j < k
                 PROVE  values'[j].id < values'[k].id
      BY DEF Increasing
    <3>1. j \in 1 .. Len(s)
      BY <1>1, <1>6
    <3>2. CASE k \in 1 .. Len(s)
      BY <1>1, <1>6, <3>1, <3>2 DEF Increasing
    <3>3. CASE k = Len(s) + 1
      BY <1>1, <1>6, <2>2, <3>1, <3>3
    <3> QED BY <2>1, <3>2, <3>3
  <2>4. \A j \in 1 .. Len(delivered), k \in 1 .. Len(values') : delivered[j] < values'[k].id
    <3> SUFFICES ASSUME NEW j \in 1 .. Len(delivered), NEW k \in 1 .. Len(values')
                 PROVE  delivered[j] < values'[k].id
      OBVIOUS
    <3>1. CASE k \in 1 .. Len(s)
      BY <1>4, <1>5, <1>6, <3>1
    <3>2. CASE k = Len(s) + 1
      <4>1. delivered[j] \in Nat /\ delivered[j] <= accepted
        BY ElementOfSeq DEF Queue!TypeOK, Ordered
      <4> QED BY <1>1, <1>6, <3>2, <4>1
    <3> QED BY <2>1, <3>1, <3>2
  <2>5. \A j \in 1 .. Len(delivered) : delivered[j] <= accepted'
    <3> SUFFICES ASSUME NEW j \in 1 .. Len(delivered) PROVE delivered[j] <= accepted'
      OBVIOUS
    <3>1. delivered[j] \in Nat /\ delivered[j] <= accepted
      BY ElementOfSeq DEF Queue!TypeOK, Ordered
    <3> QED BY <1>1, <3>1
  <2>6. \A j \in 1 .. Len(values') : values'[j].id <= accepted'
    BY <1>1, <1>6, <2>1, <2>2
  <2>7. \A j, k \in 1 .. Len(delivered) : j < k => delivered[j] < delivered[k]
    BY DEF Ordered
  <2> QED BY <1>1, <2>3, <2>4, <2>5, <2>6, <2>7 DEF Ordered
<1>10. Queue!NothingVanishes'
  <2>1. Queue!Ids(values') = Queue!Ids(s) \cup {accepted + 1}
    BY <1>1, AppendIds
  <2>2. 1 .. accepted' = (1 .. accepted) \cup {accepted + 1} /\ accepted + 1 \notin 1 .. accepted
    BY <1>1
  <2>3. i # 0 => values[i].id \notin ToSet(delivered)
    <3>1. DOMAIN delivered = 1 .. Len(delivered)
      BY DEF Queue!TypeOK
    <3>2. \A j \in 1 .. Len(delivered) : delivered[j] \in Nat
      BY ElementOfSeq DEF Queue!TypeOK
    <3>3. i # 0 => \A j \in 1 .. Len(delivered) : delivered[j] # values[i].id
      BY <1>3, <1>5, <3>2
    <3> QED BY <3>1, <3>3 DEF ToSet
  <2> QED BY <1>1, <1>2, <1>3, <2>1, <2>2, <2>3, SameToSet DEF Queue!NothingVanishes
<1> QED BY <1>7, <1>8, <1>9, <1>10

\* The three ways to offer are a hand-over or a push.
LEMMA OfferStep ==
  ASSUME IInv, NEW low \in BOOLEAN,
         Queue!Offer(low) \/ Queue!OfferLatest(low) \/ Queue!OfferPriority(low)
  PROVE  IInv'
<1>1. ~queueClosed /\ UNCHANGED <<queueClosed, queueFailed, inactive, told>>
  BY DEF Queue!Offer, Queue!OfferLatest, Queue!OfferPriority
<1>2. values \in Seq(Queue!Value) /\ Len(values) \in Nat /\ Capacity \in Nat
  BY CapacityIs DEF IInv, Queue!TypeOK
<1>3. CASE Queue!HandOver
  BY <1>1, <1>3, HandOverStep
<1>4. CASE waiters = <<>> /\ ~Queue!Full /\ Queue!Push(values, low) /\ UNCHANGED lost
  <2>1. Rest(values, 0) /\ Len(values) < Capacity
    BY <1>2, <1>4 DEF Rest, Queue!Full
  <2> QED BY <1>1, <1>4, <2>1, PushStep
<1>5. CASE /\ waiters = <<>> /\ Queue!Full
           /\ Queue!Push(Tail(values), low)
           /\ lost' = lost \cup {Head(values).id}
  <2>1. values # <<>> /\ Len(values) <= Capacity
    BY <1>2, <1>5, CapacityIs DEF Queue!Full, IInv, Queue!TypeOK
  <2>2. /\ Rest(Tail(values), 1) /\ Head(values) = values[1]
        /\ Len(Tail(values)) = Len(values) - 1
    BY <1>2, <2>1, TailShorter DEF Rest, Shorter
  <2>3. Len(Tail(values)) < Capacity /\ lost' = IF 1 = 0 THEN lost ELSE lost \cup {values[1].id}
    BY <1>2, <1>5, <2>1, <2>2
  <2>4. waiters = <<>> /\ Queue!Push(Tail(values), low)
    BY <1>5
  <2> QED BY <1>1, <2>2, <2>3, <2>4, PushStep
<1>6. CASE /\ waiters = <<>> /\ Queue!Full
           /\ \E i \in DOMAIN values :
                /\ values[i].low /\ \A j \in 1 .. i - 1 : ~values[j].low
                /\ Queue!Push(RemoveAt(values, i), low)
                /\ lost' = lost \cup {values[i].id}
  <2>1. PICK i \in DOMAIN values : Queue!Push(RemoveAt(values, i), low)
        /\ lost' = lost \cup {values[i].id}
    BY <1>6
  <2>2. i \in 1 .. Len(values) /\ i \in Nat /\ i # 0 /\ Len(values) <= Capacity
    BY <1>2 DEF IInv, Queue!TypeOK
  <2>3. Rest(RemoveAt(values, i), i) /\ Len(RemoveAt(values, i)) = Len(values) - 1
    BY <1>2, <2>2, RemoveAtShorter DEF Rest, Shorter
  <2>4. Len(RemoveAt(values, i)) < Capacity
    BY <1>2, <2>2, <2>3
  <2>5. lost' = IF i = 0 THEN lost ELSE lost \cup {values[i].id}
    BY <2>1, <2>2
  <2> HIDE DEF Queue!Push
  <2>6. waiters = <<>>
    BY <1>6
  <2> QED BY <1>1, <2>1, <2>2, <2>3, <2>4, <2>5, <2>6, PushStep
<1> QED BY <1>3, <1>4, <1>5, <1>6, SameToSet, SameRemoveAt
DEF Queue!Offer, Queue!OfferLatest, Queue!OfferPriority

\* A close settles the waiters, and only an error gives the buffer up.
LEMMA CloseStep ==
  ASSUME IInv, Queue!Close \/ Queue!CloseWithError
  PROVE  IInv'
<1> USE DEF IInv
<1>1. \A cs, what : what \in {"no", "done", "failed"} /\ Queue!Tell(cs, what) =>
        told' \in [Consumer -> {"no", "done", "failed"}]
  BY DEF Queue!Tell, Queue!TypeOK
<1>2. /\ <<>> \in Seq(Consumer) /\ <<>> \in Seq(Queue!Value) /\ Len(<<>>) = 0
      /\ Len(values) \in Nat /\ Capacity \in Nat
  BY CapacityIs DEF Queue!TypeOK
<1>3. CASE Queue!Close
  <2>1. told' \in [Consumer -> {"no", "done", "failed"}]
    BY <1>1, <1>3 DEF Queue!Close
  <2> QED BY <1>2, <1>3, <2>1
          DEF Queue!Close, Queue!history, Queue!TypeOK, Queue!NoLostWakeup, Ordered,
             Queue!NothingVanishes
<1>4. CASE Queue!CloseWithError
  <2>1. Queue!Ids(values) \in SUBSET Nat
    <3>1. DOMAIN values = 1 .. Len(values)
      BY DEF Queue!TypeOK
    <3>2. \A i \in 1 .. Len(values) : values[i] \in Queue!Value
      BY ElementOfSeq DEF Queue!TypeOK
    <3> QED BY <3>1, <3>2 DEF Queue!Ids, Queue!Value
  <2>2. Queue!TypeOK'
    <3>1. told' \in [Consumer -> {"no", "done", "failed"}]
      BY <1>1, <1>4 DEF Queue!CloseWithError
    <3>2. lost' \in SUBSET Nat
      BY <1>4, <2>1 DEF Queue!CloseWithError, Queue!TypeOK
    <3>3. values' \in Seq(Queue!Value) /\ Len(values') <= Capacity /\ waiters' \in Seq(Consumer)
      BY <1>2, <1>4, CapacityIs DEF Queue!CloseWithError
    <3>4. /\ queueClosed' \in BOOLEAN /\ queueFailed' \in BOOLEAN /\ inactive' \in SUBSET Consumer
          /\ accepted' \in Nat /\ delivered' \in Seq(Nat)
      BY <1>4 DEF Queue!CloseWithError, Queue!TypeOK
    <3> QED BY <3>1, <3>2, <3>3, <3>4 DEF Queue!TypeOK
  <2>3. Queue!NoLostWakeup' /\ Ordered'
    BY <1>2, <1>4 DEF Queue!CloseWithError, Queue!NoLostWakeup, Ordered, Increasing
  <2>4. Queue!NothingVanishes'
    <3>1. Queue!Ids(<<>>) = {}
      BY DEF Queue!Ids
    <3>2. Queue!Ids(values) \cap ToSet(delivered) = {}
      <4> SUFFICES ASSUME NEW i \in 1 .. Len(values), NEW j \in 1 .. Len(delivered),
                          delivered[j] = values[i].id
                   PROVE  FALSE
        <5>1. DOMAIN values = 1 .. Len(values) /\ DOMAIN delivered = 1 .. Len(delivered)
          BY DEF Queue!TypeOK
        <5> QED BY <5>1 DEF Queue!Ids, ToSet
      <4>1. delivered[j] < values[i].id
        BY DEF Ordered
      <4>2. delivered[j] \in Nat
        BY ElementOfSeq DEF Queue!TypeOK
      <4> QED BY <4>1, <4>2
    <3> QED BY <1>4, <3>1, <3>2, SameToSet DEF Queue!CloseWithError, Queue!NothingVanishes
  <2> QED BY <2>2, <2>3, <2>4
<1> QED BY <1>3, <1>4

\* A consumer takes the oldest value, or waits where there is none.
LEMMA NextValueStep ==
  ASSUME IInv, NEW c \in Consumer, Queue!NextValue(c)
  PROVE  IInv'
<1> USE DEF IInv
<1>1. CASE /\ values # <<>>
           /\ values' = Tail(values)
           /\ delivered' = Append(delivered, Head(values).id)
           /\ UNCHANGED <<waiters, told>>
  <2> DEFINE n == Head(values).id
  <2>1. /\ values \in Seq(Queue!Value) /\ values' \in Seq(Queue!Value)
        /\ Shorter(values, values', 1)
        /\ Head(values) = values[1] /\ 1 \in 1 .. Len(values) /\ Len(values) \in Nat
        /\ Len(values') = Len(values) - 1 /\ Increasing(values)
    BY <1>1, TailShorter DEF Queue!TypeOK, Ordered, Shorter
  <2>2. n \in Nat /\ n = values[1].id
    <3>1. values[1] \in Queue!Value
      BY <2>1, ElementOfSeq
    <3> QED BY <2>1, <3>1 DEF Queue!Value
  <2>3. \A i \in 1 .. Len(values') : values'[i] = values[i + 1] /\ i + 1 \in 1 .. Len(values)
    BY <2>1 DEF Shorter
  <2>4. accepted' = accepted /\ lost' = lost /\ queueClosed' = queueClosed /\ accepted \in Nat
    BY DEF Queue!NextValue, Queue!TypeOK
  <2> HIDE DEF n
  <2>5. /\ delivered' = Append(delivered, n) /\ delivered \in Seq(Nat) /\ Len(delivered) \in Nat
        /\ Len(delivered') = Len(delivered) + 1 /\ delivered'[Len(delivered) + 1] = n
        /\ \A i \in 1 .. Len(delivered) : delivered'[i] = delivered[i] /\ delivered[i] \in Nat
    BY <1>1, <2>2, AppendProperties, ElementOfSeq DEF Queue!TypeOK, n
  <2>6. Queue!TypeOK'
    <3>1. delivered' \in Seq(Nat)
      BY <2>2, <2>5, AppendProperties
    <3>2. Len(values') <= Capacity
      BY <2>1, CapacityIs DEF Queue!TypeOK
    <3> QED BY <1>1, <2>1, <3>1, <3>2 DEF Queue!TypeOK, Queue!NextValue
  <2>7. Queue!NoLostWakeup'
    BY <1>1 DEF Queue!NoLostWakeup
  <2>8. \A i \in 1 .. Len(delivered') : i \in 1 .. Len(delivered) \/ i = Len(delivered) + 1
    BY <2>5
  <2>9. \A i \in 1 .. Len(delivered') : delivered'[i] \in Nat /\ delivered'[i] <= n
    <3>1. \A i \in 1 .. Len(delivered) : delivered[i] < n
      BY <2>1, <2>2 DEF Ordered
    <3> QED BY <2>2, <2>5, <2>8, <3>1
  <2>10. \A j \in 1 .. Len(values') : n < values'[j].id
         /\ values'[j].id \in Nat /\ values'[j].id <= accepted
    <3> SUFFICES ASSUME NEW j \in 1 .. Len(values')
                 PROVE  n < values'[j].id /\ values'[j].id \in Nat /\ values'[j].id <= accepted
      OBVIOUS
    <3>1. 1 < j + 1 /\ j + 1 \in 1 .. Len(values) /\ values'[j] = values[j + 1]
      BY <2>1, <2>3
    <3>2. values[j + 1] \in Queue!Value
      BY <2>1, <3>1, ElementOfSeq
    <3> QED BY <2>1, <2>2, <3>1, <3>2 DEF Increasing, Ordered, Queue!Value
  <2>11. Ordered'
    <3>1. ASSUME NEW i \in 1 .. Len(delivered'), NEW j \in 1 .. Len(delivered'), i < j
          PROVE  delivered'[i] < delivered'[j]
      <4>1. i \in 1 .. Len(delivered)
        BY <2>5, <3>1
      <4>2. CASE j \in 1 .. Len(delivered)
        BY <2>5, <3>1, <4>1, <4>2 DEF Ordered
      <4>3. CASE j = Len(delivered) + 1
        BY <2>1, <2>2, <2>5, <4>1, <4>3 DEF Ordered
      <4> QED BY <2>8, <4>2, <4>3
    <3>2. Increasing(values')
      BY <2>1, ShorterIncreasing
    <3>3. \A i \in 1 .. Len(delivered'), j \in 1 .. Len(values') : delivered'[i] < values'[j].id
      BY <2>2, <2>9, <2>10
    <3>4. n <= accepted
      BY <2>1, <2>2 DEF Ordered
    <3>5. \A i \in 1 .. Len(delivered') : delivered'[i] <= accepted'
      BY <2>2, <2>4, <2>9, <3>4
    <3>6. \A j \in 1 .. Len(values') : values'[j].id <= accepted'
      BY <2>4, <2>10
    <3> QED BY <3>1, <3>2, <3>3, <3>5, <3>6 DEF Ordered
  <2>12. Queue!NothingVanishes'
    <3>1. Queue!Ids(values') = Queue!Ids(values) \ {n}
      BY <2>1, <2>2, ShorterIds
    <3>2. n \in Queue!Ids(values)
      BY <2>1, <2>2 DEF Queue!Ids
    <3>3. ToSet(delivered') = ToSet(delivered) \cup {n}
      BY <2>2, <2>5, ToSetAppend
    <3> QED BY <2>4, <3>1, <3>2, <3>3, SameToSet DEF Queue!NothingVanishes
  <2> QED BY <2>6, <2>7, <2>11, <2>12
<1>2. CASE /\ values = <<>> /\ queueClosed
           /\ Queue!Tell({c}, IF queueFailed THEN "failed" ELSE "done")
           /\ UNCHANGED <<values, waiters, delivered>>
  <2>1. told' \in [Consumer -> {"no", "done", "failed"}]
    BY <1>2 DEF Queue!Tell, Queue!TypeOK
  <2> QED BY <1>2, <2>1 DEF Queue!NextValue, Queue!TypeOK, Queue!NoLostWakeup, Ordered,
     Queue!NothingVanishes
<1>3. CASE /\ values = <<>> /\ ~queueClosed
           /\ waiters' = Append(waiters, c)
           /\ UNCHANGED <<values, told, delivered>>
  <2>1. waiters' \in Seq(Consumer)
    BY <1>3, AppendProperties DEF Queue!TypeOK
  <2> QED BY <1>3, <2>1 DEF Queue!NextValue, Queue!TypeOK, Queue!NoLostWakeup, Ordered,
     Queue!NothingVanishes
<1> QED BY <1>1, <1>2, <1>3 DEF Queue!NextValue

LEMMA ReturnStep ==
  ASSUME IInv, NEW c \in Consumer, Queue!Return(c)
  PROVE  IInv'
<1> USE DEF IInv
<1>1. waiters' \in Seq(Consumer) /\ (waiters' # <<>> => waiters # <<>>)
  <2>1. waiters \in Seq(Consumer) /\ DOMAIN waiters = 1 .. Len(waiters)
    BY DEF Queue!TypeOK
  <2>2. ASSUME NEW i \in DOMAIN waiters, waiters' = RemoveAt(waiters, i)
        PROVE  waiters' \in Seq(Consumer) /\ waiters # <<>>
    BY <2>1, <2>2, RemoveAtShorter
  <2> QED BY <2>1, <2>2, SameToSet, SameRemoveAt DEF Queue!Return
<1>2. told' \in [Consumer -> {"no", "done", "failed"}]
  BY DEF Queue!Return, Queue!Tell, Queue!TypeOK
<1>3. Queue!TypeOK'
  BY <1>1, <1>2 DEF Queue!Return, Queue!history, Queue!TypeOK
<1> QED BY <1>1, <1>3 DEF Queue!Return, Queue!history, Queue!NoLostWakeup, Ordered,
   Queue!NothingVanishes

-----------------------------------------------------------------------------
(***************************************************************************)
(* Theorems.                                                               *)
(***************************************************************************)
LEMMA NextIInv == IInv /\ [Queue!Next]_Queue!vars => IInv'
<1> SUFFICES ASSUME IInv, [Queue!Next]_Queue!vars PROVE IInv'
  OBVIOUS
<1>1. ASSUME NEW low \in BOOLEAN,
       Queue!Offer(low) \/ Queue!OfferLatest(low) \/ Queue!OfferPriority(low)
      PROVE  IInv'
  BY <1>1, OfferStep
<1>2. CASE Queue!Close \/ Queue!CloseWithError
  BY <1>2, CloseStep
<1>3. ASSUME NEW c \in Consumer, Queue!NextValue(c) PROVE IInv'
  BY <1>3, NextValueStep
<1>4. ASSUME NEW c \in Consumer, Queue!Return(c) PROVE IInv'
  BY <1>4, ReturnStep
<1>5. CASE UNCHANGED Queue!vars
  BY <1>5 DEF Queue!vars, IInv, Queue!TypeOK, Queue!NoLostWakeup, Ordered, Increasing,
     Queue!NothingVanishes
<1> QED BY <1>1, <1>2, <1>3, <1>4, <1>5 DEF Queue!Next

LEMMA Invariance == Queue!Spec => []IInv
BY InitIInv, NextIInv, PTL DEF Queue!Spec

\* The queue never holds more than its capacity, whoever offers and consumes.
THEOREM TypeCorrect == Queue!Spec => []Queue!TypeOK
<1>1. IInv => Queue!TypeOK
  BY DEF IInv
<1> QED BY <1>1, Invariance, PTL

\* No consumer waits beside a value or behind a close (async-queue.ts #next,
\* offer, close, #cancel).
THEOREM WakeupsAreNotLost == Queue!Spec => []NoLostWakeup
<1>1. IInv => NoLostWakeup
  BY DEF IInv, NoLostWakeup
<1> QED BY <1>1, Invariance, PTL

\* The consumers together get the values in the order of their acceptance,
\* although full queues drop at the head and evict in the middle.
THEOREM OrderIsKept == Queue!Spec => []Queue!Fifo
<1>1. IInv => Queue!Fifo
  BY OrderedIsFifo DEF IInv
<1> QED BY <1>1, Invariance, PTL

\* An accepted value is delivered, buffered or given up by policy, and only one
\* of these.
THEOREM ValuesDoNotVanish == Queue!Spec => []NothingVanishes
<1>1. IInv => NothingVanishes
  BY DEF IInv, NothingVanishes
<1> QED BY <1>1, Invariance, PTL

\* A consumer learns of the end only when the buffer is drained: a close finds
\* waiters only beside an empty buffer.
THEOREM EndComesLast == Queue!Spec => Queue!DoneMeansDrained
<1> DEFINE A == \A c \in Consumer \ inactive' :
                  told[c] = "no" /\ told'[c] = "done" => queueClosed' /\ values' = <<>>
<1>1. IInv /\ [Queue!Next]_Queue!vars => [A]_Queue!vars
  <2> SUFFICES ASSUME IInv, Queue!Next, NEW c \in Consumer \ inactive', told[c] = "no",
         told'[c] = "done"
               PROVE  queueClosed' /\ values' = <<>>
    OBVIOUS
  <2>1. CASE Queue!Close
    <3>1. c \in ToSet(waiters)
      BY <2>1, SameToSet DEF Queue!Close, Queue!Tell
    <3>2. waiters # <<>>
      BY <3>1 DEF ToSet
    <3> QED BY <2>1, <3>2 DEF Queue!Close, IInv, Queue!NoLostWakeup
  <2>2. CASE Queue!CloseWithError
    BY <2>2 DEF Queue!CloseWithError
  <2>3. ASSUME NEW low \in BOOLEAN,
         Queue!Offer(low) \/ Queue!OfferLatest(low) \/ Queue!OfferPriority(low)
        PROVE  FALSE
    BY <2>3 DEF Queue!Offer, Queue!OfferLatest, Queue!OfferPriority
  <2>4. ASSUME NEW d \in Consumer, Queue!NextValue(d)
        PROVE  queueClosed' /\ values' = <<>>
    BY <2>4 DEF Queue!NextValue, Queue!Tell
  <2>5. ASSUME NEW d \in Consumer, Queue!Return(d)
        PROVE  FALSE
    BY <2>5 DEF Queue!Return, Queue!Tell
  <2> QED BY <2>1, <2>2, <2>3, <2>4, <2>5 DEF Queue!Next
<1> QED BY <1>1, Invariance, PTL DEF Queue!Spec, Queue!DoneMeansDrained

-----------------------------------------------------------------------------
(***************************************************************************)
(* The inductive invariant.  LedgerHolds alone is not one: that a command  *)
(* is not executed twice needs the ledger to account for every execution,  *)
(* that the answers of a withdrawal agree needs each of them to be that of *)
(* its event, and that a withdrawal finds a place needs the last place to  *)
(* be free for as long as no end was begun.                                *)
(***************************************************************************)

\* Only withdrawals are replayed, and only ordinary commands wait for a turn.
Kinds ==
  \A e \in DOMAIN execs :
    /\ execs[e].replay => execs[e].cmd \in Withdrawal
    /\ execs[e].state = "queued" => execs[e].cmd \in Plain

\* The ledger has every execution that did not fail and was not evicted.
Accounted ==
  \A e \in DOMAIN execs : execs[e].state = "failed" \/ e \in evicted \/ e \in ledger

\* A withdrawal settles as its event did.
Receipted ==
  /\ reservation = "none" <=> receipt = "none"
  /\ \A e \in DOMAIN execs :
       execs[e].cmd \in Withdrawal /\ Commands!Settled(e) => execs[e].state = receipt

\* The last place is free until a terminal command takes it.
LastPlace == endTask = "none" => incomplete <= MaxIncomplete - 1

Inv == Commands!LedgerHolds /\ Kinds /\ Accounted /\ Receipted /\ LastPlace

-----------------------------------------------------------------------------
(***************************************************************************)
(* The three ways in which a step changes executions.                      *)
(***************************************************************************)

Pending == {e \in DOMAIN execs : ~execs[e].replay /\ ~Commands!Settled(e)}
Numbered == execs \in Seq(Commands!Exec) /\ DOMAIN execs = 1 .. Len(execs) /\ Len(execs) \in Nat

LEMMA NumberedOfType == Commands!TypeOK => Numbered
BY DEF Commands!TypeOK, Numbered

LEMMA LedgerIsFinite ==
  ASSUME Commands!TypeOK
  PROVE  /\ IsFiniteSet(DOMAIN execs) /\ IsFiniteSet(ledger)
         /\ \A S \in SUBSET (DOMAIN execs) : IsFiniteSet(S) /\ Cardinality(S) \in Nat
<1>1. IsFiniteSet(DOMAIN execs)
  BY NumberedOfType, FS_Interval DEF Numbered
<1>2. \A S \in SUBSET (DOMAIN execs) : IsFiniteSet(S) /\ Cardinality(S) \in Nat
  BY <1>1, FS_Subset, FS_CardinalityType
<1> QED BY <1>1, <1>2 DEF Commands!TypeOK

\* An admitted execution: those before it are as they were.
Admission(n) ==
  /\ Numbered /\ n = Len(execs) + 1
  /\ Len(execs') = n /\ DOMAIN execs' = DOMAIN execs \cup {n} /\ n \notin DOMAIN execs
  /\ execs' \in Seq(Commands!Exec)
  /\ \A e \in DOMAIN execs : execs'[e] = execs[e] /\ e < n

LEMMA LedgerGrows ==
  ASSUME Commands!TypeOK, NEW id \in CommandId, NEW cmd \in Commands!Command,
         NEW replay \in BOOLEAN,
         NEW state \in {"queued", "applying"}, Commands!Admit(id, cmd, replay, state),
         NEW n, n = Len(execs) + 1
  PROVE  /\ Admission(n)
         /\ execs'[n] = [id |-> id, cmd |-> cmd, replay |-> replay, state |-> state]
<1> DEFINE x == [id |-> id, cmd |-> cmd, replay |-> replay, state |-> state]
<1>1. x \in Commands!Exec
  BY DEF Commands!Exec
<1>2. execs' = Append(execs, x) /\ Numbered
  BY NumberedOfType DEF Commands!Admit
<1> HIDE DEF x
<1>3. /\ execs' \in Seq(Commands!Exec) /\ Len(execs') = Len(execs) + 1
      /\ execs'[Len(execs) + 1] = x /\ \A e \in 1 .. Len(execs) : execs'[e] = execs[e]
  BY <1>1, <1>2, AppendProperties DEF Numbered
<1>4. DOMAIN execs' = 1 .. Len(execs) + 1 /\ n \notin 1 .. Len(execs)
      /\ 1 .. Len(execs) + 1 = 1 .. Len(execs) \cup {n}
  BY <1>2, <1>3 DEF Numbered
<1> QED BY <1>2, <1>3, <1>4 DEF Admission, Numbered, x

\* An execution moves on: nothing but its state changes.
Moves(e, state) ==
  /\ Numbered /\ DOMAIN execs' = DOMAIN execs /\ Len(execs') = Len(execs)
  /\ execs' \in Seq(Commands!Exec)
  /\ \A x \in DOMAIN execs :
       /\ execs'[x].id = execs[x].id /\ execs'[x].cmd = execs[x].cmd
       /\ execs'[x].replay = execs[x].replay
       /\ execs'[x].state = IF x = e THEN state ELSE execs[x].state

LEMMA StateMoves ==
  ASSUME Commands!TypeOK, NEW e \in DOMAIN execs, NEW state \in {"applying", "ok", "failed"},
         execs' = [execs EXCEPT ![e].state = state]
  PROVE  Moves(e, state)
<1>1. Numbered
  BY NumberedOfType
<1>2. \A x \in DOMAIN execs : execs[x] \in Commands!Exec
  BY <1>1 DEF Numbered
<1>3. /\ DOMAIN execs' = DOMAIN execs
      /\ \A x \in DOMAIN execs :
           execs'[x] = IF x = e THEN [execs[x] EXCEPT !.state = state] ELSE execs[x]
  OBVIOUS
<1>4. \A x \in DOMAIN execs :
        /\ execs'[x] \in Commands!Exec
        /\ execs'[x].id = execs[x].id /\ execs'[x].cmd = execs[x].cmd
        /\ execs'[x].replay = execs[x].replay
        /\ execs'[x].state = IF x = e THEN state ELSE execs[x].state
  BY <1>2, <1>3 DEF Commands!Exec
<1>5. execs' \in Seq(Commands!Exec) /\ Len(execs') = Len(execs)
  <2>1. execs' \in [1 .. Len(execs) -> Commands!Exec]
    <3>1. execs' = [x \in 1 .. Len(execs) |-> execs'[x]]
      BY <1>1, <1>3 DEF Numbered
    <3> QED BY <3>1, <1>1, <1>4 DEF Numbered
  <2> QED BY <2>1, <1>1 DEF Numbered
<1> QED BY <1>1, <1>3, <1>4, <1>5 DEF Moves

-----------------------------------------------------------------------------
(***************************************************************************)
(* An admission keeps the invariant.                                       *)
(***************************************************************************)

\* Places: an execution that takes one is new among the pending.
LEMMA AdmitPlaces ==
  ASSUME Commands!TypeOK, Commands!PlacesReturn, NEW id \in CommandId, NEW cmd \in Commands!Command,
         NEW replay \in BOOLEAN, NEW state \in {"queued", "applying"},
         Commands!Admit(id, cmd, replay, state)
  PROVE  Commands!PlacesReturn'
<1> DEFINE n == Len(execs) + 1
<1>1. /\ Admission(n)
      /\ execs'[n] = [id |-> id, cmd |-> cmd, replay |-> replay, state |-> state]
  BY LedgerGrows
<1> HIDE DEF n
<1>2. Pending' = IF replay THEN Pending ELSE Pending \cup {n}
  BY <1>1 DEF Admission, Pending, Commands!Settled
<1>3. IsFiniteSet(Pending) /\ Cardinality(Pending) \in Nat /\ n \notin Pending
  BY <1>1, LedgerIsFinite DEF Pending, Admission
<1>4. incomplete = Cardinality(Pending)
  BY SameCardinality DEF Commands!PlacesReturn, Pending
<1>5. incomplete' = Cardinality(Pending')
  BY <1>2, <1>3, <1>4, FS_AddElement DEF Commands!Admit
<1> QED BY <1>5, SameCardinality DEF Commands!PlacesReturn, Pending

LEMMA AdmitLedger ==
  ASSUME Commands!CommandsAssumption, Commands!TypeOK, Commands!LedgerBounded,
         NEW id \in CommandId, NEW cmd \in Commands!Command,
         NEW replay \in BOOLEAN, NEW state \in {"queued", "applying"},
         Commands!Admit(id, cmd, replay, state)
  PROVE  Commands!LedgerBounded'
<1> DEFINE n == Len(execs) + 1
           open == {e \in ledger : ~Commands!Settled(e)}
<1>1. /\ Admission(n)
      /\ execs'[n] = [id |-> id, cmd |-> cmd, replay |-> replay, state |-> state]
      /\ ledger' = ledger \cup {n}
  BY LedgerGrows DEF Commands!Admit
<1> HIDE DEF n
<1>2. ledger \subseteq DOMAIN execs
  BY DEF Commands!TypeOK
<1>3. {e \in ledger' : ~Commands!Settled(e)'} = open \cup {n}
  BY <1>1, <1>2 DEF Admission, Commands!Settled
<1>4. /\ IsFiniteSet(ledger) /\ IsFiniteSet(open) /\ n \notin ledger
      /\ Cardinality(ledger) \in Nat /\ Cardinality(open) \in Nat
  BY <1>1, <1>2, LedgerIsFinite DEF Admission
<1>5. Cardinality(ledger') = Cardinality(ledger) + 1
      /\ Cardinality(open \cup {n}) = Cardinality(open) + 1
  BY <1>1, <1>4, FS_AddElement
<1> HIDE DEF open
<1>6. Cardinality(ledger) <= MaxSettled + Cardinality(open)
  BY SameCardinality DEF Commands!LedgerBounded, open
<1>7. Cardinality(ledger') <= MaxSettled + Cardinality(open \cup {n})
  BY <1>4, <1>5, <1>6 DEF Commands!CommandsAssumption
<1> QED BY <1>3, <1>7, SameCardinality DEF Commands!LedgerBounded

LEMMA AdmitRest ==
  ASSUME Inv, NEW id \in CommandId, NEW cmd \in Commands!Command, NEW replay \in BOOLEAN,
         NEW state \in {"queued", "applying"}, Commands!Admit(id, cmd, replay, state),
         ~Commands!Known(id), replay => cmd \in Withdrawal, state = "queued" <=> cmd \in Plain
  PROVE  /\ execs' \in Seq(Commands!Exec) /\ ledger' \subseteq DOMAIN execs'
         /\ evicted' \subseteq DOMAIN execs'
         /\ Commands!InTurn' /\ Commands!NotTwice' /\ Kinds' /\ Accounted'
<1> DEFINE n == Len(execs) + 1
<1>1. /\ Admission(n)
      /\ execs'[n] = [id |-> id, cmd |-> cmd, replay |-> replay, state |-> state]
      /\ ledger' = ledger \cup {n} /\ evicted' = evicted
  BY ZenonT(40), LedgerGrows DEF Inv, Commands!LedgerHolds, Commands!Admit
<1> HIDE DEF n
<1>2. /\ execs'[n].id = id /\ execs'[n].cmd = cmd /\ execs'[n].replay = replay
      /\ execs'[n].state = state
  BY <1>1
<1>3. ledger \subseteq DOMAIN execs /\ evicted \subseteq DOMAIN execs
  BY DEF Inv, Commands!LedgerHolds, Commands!TypeOK
<1>4. Commands!InTurn'
  BY <1>1, <1>2 DEF Inv, Commands!LedgerHolds, Commands!InTurn, Commands!Settled, Admission,
     Numbered
<1>5. Commands!NotTwice'
  <2>1. \A e \in DOMAIN execs : execs[e].id = id => execs[e].state = "failed" \/ e \in evicted
    BY DEF Inv, Accounted, Commands!Known
  <2> QED BY <2>1, <1>1, <1>2 DEF Inv, Commands!LedgerHolds, Commands!NotTwice, Admission, Numbered
<1>6. Kinds' /\ Accounted'
  BY <1>1, <1>2 DEF Inv, Kinds, Accounted, Admission
<1> QED BY <1>1, <1>3, <1>4, <1>5, <1>6 DEF Admission

-----------------------------------------------------------------------------
(***************************************************************************)
(* Settling an execution keeps the invariant.                              *)
(***************************************************************************)
LEMMA SettlePlaces ==
  ASSUME Commands!TypeOK, Commands!PlacesReturn, NEW e \in DOMAIN execs, NEW ok \in BOOLEAN,
         ~Commands!Settled(e), Commands!Settle(e, ok)
  PROVE  Commands!PlacesReturn' /\ incomplete' \in 0 .. incomplete
<1> DEFINE state == IF ok THEN "ok" ELSE "failed"
<1>1. Moves(e, state)
  BY StateMoves DEF Commands!Settle
<1>2. state \in {"ok", "failed"}
  OBVIOUS
<1> HIDE DEF state
<1>3. Pending' = IF execs[e].replay THEN Pending ELSE Pending \ {e}
  BY <1>1, <1>2 DEF Moves, Pending, Commands!Settled
<1>4. IsFiniteSet(Pending) /\ Cardinality(Pending) \in Nat
      /\ IsFiniteSet(Pending \ {e}) /\ Cardinality(Pending \ {e}) \in Nat
  BY LedgerIsFinite DEF Pending
<1>5. ~execs[e].replay => e \in Pending
  BY DEF Pending
<1>6. incomplete = Cardinality(Pending)
  BY SameCardinality DEF Commands!PlacesReturn, Pending
<1>7. incomplete' = IF execs[e].replay THEN incomplete ELSE incomplete - 1
  BY DEF Commands!Settle
<1>8. ~execs[e].replay => Cardinality(Pending \ {e}) = Cardinality(Pending) - 1
  BY <1>4, <1>5, FS_RemoveElement
<1>9. incomplete' = Cardinality(Pending')
  BY <1>3, <1>6, <1>7, <1>8
<1>10. incomplete' \in 0 .. incomplete
  BY <1>3, <1>4, <1>6, <1>7, <1>8
<1> QED BY <1>9, <1>10, SameCardinality DEF Commands!PlacesReturn, Pending

\* The ledger that a settled execution leaves behind, whatever it was before.
LEMMA SettleLedger ==
  ASSUME Commands!CommandsAssumption, Commands!TypeOK, NEW e \in DOMAIN execs, NEW ok \in BOOLEAN,
         ~Commands!Settled(e), Commands!Settle(e, ok)
  PROVE  Commands!LedgerBounded'
<1> DEFINE done == {x \in ledger : x = e \/ Commands!Settled(x)}
           state == IF ok THEN "ok" ELSE "failed"
<1>1. Moves(e, state)
  BY StateMoves DEF Commands!Settle
<1>2. PICK out \in SUBSET done :
        Commands!Evict(out, done) /\ ledger' = ledger \ (IF ok THEN out ELSE out \cup {e})
  BY DEF Commands!Settle
<1>3. done \subseteq ledger /\ \A x \in ledger \ done : x # e /\ ~Commands!Settled(x)
  OBVIOUS
<1>4. state \in {"ok", "failed"}
  OBVIOUS
<1> HIDE DEF state
<1> DEFINE open == ledger \ done
           kept == ledger \ out
<1>5. {x \in ledger' : ~Commands!Settled(x)'} = open
  <2>1. \A x \in ledger : Commands!Settled(x)' <=> x = e \/ Commands!Settled(x)
    BY <1>1, <1>4 DEF Moves, Commands!Settled, Commands!TypeOK
  <2>2. \A x \in open : x \in ledger'
    BY <1>2, <1>3
  <2> QED BY <1>2, <2>1, <2>2
<1> HIDE DEF done
<1>6. /\ IsFiniteSet(ledger) /\ Cardinality(ledger) \in Nat
      /\ IsFiniteSet(out) /\ Cardinality(out) \in Nat
      /\ IsFiniteSet(kept) /\ Cardinality(kept) \in Nat
      /\ IsFiniteSet(open) /\ Cardinality(open) \in Nat
  BY <1>2, <1>3, LedgerIsFinite DEF Commands!TypeOK
<1>7. Cardinality(kept) = Cardinality(ledger) - Cardinality(out)
  <2>1. ledger \cap out = out
    BY <1>2, <1>3
  <2> QED BY <1>6, <2>1, FS_Difference
<1>8. Cardinality(kept) <= MaxSettled + Cardinality(open)
  <2>1. CASE Cardinality(out) < Cardinality(ledger) - MaxSettled /\ out = done
    <3>1. kept = open
      BY <2>1
    <3> QED BY <3>1, <1>6 DEF Commands!CommandsAssumption
  <2>2. CASE Cardinality(out) >= Cardinality(ledger) - MaxSettled
    <3> HIDE DEF kept, open
    <3> QED BY <2>2, <1>6, <1>7 DEF Commands!CommandsAssumption
  <2>3. Cardinality(out) < Cardinality(ledger) - MaxSettled => out = done
    BY <1>2, <1>6, SameCardinality DEF Commands!Evict, Commands!CommandsAssumption
  <2> QED BY <2>1, <2>2, <2>3, <1>6 DEF Commands!CommandsAssumption
<1>9. Cardinality(ledger') <= Cardinality(kept) /\ Cardinality(ledger') \in Nat
  <2>1. ledger' \subseteq kept
    BY <1>2
  <2> HIDE DEF kept
  <2> QED BY <2>1, <1>6, FS_Subset, FS_CardinalityType
<1>10. Cardinality(ledger') <= MaxSettled + Cardinality(open)
  <2> HIDE DEF kept, open
  <2> QED BY <1>6, <1>8, <1>9 DEF Commands!CommandsAssumption
<1> QED BY <1>5, <1>10, SameCardinality DEF Commands!LedgerBounded

LEMMA SettleRest ==
  ASSUME Commands!CommandsAssumption, Inv, NEW e \in DOMAIN execs, NEW ok \in BOOLEAN,
         ~Commands!Settled(e), Commands!Settle(e, ok), execs[e].state = "queued" => Commands!Turn(e)
  PROVE  /\ execs' \in Seq(Commands!Exec) /\ ledger' \subseteq DOMAIN execs'
         /\ evicted' \subseteq DOMAIN execs'
         /\ Commands!InTurn' /\ Commands!NotTwice' /\ Kinds' /\ Accounted'
<1> DEFINE state == IF ok THEN "ok" ELSE "failed"
<1>1. Moves(e, state)
  BY StateMoves DEF Commands!Settle, Inv, Commands!LedgerHolds
<1>2. state \in {"ok", "failed"} /\ (~ok => state = "failed")
  OBVIOUS
<1> HIDE DEF state
<1>3. PICK out \in SUBSET ledger :
        /\ evicted' = evicted \cup out
        /\ ledger' = ledger \ (IF ok THEN out ELSE out \cup {e})
  BY DEF Commands!Settle
<1>4. ledger \subseteq DOMAIN execs /\ evicted \subseteq DOMAIN execs
  BY DEF Inv, Commands!LedgerHolds, Commands!TypeOK
<1>5. Commands!InTurn'
  <2>1. \A x \in DOMAIN execs :
          execs[x].cmd \in Plain /\ execs[e].cmd \in Plain /\ x < e => Commands!Settled(x)
    <3>1. \A x \in DOMAIN execs : execs[x].cmd \in Plain => ~execs[x].replay
      BY DEF Inv, Kinds, Commands!CommandsAssumption
    <3>2. \A x \in DOMAIN execs : x < e => x \in 1 .. e - 1
      BY NumberedOfType DEF Inv, Commands!LedgerHolds, Numbered
    <3> QED BY <3>1, <3>2 DEF Inv, Commands!LedgerHolds, Commands!InTurn, Commands!Turn
  <2>2. \A x \in DOMAIN execs : Commands!Settled(x)' <=> x = e \/ Commands!Settled(x)
    BY <1>1, <1>2 DEF Moves, Commands!Settled
  <2> SUFFICES ASSUME NEW i \in DOMAIN execs', NEW j \in DOMAIN execs', i < j,
                      execs'[i].cmd \in Plain, execs'[j].cmd \in Plain,
                      execs'[j].state # "queued"
               PROVE  Commands!Settled(i)'
    BY DEF Commands!InTurn
  <2>3. i \in DOMAIN execs /\ j \in DOMAIN execs
        /\ execs[i].cmd \in Plain /\ execs[j].cmd \in Plain
        /\ (j # e => execs[j].state # "queued")
    BY <1>1 DEF Moves
  <2>4. Commands!Settled(i)
    BY <2>1, <2>3 DEF Inv, Commands!LedgerHolds, Commands!InTurn
  <2> QED BY <2>2, <2>3, <2>4
<1>6. Commands!NotTwice'
  BY <1>1, <1>2, <1>3 DEF Inv, Commands!LedgerHolds, Commands!NotTwice, Moves, Commands!Settled
<1>7. Kinds'
  BY <1>1, <1>2 DEF Inv, Kinds, Moves
<1>8. Accounted'
  BY <1>1, <1>2, <1>3 DEF Inv, Accounted, Moves, Commands!Settled
<1> QED BY <1>1, <1>3, <1>4, <1>5, <1>6, <1>7, <1>8 DEF Moves

-----------------------------------------------------------------------------
(***************************************************************************)
(* One lemma for each action.                                              *)
(***************************************************************************)

\* What an admission or a settling leaves to show of the invariant.
LEMMA InvParts ==
  ASSUME execs' \in Seq(Commands!Exec), ledger' \subseteq DOMAIN execs',
         evicted' \subseteq DOMAIN execs',
         Commands!InTurn', Commands!NotTwice', Kinds', Accounted', Commands!PlacesReturn',
         Commands!LedgerBounded',
         incomplete' \in 0 .. MaxIncomplete, LastPlace',
         reservation' \in Withdrawal \cup {"none"},
         receipt' \in {"none", "pending", "ok", "failed"},
         endTask' \in {"none", "pending", "done"}, closing' \in BOOLEAN,
         Commands!SameAnswer', Receipted', busy' = FALSE
  PROVE  Inv'
BY DEF Inv, Commands!LedgerHolds, Commands!TypeOK, Commands!PlaceForWithdrawal

LEMMA AnswersAgreeNext == Receipted' => Commands!SameAnswer'
BY DEF Receipted, Commands!SameAnswer

LEMMA TerminalIsNotPlain ==
  Commands!CommandsAssumption =>
  /\ \A cmd \in Plain : cmd \notin Commands!Terminal /\ cmd \notin Withdrawal
  /\ \A cmd \in Withdrawal : cmd \in Commands!Terminal /\ cmd # "end" /\ cmd # "none"
  /\ "end" \in Commands!Terminal /\ "end" \notin Withdrawal /\ "end" \notin Plain
  /\ Plain \subseteq Commands!Command /\ Withdrawal \subseteq Commands!Command
  /\ "end" \in Commands!Command
BY DEF Commands!CommandsAssumption, Commands!Terminal, Commands!Command

\* Admitting a command, but for what the session makes of it.
LEMMA AdmitKeepsReceipts ==
  ASSUME Commands!TypeOK, NEW id \in CommandId, NEW cmd \in Commands!Command,
         NEW replay \in BOOLEAN,
         NEW state \in {"queued", "applying"}, Commands!Admit(id, cmd, replay, state)
  PROVE  /\ DOMAIN execs \subseteq DOMAIN execs'
         /\ \A e \in DOMAIN execs' :
              Commands!Settled(e)' => e \in DOMAIN execs /\ Commands!Settled(e)
                /\ execs'[e] = execs[e]
<1> DEFINE n == Len(execs) + 1
<1>1. /\ Admission(n)
      /\ execs'[n] = [id |-> id, cmd |-> cmd, replay |-> replay, state |-> state]
  BY LedgerGrows
<1> HIDE DEF n
<1>2. ~(execs'[n].state \in {"ok", "failed"})
  BY <1>1
<1> QED BY <1>1, <1>2 DEF Admission, Commands!Settled

LEMMA RefuseStep ==
  ASSUME Commands!CommandsAssumption, Inv, NEW id \in CommandId, NEW cmd \in Commands!Command,
         Commands!Refuse(id, cmd)
  PROVE  Inv'
<1>1. incomplete \in 0 .. MaxIncomplete /\ MaxIncomplete \in Nat /\ ~busy /\ busy \in BOOLEAN
  BY DEF Inv, Commands!LedgerHolds, Commands!TypeOK, Commands!PlaceForWithdrawal,
     Commands!CommandsAssumption
<1>2. ~(cmd \in Withdrawal /\ endTask = "none")
  BY <1>1, TerminalIsNotPlain DEF Commands!Refuse, Commands!Busy, Inv, LastPlace
<1>3. busy' = FALSE
  BY <1>1, <1>2 DEF Commands!Refuse
<1>4. UNCHANGED <<execs, ledger, incomplete, Commands!session, evicted>>
  BY DEF Commands!Refuse
<1>5. Commands!TypeOK'
  BY <1>3, <1>4 DEF Inv, Commands!LedgerHolds, Commands!session, Commands!TypeOK
<1>7. Commands!InTurn' /\ Commands!NotTwice' /\ Commands!SameAnswer'
  BY <1>4 DEF Inv, Commands!LedgerHolds, Commands!InTurn, Commands!NotTwice,
     Commands!SameAnswer, Commands!Settled
<1>8. Commands!PlacesReturn' /\ Commands!LedgerBounded'
  BY <1>4, Zenon DEF Inv, Commands!LedgerHolds, Commands!PlacesReturn, Commands!LedgerBounded,
     Commands!Settled
<1>6. Kinds' /\ Accounted' /\ Receipted' /\ LastPlace'
  BY <1>4 DEF Inv, Commands!session, Kinds, Accounted, Receipted, LastPlace, Commands!Settled
<1> QED BY <1>3, <1>5, <1>6, <1>7, <1>8 DEF Inv, Commands!LedgerHolds, Commands!PlaceForWithdrawal

LEMMA SubmitStep ==
  ASSUME Commands!CommandsAssumption, Inv, NEW id \in CommandId, NEW cmd \in Plain,
         Commands!Submit(id, cmd)
  PROVE  Inv'
<1>1. cmd \in Commands!Command /\ cmd \notin Commands!Terminal
      /\ Commands!Admit(id, cmd, FALSE, "queued") /\ ~Commands!Known(id)
      /\ UNCHANGED Commands!session /\ ~Commands!Busy(cmd) /\ Commands!TypeOK
      /\ Commands!PlacesReturn /\ Commands!LedgerBounded
  BY TerminalIsNotPlain DEF Commands!Submit, Commands!Fresh, Inv, Commands!LedgerHolds
<1>2. Commands!PlacesReturn' /\ Commands!LedgerBounded'
  BY <1>1, AdmitPlaces, AdmitLedger
<1>3. /\ execs' \in Seq(Commands!Exec) /\ ledger' \subseteq DOMAIN execs'
      /\ evicted' \subseteq DOMAIN execs'
      /\ Commands!InTurn' /\ Commands!NotTwice' /\ Kinds' /\ Accounted'
  BY <1>1, AdmitRest
<1>4. incomplete \in Nat /\ MaxIncomplete \in Nat /\ incomplete < MaxIncomplete - 1
      /\ incomplete' = incomplete + 1
  BY <1>1 DEF Commands!TypeOK, Commands!Busy, Commands!Admit, Commands!CommandsAssumption
<1>5. Receipted'
  BY <1>1, AdmitKeepsReceipts DEF Inv, Receipted, Commands!session
<1>6. incomplete' \in 0 .. MaxIncomplete /\ LastPlace' /\ busy' = FALSE
  BY <1>1, <1>4 DEF LastPlace, Commands!Admit, Inv, Commands!LedgerHolds,
     Commands!PlaceForWithdrawal, Commands!TypeOK
<1> QED BY <1>1, <1>2, <1>3, <1>5, <1>6, AnswersAgreeNext, InvParts
DEF Commands!session, Commands!TypeOK

LEMMA EndStep ==
  ASSUME Commands!CommandsAssumption, Inv, NEW id \in CommandId, Commands!End(id)
  PROVE  Inv'
<1>1. "end" \in Commands!Command /\ "end" \in Commands!Terminal /\ "end" \notin Plain
      /\ Commands!Admit(id, "end", FALSE, "applying") /\ ~Commands!Known(id)
      /\ ~Commands!Busy("end") /\ Commands!TypeOK /\ Commands!PlacesReturn /\ Commands!LedgerBounded
  BY TerminalIsNotPlain DEF Commands!End, Commands!Fresh, Inv, Commands!LedgerHolds
<1>2. Commands!PlacesReturn' /\ Commands!LedgerBounded'
  BY <1>1, AdmitPlaces, AdmitLedger
<1>3. /\ execs' \in Seq(Commands!Exec) /\ ledger' \subseteq DOMAIN execs'
      /\ evicted' \subseteq DOMAIN execs'
      /\ Commands!InTurn' /\ Commands!NotTwice' /\ Kinds' /\ Accounted'
  BY <1>1, AdmitRest
<1>4. incomplete \in Nat /\ MaxIncomplete \in Nat /\ incomplete < MaxIncomplete
      /\ incomplete' = incomplete + 1
  BY <1>1 DEF Commands!TypeOK, Commands!Busy, Commands!Admit, Commands!CommandsAssumption
<1>5. UNCHANGED <<reservation, receipt, closing>> /\ endTask' \in {"pending", "done"}
  BY <1>1 DEF Commands!End, Commands!TypeOK
<1>6. Receipted'
  BY <1>1, <1>5, AdmitKeepsReceipts DEF Inv, Receipted
<1>7. incomplete' \in 0 .. MaxIncomplete /\ LastPlace' /\ busy' = FALSE
  BY <1>1, <1>4, <1>5 DEF LastPlace, Commands!Admit, Inv, Commands!LedgerHolds,
     Commands!PlaceForWithdrawal, Commands!TypeOK
<1> QED BY <1>1, <1>2, <1>3, <1>5, <1>6, <1>7, AnswersAgreeNext, InvParts DEF Commands!TypeOK

LEMMA WithdrawStep ==
  ASSUME Commands!CommandsAssumption, Inv, NEW id \in CommandId, NEW cmd \in Withdrawal,
         Commands!Withdraw(id, cmd)
  PROVE  Inv'
<1>1. cmd \in Commands!Command /\ cmd \in Commands!Terminal /\ cmd \notin Plain /\ cmd # "none"
      /\ Commands!Admit(id, cmd, FALSE, "applying") /\ ~Commands!Known(id)
      /\ ~Commands!Busy(cmd) /\ Commands!TypeOK /\ Commands!PlacesReturn /\ Commands!LedgerBounded
  BY TerminalIsNotPlain DEF Commands!Withdraw, Commands!Fresh, Inv, Commands!LedgerHolds
<1>2. Commands!PlacesReturn' /\ Commands!LedgerBounded'
  BY <1>1, AdmitPlaces, AdmitLedger
<1>3. /\ execs' \in Seq(Commands!Exec) /\ ledger' \subseteq DOMAIN execs'
      /\ evicted' \subseteq DOMAIN execs'
      /\ Commands!InTurn' /\ Commands!NotTwice' /\ Kinds' /\ Accounted'
  BY <1>1, AdmitRest
<1>4. incomplete \in Nat /\ MaxIncomplete \in Nat /\ incomplete < MaxIncomplete
      /\ incomplete' = incomplete + 1
  BY <1>1 DEF Commands!TypeOK, Commands!Busy, Commands!Admit, Commands!CommandsAssumption
<1>5. /\ reservation = "none" /\ reservation' = cmd /\ receipt' = "pending"
      /\ endTask' \in {"pending", "done"} /\ UNCHANGED closing
  BY <1>1 DEF Commands!Withdraw, Commands!TypeOK
<1>6. Receipted'
  <2>1. \A e \in DOMAIN execs : ~(execs[e].cmd \in Withdrawal /\ Commands!Settled(e))
    BY <1>5 DEF Inv, Receipted, Commands!Settled
  <2> QED BY <2>1, <1>1, <1>5, AdmitKeepsReceipts DEF Receipted
<1>7. incomplete' \in 0 .. MaxIncomplete /\ LastPlace' /\ busy' = FALSE
  BY <1>1, <1>4, <1>5 DEF LastPlace, Commands!Admit, Inv, Commands!LedgerHolds,
     Commands!PlaceForWithdrawal, Commands!TypeOK
<1> QED BY <1>1, <1>2, <1>3, <1>5, <1>6, <1>7, AnswersAgreeNext, InvParts DEF Commands!TypeOK

LEMMA ReplayStep ==
  ASSUME Commands!CommandsAssumption, Inv, NEW id \in CommandId, NEW cmd \in Withdrawal,
         Commands!Replay(id, cmd)
  PROVE  Inv'
<1>1. cmd \in Commands!Command /\ cmd \notin Plain /\ Commands!Admit(id, cmd, TRUE, "applying")
      /\ ~Commands!Known(id)
      /\ UNCHANGED Commands!session /\ Commands!TypeOK /\ Commands!PlacesReturn
      /\ Commands!LedgerBounded
  BY TerminalIsNotPlain DEF Commands!Replay, Inv, Commands!LedgerHolds
<1>2. Commands!PlacesReturn' /\ Commands!LedgerBounded'
  BY <1>1, AdmitPlaces, AdmitLedger
<1>3. /\ execs' \in Seq(Commands!Exec) /\ ledger' \subseteq DOMAIN execs'
      /\ evicted' \subseteq DOMAIN execs'
      /\ Commands!InTurn' /\ Commands!NotTwice' /\ Kinds' /\ Accounted'
  BY <1>1, AdmitRest
<1>4. Receipted'
  BY <1>1, AdmitKeepsReceipts DEF Inv, Receipted, Commands!session
<1>5. incomplete' \in 0 .. MaxIncomplete /\ LastPlace' /\ busy' = FALSE
  BY <1>1 DEF LastPlace, Commands!Admit, Inv, Commands!LedgerHolds,
     Commands!PlaceForWithdrawal, Commands!TypeOK, Commands!session
<1> QED BY <1>1, <1>2, <1>3, <1>4, <1>5, AnswersAgreeNext, InvParts
DEF Commands!session, Commands!TypeOK

\* Settling an execution, as its turn or the session has it.
LEMMA SettleStep ==
  ASSUME Commands!CommandsAssumption, Inv, NEW e \in DOMAIN execs, NEW ok \in BOOLEAN,
         ~Commands!Settled(e), Commands!Settle(e, ok), UNCHANGED Commands!session,
         execs[e].state = "queued" => Commands!Turn(e),
         execs[e].cmd \in Withdrawal => receipt = IF ok THEN "ok" ELSE "failed"
  PROVE  Inv'
<1>1. Commands!TypeOK /\ Commands!PlacesReturn
  BY DEF Inv, Commands!LedgerHolds
<1>2. Commands!PlacesReturn' /\ incomplete' \in 0 .. incomplete /\ Commands!LedgerBounded'
  BY <1>1, SettlePlaces, SettleLedger
<1>3. /\ execs' \in Seq(Commands!Exec) /\ ledger' \subseteq DOMAIN execs'
      /\ evicted' \subseteq DOMAIN execs'
      /\ Commands!InTurn' /\ Commands!NotTwice' /\ Kinds' /\ Accounted'
  BY SettleRest
<1>4. Receipted'
  <2> DEFINE state == IF ok THEN "ok" ELSE "failed"
  <2>1. Moves(e, state)
    BY <1>1, StateMoves DEF Commands!Settle
  <2>2. execs[e].cmd \in Withdrawal => receipt = state
    OBVIOUS
  <2> HIDE DEF state
  <2>3. \A x \in DOMAIN execs' :
          execs'[x].cmd \in Withdrawal /\ Commands!Settled(x)' => execs'[x].state = receipt
    BY <2>1, <2>2 DEF Inv, Receipted, Commands!Settled, Moves
  <2> QED BY <2>3 DEF Inv, Receipted, Commands!session
<1>5. incomplete' \in 0 .. MaxIncomplete /\ LastPlace' /\ busy' = FALSE
  <2>1. incomplete \in 0 .. MaxIncomplete /\ MaxIncomplete \in Nat
    BY <1>1 DEF Commands!TypeOK, Commands!CommandsAssumption
  <2> QED BY <1>2, <2>1 DEF LastPlace, Commands!Settle, Inv, Commands!LedgerHolds,
     Commands!PlaceForWithdrawal, Commands!TypeOK, Commands!session
<1> QED BY <1>1, <1>2, <1>3, <1>4, <1>5, AnswersAgreeNext, InvParts
DEF Commands!session, Commands!TypeOK

LEMMA BeginStep ==
  ASSUME Commands!CommandsAssumption, Inv, NEW e \in DOMAIN execs, Commands!Begin(e)
  PROVE  Inv'
<1>1. execs[e].state = "queued" /\ Commands!Turn(e) /\ ~Commands!Settled(e)
      /\ UNCHANGED Commands!session
      /\ execs[e].cmd \in Plain /\ execs[e].cmd \notin Withdrawal
  BY TerminalIsNotPlain DEF Commands!Begin, Commands!Settled, Inv, Kinds
<1>2. CASE endTask = "none"
  <2>1. execs' = [execs EXCEPT ![e].state = "applying"]
        /\ UNCHANGED <<ledger, incomplete, evicted, busy>>
    BY <1>2 DEF Commands!Begin
  <2>2. Commands!TypeOK
    BY DEF Inv, Commands!LedgerHolds
  <2>3. Moves(e, "applying")
    BY <2>1, <2>2, StateMoves
  <2>4. \A x \in DOMAIN execs : Commands!Settled(x)' <=> Commands!Settled(x)
    BY <2>3, <1>1 DEF Moves, Commands!Settled
  <2>5. Pending' = Pending
    BY <2>3, <2>4 DEF Pending, Moves
  <2>6. Commands!PlacesReturn'
    BY <2>1, <2>5 DEF Inv, Commands!LedgerHolds, Commands!PlacesReturn, Pending
  <2>7. {x \in ledger' : ~Commands!Settled(x)'} = {x \in ledger : ~Commands!Settled(x)}
    BY <2>1, <2>2, <2>4 DEF Commands!TypeOK
  <2>8. Commands!LedgerBounded'
    BY <2>1, <2>7 DEF Inv, Commands!LedgerHolds, Commands!LedgerBounded
  <2>9. \A x \in DOMAIN execs : execs[x].cmd \in Plain /\ x < e => Commands!Settled(x)
    <3>1. \A x \in DOMAIN execs : execs[x].cmd \in Plain => ~execs[x].replay
      BY TerminalIsNotPlain DEF Inv, Kinds
    <3>2. \A x \in DOMAIN execs : x < e => x \in 1 .. e - 1
      BY <2>2, NumberedOfType DEF Numbered
    <3> QED BY <3>1, <3>2, <1>1 DEF Commands!Turn
  <2>10. Commands!InTurn'
    <3> SUFFICES ASSUME NEW i \in DOMAIN execs', NEW j \in DOMAIN execs', i < j,
                        execs'[i].cmd \in Plain, execs'[j].cmd \in Plain,
                        execs'[j].state # "queued"
                 PROVE  Commands!Settled(i)'
      BY DEF Commands!InTurn
    <3>1. i \in DOMAIN execs /\ j \in DOMAIN execs
          /\ execs[i].cmd \in Plain /\ execs[j].cmd \in Plain
          /\ (j # e => execs[j].state # "queued")
      BY <2>3 DEF Moves
    <3>2. Commands!Settled(i)
      BY <2>9, <3>1 DEF Inv, Commands!LedgerHolds, Commands!InTurn
    <3> QED BY <2>4, <3>1, <3>2
  <2>11. Commands!NotTwice' /\ Kinds' /\ Accounted'
    BY <2>1, <2>3, <1>1 DEF Inv, Commands!LedgerHolds, Commands!NotTwice, Kinds, Accounted, Moves
  <2>12. Receipted'
    <3>1. \A x \in DOMAIN execs' :
            execs'[x].cmd \in Withdrawal /\ Commands!Settled(x)' => execs'[x].state = receipt
      BY <2>3, <2>4, <1>1 DEF Inv, Receipted, Moves
    <3> QED BY <3>1, <1>1 DEF Inv, Receipted, Commands!session
  <2>13. LastPlace' /\ busy' = FALSE
    BY <1>1, <2>1, <2>2 DEF Inv, Commands!LedgerHolds, LastPlace, Commands!PlaceForWithdrawal,
       Commands!TypeOK, Commands!session
  <2> QED BY <1>1, <2>1, <2>2, <2>3, <2>6, <2>8, <2>10, <2>11, <2>12, <2>13, AnswersAgreeNext,
             InvParts DEF Commands!session, Commands!TypeOK, Moves
<1>3. CASE endTask # "none"
  BY <1>1, <1>3, SettleStep DEF Commands!Begin
<1> QED BY <1>2, <1>3

LEMMA FinishStep ==
  ASSUME Commands!CommandsAssumption, Inv, NEW e \in DOMAIN execs, NEW ok \in BOOLEAN,
         Commands!Finish(e, ok)
  PROVE  Inv'
BY TerminalIsNotPlain, SettleStep DEF Commands!Finish, Commands!Settled

LEMMA CompleteStep ==
  ASSUME Commands!CommandsAssumption, Inv, NEW e \in DOMAIN execs, Commands!Complete(e)
  PROVE  Inv'
<1>1. execs[e].state = "applying" /\ ~Commands!Settled(e) /\ UNCHANGED Commands!session
  BY DEF Commands!Complete, Commands!Settled
<1>2. CASE execs[e].cmd \in Withdrawal /\ receipt = "failed" /\ Commands!Settle(e, FALSE)
  BY <1>1, <1>2, SettleStep
<1>3. CASE (execs[e].cmd = "end" \/ receipt = "ok") /\ Commands!Settle(e, TRUE)
  BY <1>1, <1>3, TerminalIsNotPlain, SettleStep
<1> QED BY <1>2, <1>3 DEF Commands!Complete

\* The steps of the session itself leave the executions alone.
LEMMA SessionStep ==
  ASSUME Inv,
         Commands!ReceiptSettles \/ Commands!EndsItself \/ Commands!Closes \/ Commands!EndSettles
  PROVE  Inv'
<1>1. UNCHANGED <<execs, ledger, incomplete, evicted, busy, reservation>>
      /\ (receipt' = receipt \/ (receipt = "pending" /\ receipt' \in {"ok", "failed"}))
      /\ (endTask' = endTask \/ endTask' \in {"pending", "done"}) /\ closing' \in {closing, TRUE}
  BY DEF Commands!ReceiptSettles, Commands!EndsItself, Commands!Closes, Commands!EndSettles
<1>2. Commands!TypeOK' /\ Commands!InTurn' /\ Commands!NotTwice'
  BY <1>1 DEF Inv, Commands!LedgerHolds, Commands!TypeOK, Commands!InTurn, Commands!NotTwice,
     Commands!Settled
<1>5. Commands!PlacesReturn' /\ Commands!LedgerBounded'
  BY <1>1, Zenon DEF Inv, Commands!LedgerHolds, Commands!PlacesReturn, Commands!LedgerBounded,
     Commands!Settled
<1>3. Kinds' /\ Accounted' /\ LastPlace' /\ Commands!PlaceForWithdrawal'
  BY <1>1 DEF Inv, Commands!LedgerHolds, Kinds, Accounted, LastPlace, Commands!PlaceForWithdrawal
<1>4. Receipted'
  BY <1>1 DEF Inv, Receipted, Commands!Settled
<1> QED BY <1>2, <1>3, <1>4, <1>5, AnswersAgreeNext DEF Inv, Commands!LedgerHolds

-----------------------------------------------------------------------------
(***************************************************************************)
(* Theorems.                                                               *)
(***************************************************************************)
LEMMA InvInit ==
  ASSUME Commands!CommandsAssumption, Commands!Init
  PROVE  Inv
<1>1. execs = <<>> /\ DOMAIN execs = {} /\ ledger = {} /\ evicted = {} /\ incomplete = 0
      /\ MaxIncomplete \in Nat \ {0} /\ MaxSettled \in Nat
  BY DEF Commands!Init, Commands!CommandsAssumption
<1>2. Commands!TypeOK
  <2>1. execs \in Seq(Commands!Exec)
    BY <1>1, EmptySeq
  <2>2. 0 \in 0 .. MaxIncomplete
    BY <1>1
  <2>3. closing \in BOOLEAN /\ busy \in BOOLEAN
    BY DEF Commands!Init
  <2> QED BY <1>1, <2>1, <2>2, <2>3, Zenon DEF Commands!Init, Commands!TypeOK
<1>3. Commands!PlacesReturn /\ Commands!LedgerBounded
  <2>1. {e \in DOMAIN execs : ~execs[e].replay /\ ~Commands!Settled(e)} = {}
        /\ {e \in ledger : ~Commands!Settled(e)} = {}
    BY <1>1
  <2> QED BY <1>1, <2>1, FS_EmptySet, SameCardinality
  DEF Commands!PlacesReturn, Commands!LedgerBounded
<1>4. Commands!InTurn /\ Commands!NotTwice /\ Commands!SameAnswer /\ Kinds /\ Accounted
  BY <1>1 DEF Commands!InTurn, Commands!NotTwice, Commands!SameAnswer, Kinds, Accounted
<1>5. Commands!PlaceForWithdrawal /\ Receipted /\ LastPlace
  BY <1>1 DEF Commands!Init, Commands!PlaceForWithdrawal, Receipted, LastPlace
<1> QED BY <1>2, <1>3, <1>4, <1>5 DEF Inv, Commands!LedgerHolds

LEMMA InvNext ==
  ASSUME Commands!CommandsAssumption, Inv, [Commands!Next]_Commands!vars
  PROVE  Inv'
<1>1. ASSUME NEW id \in CommandId, NEW cmd \in Commands!Command, Commands!Refuse(id, cmd) PROVE Inv'
  BY <1>1, RefuseStep
<1>2. ASSUME NEW id \in CommandId, NEW cmd \in Plain, Commands!Submit(id, cmd) PROVE Inv'
  BY <1>2, SubmitStep
<1>3. ASSUME NEW id \in CommandId, NEW cmd \in Withdrawal, Commands!Withdraw(id,
       cmd) \/ Commands!Replay(id, cmd)
      PROVE  Inv'
  BY <1>3, WithdrawStep, ReplayStep
<1>4. ASSUME NEW id \in CommandId, Commands!End(id) PROVE Inv'
  BY <1>4, EndStep
<1>5. ASSUME NEW e \in DOMAIN execs, Commands!Begin(e) \/ Commands!Complete(e) PROVE Inv'
  BY <1>5, BeginStep, CompleteStep
<1>6. ASSUME NEW e \in DOMAIN execs, NEW ok \in BOOLEAN, Commands!Finish(e, ok) PROVE Inv'
  BY <1>6, FinishStep
<1>7. CASE Commands!ReceiptSettles \/ Commands!EndsItself \/ Commands!Closes \/ Commands!EndSettles
  BY <1>7, SessionStep
<1>8. CASE UNCHANGED Commands!vars
  BY <1>8 DEF Commands!vars, Inv, Commands!LedgerHolds, Commands!TypeOK, Commands!InTurn,
     Commands!NotTwice, Commands!SameAnswer, Commands!PlaceForWithdrawal,
       Commands!PlacesReturn, Commands!LedgerBounded, Kinds, Accounted, Receipted, LastPlace,
       Commands!Settled
<1> QED BY <1>1, <1>2, <1>3, <1>4, <1>5, <1>6, <1>7, <1>8 DEF Commands!Next

\* The ledger of commands (relay.ts command): commands are applied in the order
\* of their admission, none twice while it is executed or after it succeeded, a
\* withdrawal finds a place until an end is begun, its repetitions get the same
\* answer, every settled command returns its place, and the ledger is bounded.
THEOREM CommandLedger == Commands!Spec => []LedgerHolds
<1>. USE FlowAssumption
<1>1. Inv => LedgerHolds
  BY DEF Inv, LedgerHolds
<1>2. Commands!Init => Inv
  BY InvInit
<1>3. Inv /\ [Commands!Next]_Commands!vars => Inv'
  BY InvNext
<1> QED BY <1>1, <1>2, <1>3, PTL DEF Commands!Spec
================================================================================
