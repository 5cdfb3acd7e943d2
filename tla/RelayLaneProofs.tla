--------------------------- MODULE RelayLaneProofs ---------------------------
(***************************************************************************)
(* Proofs about RelayLane for every capacity and every number of cuts.     *)
(*                                                                         *)
(* The inductive invariant LaneInv says what the fence separates: what is  *)
(* of the present generation (the pending clear, the resumption awaited,   *)
(* the metadata), what an older one may still hold (runs, queued frames,   *)
(* held frames, acknowledgements), and what the log has of the present     *)
(* generation.  A step is first reduced to what it does to these (StepMoves)*)
(* and each part of LaneInv is then kept by every such move.               *)
(***************************************************************************)
EXTENDS RelayLane, SequenceTheorems, TLAPS

Entry == [type : Event, gen : Nat, turn : Nat]

\* Everything refers to the present generation or an older one.
FenceInv ==
  /\ \A i \in DOMAIN log : log[i].gen <= gen
  /\ \A c \in clears : c.gen = gen
  /\ \A c, d \in clears : c = d
  /\ \A c \in cancels : c.gen <= gen
  /\ resumption \in {-1, gen}
  /\ \A r \in DOMAIN runs : runs[r].gen <= gen
  /\ \A i \in DOMAIN playout : playout[i].gen <= gen
  /\ \A f \in held : f.gen <= gen
  /\ audio <= gen

\* The acknowledgements of a generation, of which the first may be handled.
AckInv ==
  \A g \in 0 .. gen :
    /\ \A i \in DOMAIN acks[g] : acks[g][i].gen = g
    /\ stage[g] # "none" => acks[g] # <<>>

\* What the log of the present generation has not yet.
Unlogged(types) == \A i \in DOMAIN log : log[i].gen = gen => log[i].type \notin types

ChainInv ==
  /\ clears # {} => Unlogged({"clear_acknowledged", "clear_failed"})
  /\ resumption = gen => Unlogged({"output_resumed", "clear_failed"})

LagInv ==
  \A i \in DOMAIN log : log[i].type = "playout_lag" /\ log[i].gen = gen => log[i].turn \in played

\* A cancel that is not reported yet has no outcome in the log.
CancelInv ==
  \A c \in cancels :
    /\ \A d \in cancels : c.gen = d.gen => c = d
    /\ \A i \in DOMAIN log : log[i].gen = c.gen => log[i].type \notin CancelOutcome

\* The failure of a translation follows its cut directly.
Caused ==
  \A j \in DOMAIN log : log[j].type \in Failure =>
    j - 1 \in DOMAIN log /\ log[j - 1].type = "generation_cut"

\* Nothing of the present generation is translated or queued.
Stale ==
  /\ \A r \in DOMAIN runs : runs[r].gen < gen
  /\ \A i \in DOMAIN playout : playout[i].gen < gen

StopInv ==
  /\ control # "none" => stopped
  /\ status = "paused" => stopped
  /\ stopped => Stale /\ audio # gen
  /\ drop # {} => audio = -1
  /\ \A d \in drop : ~d.active => Stale

\* The frames that left the queue precede those that are in it.
Passed(f) == f \in held \/ \E i \in DOMAIN acks[gen] : acks[gen][i] = f

OrderInv ==
  /\ \A i \in DOMAIN playout : playout[i].gen = gen => playout[i].seq <= lastSeq
  /\ \A i \in DOMAIN metadata : metadata[i].gen = gen /\ metadata[i].seq <= lastSeq
  /\ \A i, j \in DOMAIN metadata : i < j => metadata[i].seq < metadata[j].seq
  /\ \A f \in PlayoutFrame : Passed(f) /\ f.gen = gen =>
       /\ f.seq <= lastSeq
       /\ \A i \in DOMAIN playout : playout[i].gen = gen => f.seq < playout[i].seq

\* The queued frames of the present generation and the newest metadata are the
\* same frames, counted from the end of both.
Aligned ==
  \A i \in DOMAIN playout : playout[i].gen = gen =>
    /\ Len(playout) - i < Len(metadata)
    /\ metadata[Len(metadata) - (Len(playout) - i)] = playout[i]

Reached == \A d \in drop : d.side # "destination"

LaneInv ==
  /\ TypeOK /\ FenceInv /\ AckInv
  /\ ChainInv /\ CancelInv /\ LagInv /\ StopInv
  /\ OrderInv /\ (Reached => Aligned) /\ Caused
  /\ NoLateEvent /\ BargeChain /\ LagOnce /\ PlayoutOrdered

-----------------------------------------------------------------------------
(***************************************************************************)
(* The operators on sequences.                                             *)
(***************************************************************************)

\* KeepLast keeps the newest elements, at most QueueCap of them.
LEMMA KeepLastShape ==
  ASSUME LaneAssumption, NEW S, NEW s \in Seq(S)
  PROVE  /\ KeepLast(s) \in Seq(S)
         /\ Len(KeepLast(s)) <= QueueCap
         /\ Len(KeepLast(s)) = IF Len(s) > QueueCap THEN QueueCap ELSE Len(s)
         /\ \A i \in 1 .. Len(KeepLast(s)) :
              KeepLast(s)[i] = s[i + Len(s) - Len(KeepLast(s))]
<1>1. QueueCap \in Nat /\ QueueCap > 0 /\ Len(s) \in Nat
  BY DEF LaneAssumption
<1>2. CASE Len(s) > QueueCap
  <2>1. KeepLast(s) = SubSeq(s, 1 + (Len(s) - QueueCap), Len(s))
    BY <1>2 DEF KeepLast
  <2>2. \A i \in 1 + (Len(s) - QueueCap) .. Len(s) : s[i] \in S
    BY <1>1, <1>2
  <2>. DEFINE m == 1 + (Len(s) - QueueCap)
  <2>3. m \in Int /\ m <= Len(s) /\ Len(s) - m + 1 = QueueCap
    BY <1>1, <1>2
  <2>4. /\ SubSeq(s, m, Len(s)) \in Seq(S)
        /\ Len(SubSeq(s, m, Len(s))) = QueueCap
        /\ \A i \in 1 .. QueueCap : SubSeq(s, m, Len(s))[i] = s[m + i - 1]
    <3>. HIDE DEF m
    <3>. QED  BY <1>1, <2>2, <2>3, SubSeqProperties DEF m
  <2>. QED  BY <1>1, <1>2, <2>1, <2>3, <2>4
<1>3. CASE ~(Len(s) > QueueCap)
  <2>1. KeepLast(s) = SubSeq(s, 1, Len(s))
    BY <1>3 DEF KeepLast
  <2>2. KeepLast(s) = s
    BY <2>1, SubSeqFull
  <2>. QED  BY <1>1, <1>3, <2>2
<1>. QED  BY <1>2, <1>3

\* RemoveAt closes the gap of the element it removes.
LEMMA RemoveAtShape ==
  ASSUME NEW S, NEW s \in Seq(S), NEW i \in DOMAIN s
  PROVE  /\ RemoveAt(s, i) \in Seq(S)
         /\ Len(RemoveAt(s, i)) = Len(s) - 1
         /\ \A j \in 1 .. Len(s) - 1 : RemoveAt(s, i)[j] = IF j < i THEN s[j] ELSE s[j + 1]
<1>. DEFINE a == SubSeq(s, 1, i - 1)
            b == SubSeq(s, i + 1, Len(s))
<1>1. Len(s) \in Nat /\ i \in 1 .. Len(s)
  OBVIOUS
<1>2. a \in Seq(S) /\ Len(a) = i - 1 /\ \A j \in 1 .. i - 1 : a[j] = s[j]
  BY <1>1, SubSeqProperties, \A j \in 1 .. i - 1 : s[j] \in S
<1>3. b \in Seq(S) /\ Len(b) = Len(s) - i /\ \A j \in 1 .. Len(s) - i : b[j] = s[i + j]
  BY <1>1, SubSeqProperties, \A j \in i + 1 .. Len(s) : s[j] \in S
<1>4. RemoveAt(s, i) = a \o b
  BY DEF RemoveAt
<1>. HIDE DEF a, b
<1>5. /\ a \o b \in Seq(S) /\ Len(a \o b) = Len(a) + Len(b)
      /\ \A j \in 1 .. Len(a) + Len(b) : (a \o b)[j] = IF j <= Len(a) THEN a[j] ELSE b[j - Len(a)]
  BY <1>2, <1>3, ConcatProperties
<1>6. Len(a) + Len(b) = Len(s) - 1
  BY <1>1, <1>2, <1>3
<1>7. ASSUME NEW j \in 1 .. Len(s) - 1
      PROVE  (a \o b)[j] = IF j < i THEN s[j] ELSE s[j + 1]
  <2>1. CASE j < i
    BY <1>1, <1>2, <1>5, <1>6, <2>1
  <2>2. CASE ~(j < i)
    <3>1. j - (i - 1) \in 1 .. Len(s) - i /\ ~(j <= i - 1) /\ j \in 1 .. Len(a) + Len(b)
      BY <1>1, <1>6, <2>2
    <3>3. (a \o b)[j] = b[j - Len(a)]
      BY <1>2, <1>5, <3>1
    <3>2. i + (j - (i - 1)) = j + 1
      BY <1>1
    <3>. QED  BY <1>2, <1>3, <2>2, <3>1, <3>2, <3>3
  <2>. QED  BY <2>1, <2>2
<1>. QED  BY <1>4, <1>5, <1>6, <1>7

\* A log that grows keeps its entries and has the new ones after them.
LEMMA Grown ==
  ASSUME NEW S, NEW s \in Seq(S), NEW t \in Seq(S)
  PROVE  /\ s \o t \in Seq(S)
         /\ DOMAIN s \subseteq DOMAIN (s \o t)
         /\ \A i \in DOMAIN s : (s \o t)[i] = s[i] /\ i <= Len(s)
         /\ \A i \in DOMAIN (s \o t) : i \notin DOMAIN s =>
              i > Len(s) /\ i - Len(s) \in DOMAIN t /\ (s \o t)[i] = t[i - Len(s)]
<1>1. /\ s \o t \in Seq(S) /\ Len(s \o t) = Len(s) + Len(t)
      /\ \A i \in 1 .. Len(s) + Len(t) : (s \o t)[i] = IF i <= Len(s) THEN s[i] ELSE t[i - Len(s)]
  BY ConcatProperties
<1>2. Len(s) \in Nat /\ Len(t) \in Nat /\ DOMAIN s = 1 .. Len(s) /\ DOMAIN t = 1 .. Len(t)
      /\ DOMAIN (s \o t) = 1 .. Len(s) + Len(t)
  BY <1>1, LenProperties
<1>. QED  BY <1>1, <1>2

\* A frame that is queued becomes the last one; the others keep their distance
\* from it.
Push(s, e, t) ==
  /\ Len(t) <= QueueCap /\ Len(t) \in Nat \ {0}
  /\ Len(t) = IF Len(s) + 1 > QueueCap THEN QueueCap ELSE Len(s) + 1
  /\ t[Len(t)] = e
  /\ \A i \in 1 .. Len(t) - 1 : /\ i + (Len(s) + 1 - Len(t)) \in 1 .. Len(s)
                               /\ t[i] = s[i + (Len(s) + 1 - Len(t))]

LEMMA Pushed ==
  ASSUME LaneAssumption, NEW S, NEW s \in Seq(S), NEW e \in S
  PROVE  KeepLast(Append(s, e)) \in Seq(S) /\ Push(s, e, KeepLast(Append(s, e)))
<1>. DEFINE t == KeepLast(Append(s, e))
<1>. DEFINE a == Append(s, e)
<1>1. /\ a \in Seq(S) /\ Len(a) = Len(s) + 1 /\ Len(s) \in Nat
      /\ \A i \in 1 .. Len(s) : a[i] = s[i]
      /\ a[Len(s) + 1] = e
  BY AppendProperties
<1>2. QueueCap \in Nat \ {0}
  BY DEF LaneAssumption
<1>. HIDE DEF a, t
<1>3. /\ t \in Seq(S) /\ Len(t) <= QueueCap
      /\ Len(t) = IF Len(s) + 1 > QueueCap THEN QueueCap ELSE Len(s) + 1
      /\ \A i \in 1 .. Len(t) : t[i] = a[i + Len(a) - Len(t)]
  BY <1>1, KeepLastShape DEF a, t
<1>4. Len(t) \in Nat \ {0} /\ Len(t) <= Len(s) + 1
  BY <1>1, <1>2, <1>3
<1>5. t[Len(t)] = e
  <2>1. Len(t) + Len(a) - Len(t) = Len(s) + 1 /\ Len(t) \in 1 .. Len(t)
    BY <1>1, <1>4
  <2>. QED  BY <1>1, <1>3, <2>1
<1>6. ASSUME NEW i \in 1 .. Len(t) - 1
      PROVE  /\ i + (Len(s) + 1 - Len(t)) \in 1 .. Len(s)
             /\ t[i] = s[i + (Len(s) + 1 - Len(t))]
  <2>1. i + Len(a) - Len(t) = i + (Len(s) + 1 - Len(t)) /\ i \in 1 .. Len(t)
        /\ i + (Len(s) + 1 - Len(t)) \in 1 .. Len(s)
    BY <1>1, <1>4
  <2>. QED  BY <1>1, <1>3, <2>1
<1>7. t \in Seq(S) /\ Push(s, e, t)
  BY <1>3, <1>4, <1>5, <1>6 DEF Push
<1>. QED  BY <1>7 DEF t

-----------------------------------------------------------------------------
(***************************************************************************)
(* What a step does to the generations, in a few forms.                    *)
(***************************************************************************)
core == <<gen, lastSeq, playout, metadata, held, acks, stage, played, clears, cancels,
          resumption, log>>

SameRuns ==
  DOMAIN runs' = DOMAIN runs /\ \A r \in DOMAIN runs : runs'[r].gen = runs[r].gen

\* The runs of captured frames are of the present generation.
MoreRuns ==
  /\ ~stopped /\ drop = {} /\ UNCHANGED <<stopped, drop, status, control>>
  /\ \A r \in DOMAIN runs' : runs'[r].gen = gen \/ (r \in DOMAIN runs /\ runs'[r].gen = runs[r].gen)

Silent == UNCHANGED core

\* What a cut adds to the log: its record, with the failure that causes it.
CutLog(barge) ==
  \/ log' = log \o CutRecord(barge)
  \/ \E g \in 0 .. gen, failure \in Failure :
       ~barge /\ log' = log \o (CutRecord(FALSE) \o <<At(g, failure)>>)
  \/ /\ ~barge /\ clears # {}
     /\ log' = log \o (<<At(gen, "clear_failed")>> \o CutRecord(FALSE))

CutMove(barge) ==
  /\ gen' = gen + 1 /\ lastSeq' = 0 /\ metadata' = <<>> /\ played' = {}
  /\ acks' = [g \in 0 .. gen + 1 |-> IF g <= gen THEN acks[g] ELSE <<>>]
  /\ stage' = [g \in 0 .. gen + 1 |-> IF g <= gen THEN stage[g] ELSE "none"]
  /\ clears' = {[gen |-> gen + 1, barge |-> barge]}
  /\ cancels' = cancels \cup {[gen |-> gen + 1, barge |-> barge]}
  /\ resumption' = IF barge THEN gen + 1 ELSE -1
  /\ CutLog(barge)
  /\ UNCHANGED <<playout, held>>

PurgeMove ==
  /\ metadata' = <<>> /\ ~Reached'
  /\ UNCHANGED <<gen, lastSeq, playout, held, acks, stage, played, clears, cancels, resumption, log>>

EmitMove(f) ==
  /\ f.gen = gen /\ f.seq > lastSeq /\ (\E r \in DOMAIN runs : runs[r].gen = gen)
  /\ lastSeq' = f.seq
  /\ metadata' = KeepLast(Append(metadata, f))
  /\ playout' = KeepLast(Append(playout, f))
  /\ UNCHANGED <<gen, held, acks, stage, played, clears, cancels, resumption, log>>

HandMove ==
  /\ UNCHANGED <<gen, lastSeq, metadata, stage, played, clears, cancels, resumption, log>>
  /\ \/ /\ playout # <<>> /\ playout' = Tail(playout) /\ UNCHANGED acks
        /\ held' = IF Head(playout).gen = gen THEN held \cup {Head(playout)} ELSE held
     \/ /\ UNCHANGED playout /\ held' \subseteq held
        /\ \/ UNCHANGED acks
           \/ \E f \in held : /\ f.gen = gen /\ Len(acks[gen]) < AckCap
                              /\ acks' = [acks EXCEPT ![gen] = Append(@, f)]

ClearMove ==
  /\ UNCHANGED <<gen, lastSeq, playout, metadata, acks, stage, played, cancels>>
  /\ held' \subseteq held
  /\ \/ \E c \in clears :
          /\ clears' = clears \ {c} /\ UNCHANGED resumption
          /\ log' = log \o (IF c.barge THEN <<At(gen, "clear_acknowledged")>> ELSE <<>>)
     \/ /\ clears # {} /\ clears' = {} /\ resumption' = -1
        /\ \E new \in {<<>>, <<At(gen, "clear_failed")>>} : log' = log \o new
     \/ clears' \subseteq clears /\ resumption' \in {resumption, -1} /\ UNCHANGED log

\* The outcome of a cancel is reported.
CancelMove ==
  /\ UNCHANGED <<gen, lastSeq, playout, metadata, held, acks, stage, played, clears, resumption>>
  /\ \E c \in cancels, outcome \in CancelOutcome :
       cancels' = cancels \ {c} /\ log' = log \o <<At(c.gen, outcome)>>

\* The metadata of the first acknowledgement is taken.
TakeMove(g) ==
  /\ acks[g] # <<>>
  /\ UNCHANGED <<gen, lastSeq, playout, held, played, clears, cancels, resumption, log>>
  /\ \/ UNCHANGED metadata
     \/ /\ g = gen
        /\ \E i \in DOMAIN metadata : metadata[i] = Ack(g) /\ metadata' = RemoveAt(metadata, i)
  /\ \/ Settle(g)
     \/ \E s \in Stage : MoveTo(g, s)

\* What an acknowledgement adds to the log.
Resumed(g) ==
  \/ UNCHANGED <<log, played, resumption>>
  \/ /\ g = gen /\ resumption' = IF resumption = g THEN -1 ELSE resumption
     /\ UNCHANGED played
     /\ \E new \in {<<>>, <<At(g, "audio_playout")>>} :
          log' = log \o (new \o (IF resumption = g THEN <<At(g, "output_resumed")>> ELSE <<>>))
  \/ /\ g = gen /\ Ack(g).turn \notin played
     /\ played' = played \cup {Ack(g).turn} /\ UNCHANGED resumption
     /\ log' = log \o <<Lag(Ack(g))>>

AckMove(g) ==
  /\ acks[g] # <<>>
  /\ UNCHANGED <<gen, lastSeq, playout, metadata, held, clears, cancels>>
  /\ Resumed(g)
  /\ \/ Settle(g)
     \/ \E s \in Stage : MoveTo(g, s)

Moves ==
  \/ Silent /\ (SameRuns \/ MoreRuns)
  \/ \E barge \in BOOLEAN : CutMove(barge) /\ SameRuns
  \/ PurgeMove /\ SameRuns
  \/ \E f \in PlayoutFrame : EmitMove(f) /\ SameRuns
  \/ HandMove /\ SameRuns
  \/ ClearMove /\ SameRuns
  \/ CancelMove /\ SameRuns
  \/ \E g \in 0 .. gen : (TakeMove(g) \/ AckMove(g)) /\ SameRuns

\* A cut closes and aborts the current run, and keeps all generations.
LEMMA AbortShape ==
  ASSUME TypeOK
  PROVE  /\ AbortCurrent \in Seq(Run) /\ Len(AbortCurrent) = Len(runs)
         /\ \A r \in DOMAIN runs : /\ AbortCurrent[r].gen = runs[r].gen
                                   /\ AbortCurrent[r].input = runs[r].input
<1>1. runs \in Seq(Run) /\ current \in 0 .. Len(runs) /\ Len(runs) \in Nat
  BY DEF TypeOK
<1>2. ASSUME NEW x \in Run
      PROVE  CloseRun(x) \in Run /\ CloseRun(x).gen = x.gen /\ CloseRun(x).input = x.input
  BY DEF CloseRun, Run
<1>3. CASE current = 0
  BY <1>1, <1>3 DEF AbortCurrent
<1>4. CASE current # 0
  <2>1. current \in 1 .. Len(runs) /\ runs[current] \in Run
    BY <1>1, <1>4
  <2>2. AbortCurrent = [runs EXCEPT ![current] = CloseRun(runs[current])]
    BY <1>4 DEF AbortCurrent
  <2>3. CloseRun(runs[current]) \in Run
    BY <1>2, <2>1
  <2>4. /\ AbortCurrent \in Seq(Run) /\ Len(AbortCurrent) = Len(runs)
        /\ \A j \in 1 .. Len(runs) :
             AbortCurrent[j] = IF j = current THEN CloseRun(runs[current]) ELSE runs[j]
    BY <1>1, <2>1, <2>2, <2>3, ExceptSeq
  <2>. QED  BY <1>1, <1>2, <2>1, <2>4
<1>. QED  BY <1>3, <1>4

\* A run that is over keeps its generation.
LEMMA ForgetShape ==
  ASSUME NEW rs \in Seq(Run), NEW r \in DOMAIN rs
  PROVE  /\ Forget(rs, r) \in Seq(Run) /\ Len(Forget(rs, r)) = Len(rs)
         /\ \A q \in DOMAIN rs : /\ Forget(rs, r)[q].gen = rs[q].gen
                                 /\ Len(Forget(rs, r)[q].input) <= Len(rs[q].input)
<1>1. r \in 1 .. Len(rs) /\ rs[r] \in Run /\ DOMAIN rs = 1 .. Len(rs)
  OBVIOUS
<1>. DEFINE x == [rs[r] EXCEPT !.alive = FALSE, !.input = <<>>, !.owed = 0]
<1>2. x \in Run /\ x.gen = rs[r].gen /\ x.input = <<>>
  <2>1. <<>> \in Seq(Frame) /\ 0 \in Nat
    OBVIOUS
  <2>. QED  BY <1>1, <2>1 DEF Run
<1>3. Forget(rs, r) = [rs EXCEPT ![r] = x]
  BY <1>1, <1>2 DEF Forget, Run
<1>. HIDE DEF x
<1>4. /\ Forget(rs, r) \in Seq(Run) /\ Len(Forget(rs, r)) = Len(rs)
      /\ \A q \in 1 .. Len(rs) : Forget(rs, r)[q] = IF q = r THEN x ELSE rs[q]
  BY <1>1, <1>2, <1>3, ExceptSeq
<1>5. ASSUME NEW q \in 1 .. Len(rs) PROVE rs[q].input \in Seq(Frame) /\ Len(rs[q].input) \in Nat
  <2>1. rs[q] \in Run
    OBVIOUS
  <2>. QED  BY <2>1 DEF Run
<1>. QED  BY <1>1, <1>2, <1>4, <1>5

\* An offer takes the frames into the current run, or into a new one of the
\* present generation.
LEMMA OfferShape ==
  ASSUME LaneAssumption, TypeOK, NEW fs \in Seq(Frame), NEW close \in BOOLEAN, Offer(fs, close)
  PROVE  /\ runs' \in Seq(Run) /\ current' \in 0 .. Len(runs')
         /\ \A r \in DOMAIN runs' : Len(runs'[r].input) <= InputCap
         /\ \A r \in DOMAIN runs' :
              runs'[r].gen = gen \/ (r \in DOMAIN runs /\ runs'[r].gen = runs[r].gen)
<1>. DEFINE new == [gen |-> gen, input |-> <<>>, owed |-> 0, closed |-> FALSE,
                    aborted |-> FALSE, alive |-> TRUE]
            reuse == /\ current # 0
                     /\ runs[current].gen = gen /\ ~runs[current].closed
            all == IF reuse \/ fs = <<>> THEN runs ELSE Append(runs, new)
            c == IF reuse \/ fs = <<>> THEN current ELSE Len(all)
            put(input) == LET i == input \o fs IN
                      SubSeq(i, 1 + (IF Len(i) > InputCap THEN Len(i) - InputCap ELSE 0), Len(i))
<1>1. /\ current' = c
      /\ runs' = IF c = 0 THEN all
                 ELSE [all EXCEPT ![c].input = put(@), ![c].closed = @ \/ close]
  BY DEF Offer
<1>2. /\ runs \in Seq(Run) /\ current \in 0 .. Len(runs) /\ gen \in Nat /\ Len(runs) \in Nat
      /\ \A r \in DOMAIN runs : Len(runs[r].input) <= InputCap
      /\ InputCap \in Nat
  BY DEF TypeOK, LaneAssumption
<1>3. new \in Run /\ new.gen = gen /\ new.input = <<>>
  BY <1>2 DEF Run
<1>. HIDE DEF new
<1>4. /\ all \in Seq(Run) /\ c \in 0 .. Len(all)
      /\ \A r \in DOMAIN all : /\ all[r].gen = gen \/ (r \in DOMAIN runs /\ all[r].gen = runs[r].gen)
                               /\ Len(all[r].input) <= InputCap
  <2>1. CASE reuse \/ fs = <<>>
    BY <1>2, <2>1
  <2>2. CASE ~(reuse \/ fs = <<>>)
    <3>1. all = Append(runs, new) /\ c = Len(all)
      BY <2>2
    <3>2. /\ Append(runs, new) \in Seq(Run) /\ Len(Append(runs, new)) = Len(runs) + 1
          /\ \A i \in 1 .. Len(runs) : Append(runs, new)[i] = runs[i]
          /\ Append(runs, new)[Len(runs) + 1] = new
      BY <1>2, <1>3, AppendProperties
    <3>. QED  BY <1>2, <1>3, <3>1, <3>2
  <2>. QED  BY <2>1, <2>2
<1>. HIDE DEF all, c, reuse
<1>5. CASE c = 0
  BY <1>1, <1>4, <1>5
<1>6. CASE c # 0
  <2>. DEFINE x == all[c]
              z == [x EXCEPT !.input = put(x.input), !.closed = x.closed \/ close]
  <2>0. c \in 1 .. Len(all) /\ x \in Run
    BY <1>4, <1>6
  <2>1. c \in 1 .. Len(all) /\ x \in Run /\ x.input \in Seq(Frame) /\ x.closed \in BOOLEAN
    BY <2>0 DEF Run
  <2>2. put(x.input) \in Seq(Frame) /\ Len(put(x.input)) <= InputCap
    <3>. DEFINE i == x.input \o fs
                m == 1 + (IF Len(i) > InputCap THEN Len(i) - InputCap ELSE 0)
    <3>1. i \in Seq(Frame) /\ Len(i) \in Nat
      BY <2>1, ConcatProperties
    <3>2. put(x.input) = SubSeq(i, m, Len(i))
      OBVIOUS
    <3>. HIDE DEF i
    <3>3. m \in Nat /\ m >= 1 /\ Len(i) - m + 1 <= InputCap
      BY <1>2, <3>1
    <3>. HIDE DEF m
    <3>4. \A j \in m .. Len(i) : i[j] \in Frame
      BY <3>1, <3>3
    <3>5. SubSeq(i, m, Len(i)) \in Seq(Frame)
          /\ Len(SubSeq(i, m, Len(i))) = IF m <= Len(i) THEN Len(i) - m + 1 ELSE 0
      BY <3>1, <3>3, <3>4, SubSeqProperties
    <3>6. Len(SubSeq(i, m, Len(i))) <= InputCap
      BY <1>2, <3>1, <3>3, <3>5
    <3>. QED  BY <3>2, <3>5, <3>6
  <2>. HIDE DEF put
  <2>3. z \in Run /\ z.gen = x.gen /\ z.input = put(x.input)
    BY <2>1, <2>2 DEF Run
  <2>4. runs' = [all EXCEPT ![c] = z]
    BY <1>1, <1>4, <1>6, <2>1 DEF Run
  <2>. HIDE DEF z
  <2>5. /\ runs' \in Seq(Run) /\ Len(runs') = Len(all)
        /\ \A j \in 1 .. Len(all) : runs'[j] = IF j = c THEN z ELSE all[j]
    BY <1>4, <2>1, <2>3, <2>4, ExceptSeq
  <2>. QED  BY <1>1, <1>4, <2>1, <2>2, <2>3, <2>5
<1>. QED  BY <1>5, <1>6

\* A record with an exception has its other fields unchanged.
LEMMA SameRunsKept ==
  ASSUME TypeOK, runs' = runs \/ runs' = AbortCurrent
  PROVE  SameRuns
<1>1. CASE runs' = runs
  BY <1>1 DEF SameRuns
<1>2. CASE runs' = AbortCurrent
  <2>1. runs \in Seq(Run)
    BY DEF TypeOK
  <2>2. AbortCurrent \in Seq(Run) /\ Len(AbortCurrent) = Len(runs)
    BY AbortShape
  <2>3. DOMAIN AbortCurrent = DOMAIN runs
    BY <2>1, <2>2
  <2>. QED  BY <1>2, <2>3, AbortShape DEF SameRuns
<1>. QED  BY <1>1, <1>2

LEMMA CutMoves ==
  ASSUME TypeOK, NEW barge \in BOOLEAN, Cut(barge), UNCHANGED <<playout, held>>
  PROVE  Moves
<1>1. CutMove(barge) /\ runs' = AbortCurrent
  BY DEF Cut, CutFence, CutMove, CutLog
<1>. QED  BY <1>1, SameRunsKept DEF Moves

LEMMA NoCutMoves ==
  ASSUME TypeOK, NoCut, UNCHANGED <<playout, held>>
  PROVE  Moves
<1>1. Silent /\ runs' = runs
  BY DEF NoCut, Silent, core
<1>. QED  BY <1>1, SameRunsKept DEF Moves

LEMMA EndMoves ==
  ASSUME TypeOK, BeginEnd, UNCHANGED <<playout, held>>
  PROVE  Moves
<1>1. CASE ended
  BY <1>1, NoCutMoves DEF BeginEnd
<1>2. CASE ~ended
  BY <1>2, CutMoves DEF BeginEnd
<1>. QED  BY <1>1, <1>2

LEMMA CommandMoves ==
  ASSUME TypeOK, Pause \/ Resume \/ Start \/ ControlDurable \/ End
  PROVE  Moves
<1>1. ASSUME Pause \/ Resume PROVE Moves
  BY <1>1, CutMoves DEF Pause, Resume
<1>2. ASSUME Start \/ ControlDurable PROVE Moves
  <2>1. Silent /\ runs' = runs
    BY <1>2 DEF Start, ControlDurable, Silent, core, outputs, evidence
  <2>. QED  BY <2>1, SameRunsKept DEF Moves
<1>3. ASSUME End PROVE Moves
  BY <1>3, EndMoves DEF End
<1>. QED  BY <1>1, <1>2, <1>3

LEMMA IngressMoves ==
  ASSUME LaneAssumption, TypeOK, StopInv, FenceInv, IngressNext
  PROVE  Moves
<1>1. ASSUME SourceStarts \/ DestinationEnds \/ AudioArrives \/ (\E p \in Party : Disconnect(p))
      PROVE  Moves
  <2>1. Silent /\ runs' = runs
    BY <1>1 DEF SourceStarts, DestinationEnds, AudioArrives, Disconnect, Silent, core, outputs, evidence
  <2>. QED  BY <2>1, SameRunsKept DEF Moves
<1>2. ASSUME DestinationStarts PROVE Moves
  <2>1. UNCHANGED <<playout, held>>
    BY <1>2 DEF DestinationStarts
  <2>2. NoCut \/ Cut(TRUE)
    BY <1>2 DEF DestinationStarts
  <2>. QED  BY <2>1, <2>2, NoCutMoves, CutMoves
<1>3. ASSUME SourceEnds PROVE Moves
  <2>1. Silent
    BY <1>3 DEF SourceEnds, Silent, core, outputs, evidence
  <2>2. CASE stopped
    <3>1. runs' = runs
      BY <1>3, <2>2 DEF SourceEnds
    <3>. QED  BY <2>1, <3>1, SameRunsKept DEF Moves
  <2>3. CASE ~stopped
    <3>1. Offer(pending, TRUE) /\ drop = {} /\ UNCHANGED <<stopped, drop, status, control>>
      BY <1>3, <2>3 DEF SourceEnds, IngressIdle, session
    <3>2. pending \in Seq(Frame)
      BY DEF TypeOK
    <3>3. MoreRuns
      BY <2>3, <3>1, <3>2, OfferShape DEF MoreRuns
    <3>. QED  BY <2>1, <3>3 DEF Moves
  <2>. QED  BY <2>2, <2>3
<1>4. ASSUME AudioDurable PROVE Moves
  <2>1. UNCHANGED <<playout, held>> /\ audio # -1
    BY <1>4 DEF AudioDurable
  <2>2. CASE status # "active" \/ audio # gen
    BY <1>4, <2>1, <2>2, NoCutMoves DEF AudioDurable
  <2>3. CASE status = "active" /\ audio = gen /\ ~speechEnd
    <3>1. Silent /\ Offer(<<audio>>, FALSE) /\ UNCHANGED session
      BY <1>4, <2>3 DEF AudioDurable, Silent, core
    <3>2. <<audio>> \in Seq(Frame)
      BY <2>3 DEF TypeOK, Frame
    <3>3. ~stopped /\ drop = {}
      BY <2>1, <2>3 DEF StopInv
    <3>4. MoreRuns
      BY <3>1, <3>2, <3>3, OfferShape DEF MoreRuns, session
    <3>. QED  BY <3>1, <3>4 DEF Moves
  <2>4. CASE status = "active" /\ audio = gen /\ speechEnd /\ Len(pending) < InputCap
    <3>1. Silent /\ runs' = runs
      BY <1>4, <2>4 DEF AudioDurable, Silent, core
    <3>. QED  BY <3>1, SameRunsKept DEF Moves
  <2>5. CASE status = "active" /\ audio = gen /\ speechEnd /\ ~(Len(pending) < InputCap)
    BY <1>4, <2>1, <2>5, EndMoves DEF AudioDurable
  <2>. QED  BY <2>2, <2>3, <2>4, <2>5
<1>5. ASSUME DisconnectDurable PROVE Moves
  <2>1. PICK d \in drop :
          /\ drop' = {[d EXCEPT !.prev = status]}
          /\ IF d.side = "source" THEN runs' = AbortCurrent /\ UNCHANGED metadata
             ELSE metadata' = <<>> /\ UNCHANGED runs
          /\ UNCHANGED <<gen, lastSeq, playout, held, acks, stage, played, clears, cancels, resumption, log>>
    BY <1>5 DEF DisconnectDurable, outputs, evidence
  <2>2. SameRuns
    BY <2>1, SameRunsKept
  <2>3. CASE d.side = "source"
    BY <2>1, <2>2, <2>3 DEF Moves, Silent, core
  <2>4. CASE d.side # "source"
    <3>1. d \in Drop
      BY DEF TypeOK
    <3>2. [d EXCEPT !.prev = status].side = "destination"
      BY <2>4, <3>1 DEF Drop, Party
    <3>3. ~Reached'
      BY <2>1, <3>2 DEF Reached
    <3>4. PurgeMove
      BY <2>1, <2>4, <3>3 DEF PurgeMove
    <3>. QED  BY <2>2, <3>4 DEF Moves
  <2>. QED  BY <2>3, <2>4
<1>6. ASSUME Disconnected PROVE Moves
  <2>1. UNCHANGED <<playout, held>> /\ (NoCut \/ Cut(FALSE))
    BY <1>6 DEF Disconnected
  <2>. QED  BY <2>1, NoCutMoves, CutMoves
<1>7. ASSUME NEW g \in 1 .. gen, ClearAcknowledged(g) PROVE Moves
  <2>1. PICK c \in clears :
          /\ c.gen = g /\ g = gen /\ clears' = clears \ {c}
          /\ log' = IF c.barge THEN Append(log, At(g, "clear_acknowledged")) ELSE log
    BY <1>7 DEF ClearAcknowledged
  <2>2. UNCHANGED <<gen, lastSeq, playout, metadata, acks, stage, played, held, cancels, resumption, runs>>
    BY <1>7 DEF ClearAcknowledged, outputs, evidence
  <2>3. log \in Seq(Entry) /\ At(g, "clear_acknowledged") \in Entry
    BY DEF TypeOK, Entry, At, Event
  <2>4. log' = log \o (IF c.barge THEN <<At(gen, "clear_acknowledged")>> ELSE <<>>)
    BY <2>1, <2>3, AppendIsConcat, ConcatEmptySeq
  <2>5. ClearMove
    BY <2>1, <2>2, <2>4 DEF ClearMove
  <2>. QED  BY <2>2, <2>5, SameRunsKept DEF Moves
<1>. QED  BY <1>1, <1>2, <1>3, <1>4, <1>5, <1>6, <1>7 DEF IngressNext

LEMMA TranslationMoves ==
  ASSUME LaneAssumption, TypeOK, FenceInv, TranslationNext
  PROVE  Moves
<1>0. runs \in Seq(Run) /\ lastSeq \in Nat /\ gen \in Nat /\ log \in Seq(Entry)
  BY DEF TypeOK, Entry
<1>a. ASSUME NEW r \in DOMAIN runs, NEW failure \in Failure,
             CutFence(FALSE, {}), log' = log \o FailureRecord(r, failure), UNCHANGED <<playout, held>>
      PROVE  CutMove(FALSE)
  <2>1. runs[r] \in Run
    BY <1>0
  <2>2. runs[r].gen \in 0 .. gen
    BY <1>0, <2>1 DEF Run, FenceInv
  <2>3. CutLog(FALSE)
    BY <1>a, <2>2 DEF CutLog, FailureRecord
  <2>. QED  BY <1>a, <2>3 DEF CutFence, CutMove
<1>1. ASSUME NEW r \in DOMAIN runs, Consume(r) PROVE Moves
  <2>1. Silent
    BY <1>1 DEF Consume, Silent, core, outputs, evidence
  <2>2. SameRuns
    <3>1. runs' = [runs EXCEPT ![r].input = Tail(@), ![r].owed = @ + 1]
      BY <1>1 DEF Consume
    <3>2. DOMAIN runs' = DOMAIN runs /\ \A q \in DOMAIN runs : q # r => runs'[q] = runs[q]
      BY <3>1, <1>0
    <3>3. runs[r] \in Run
      BY <1>0
    <3>4. runs'[r].gen = runs[r].gen
      BY <3>1, <1>0, <3>3 DEF Run
    <3>. QED  BY <3>2, <3>4 DEF SameRuns
  <2>. QED  BY <2>1, <2>2 DEF Moves
<1>2. ASSUME NEW r \in DOMAIN runs, ProviderError(r) PROVE Moves
  <2>1. CutMove(FALSE) /\ runs' = AbortCurrent
    BY <1>2, <1>a DEF ProviderError, Failure
  <2>. QED  BY <2>1, SameRunsKept DEF Moves
<1>3. ASSUME NEW r \in DOMAIN runs, RunEnds(r) PROVE Moves
  <2>1. Silent /\ runs' = Forget(runs, r)
    BY <1>3 DEF RunEnds, Silent, core, outputs, evidence
  <2>2. SameRuns
    BY <1>0, <2>1, ForgetShape DEF SameRuns
  <2>. QED  BY <2>1, <2>2 DEF Moves
<1>4. ASSUME NEW r \in DOMAIN runs, RunFails(r) PROVE Moves
  <2>1. CutMove(FALSE) /\ runs' = Forget(AbortCurrent, r)
    BY <1>4, <1>a DEF RunFails, Failure
  <2>2. SameRuns
    BY <1>0, <2>1, ForgetShape, AbortShape DEF SameRuns
  <2>. QED  BY <2>1, <2>2 DEF Moves
<1>5. ASSUME NEW r \in DOMAIN runs, NEW seq \in lastSeq .. lastSeq + 2, Emit(r, seq) PROVE Moves
  <2>1. runs' = [runs EXCEPT ![r].owed = @ - 1]
    BY <1>5 DEF Emit
  <2>2. runs[r] \in Run
    BY <1>0
  <2>3. SameRuns
    BY <1>0, <2>1, <2>2 DEF SameRuns, Run
  <2>4. UNCHANGED <<gen, held, acks, stage, played, clears, cancels, resumption, log>>
    BY <1>5 DEF Emit, evidence
  <2>5. CASE ~Accepts(r, seq)
    BY <1>5, <2>3, <2>4, <2>5 DEF Moves, Silent, core, Emit
  <2>6. CASE Accepts(r, seq)
    <3>. DEFINE f == PlayoutOf(r, seq)
    <3>1. /\ lastSeq' = seq /\ metadata' = KeepLast(Append(metadata, f))
          /\ playout' = KeepLast(Append(playout, f))
      BY <1>5, <2>6 DEF Emit, StoreMetadata
    <3>2. runs[r].gen = gen /\ seq > lastSeq /\ seq \in Nat /\ r \in Nat
      BY <1>0, <2>6 DEF Accepts
    <3>3. f \in PlayoutFrame /\ f.gen = gen /\ f.seq = seq
      BY <1>0, <3>2 DEF PlayoutOf, PlayoutFrame
    <3>4. EmitMove(f)
      BY <2>4, <3>1, <3>2, <3>3 DEF EmitMove
    <3>. QED  BY <2>3, <3>3, <3>4 DEF Moves
  <2>. QED  BY <2>5, <2>6
<1>6. ASSUME NEW c \in cancels, CancelSettles(c) \/ CancelFails(c) PROVE Moves
  <2>1. PICK outcome \in CancelOutcome : CancelReports(c, outcome)
    BY <1>6 DEF CancelSettles, CancelFails, CancelOutcome
  <2>2. /\ UNCHANGED <<gen, lastSeq, playout, metadata, held, acks, stage, played, clears, resumption, runs>>
        /\ cancels' = cancels \ {c} /\ log' = Append(log, At(c.gen, outcome))
    BY <2>1 DEF CancelReports, outputs, evidence
  <2>3. c.gen \in Nat
    BY DEF TypeOK
  <2>4. At(c.gen, outcome) \in Entry
    BY <2>3 DEF At, Entry, Event, CancelOutcome
  <2>5. log' = log \o <<At(c.gen, outcome)>>
    BY <1>0, <2>2, <2>4, AppendIsConcat
  <2>6. CancelMove
    BY <2>2, <2>5 DEF CancelMove
  <2>. QED  BY <2>2, <2>6, SameRunsKept DEF Moves
<1>. QED  BY <1>1, <1>2, <1>3, <1>4, <1>5, <1>6 DEF TranslationNext

LEMMA PlayoutMoves ==
  ASSUME LaneAssumption, TypeOK, FenceInv, AckInv, PlayoutNext
  PROVE  Moves
<1>0. gen \in Nat /\ log \in Seq(Entry) /\ held \in SUBSET PlayoutFrame /\ playout \in Seq(PlayoutFrame)
      /\ DOMAIN acks = 0 .. gen /\ DOMAIN stage = 0 .. gen
      /\ \A g \in 0 .. gen : acks[g] \in Seq(PlayoutFrame) /\ stage[g] \in Stage
  BY DEF TypeOK, Entry
<1>1. ASSUME Pull PROVE Moves
  <2>1. HandMove /\ runs' = runs
    BY <1>1 DEF Pull, HandMove, evidence
  <2>. QED  BY <2>1, SameRunsKept DEF Moves
<1>2. ASSUME NEW f \in held, PlayoutStarts(f) PROVE Moves
  <2>1. /\ held' = held \ {f}
        /\ acks' = IF /\ status = "active" /\ f.gen = gen /\ Len(acks[gen]) < AckCap
                   THEN [acks EXCEPT ![gen] = Append(@, f)] ELSE acks
        /\ UNCHANGED <<gen, lastSeq, playout, metadata, stage, played, clears, cancels, resumption, log, runs>>
    BY <1>2 DEF PlayoutStarts
  <2>2. HandMove
    BY <2>1 DEF HandMove
  <2>. QED  BY <2>1, <2>2, SameRunsKept DEF Moves
<1>3. ASSUME NEW g \in clearing, ClearSettles(g) PROVE Moves
  <2>1. HandMove /\ runs' = runs
    BY <1>3 DEF ClearSettles, HandMove, evidence
  <2>. QED  BY <2>1, SameRunsKept DEF Moves
<1>4. ASSUME NEW g \in clearing, ClearFails(g) PROVE Moves
  <2>1. UNCHANGED <<playout, held>>
    BY <1>4 DEF ClearFails
  <2>2. \A c \in clears : c.gen = gen
    BY DEF FenceInv
  <2>3. CASE [gen |-> g, barge |-> FALSE] \in clears /\ ~ended
    <3>1. /\ CutFence(FALSE, {g}) /\ runs' = AbortCurrent
          /\ log' = log \o (<<At(g, "clear_failed")>> \o CutRecord(FALSE))
      BY <1>4, <2>3 DEF ClearFails
    <3>2. g = gen /\ clears # {}
      BY <2>2, <2>3
    <3>3. CutLog(FALSE)
      BY <3>1, <3>2 DEF CutLog
    <3>4. CutMove(FALSE)
      BY <2>1, <3>1, <3>3 DEF CutFence, CutMove
    <3>. QED  BY <3>1, <3>4, SameRunsKept DEF Moves
  <2>4. CASE ~([gen |-> g, barge |-> FALSE] \in clears /\ ~ended)
    <3>1. /\ clears' = {c \in clears : c.gen # g}
          /\ resumption' = IF \E c \in clears : c.gen = g THEN -1 ELSE resumption
          /\ log' = IF \E c \in clears : c.gen = g /\ (c.barge => status # "closing")
                    THEN Append(log, At(g, "clear_failed")) ELSE log
          /\ UNCHANGED <<gen, acks, stage, played, metadata, lastSeq, runs, cancels>>
      BY <1>4, <2>4 DEF ClearFails
    <3>2. CASE \E c \in clears : c.gen = g
      <4>1. g = gen /\ clears # {} /\ clears' = {} /\ resumption' = -1
        BY <2>2, <3>1, <3>2
      <4>2. At(gen, "clear_failed") \in Entry
        BY <1>0 DEF At, Entry, Event
      <4>3. log' = log \o <<>> \/ log' = log \o <<At(gen, "clear_failed")>>
        BY <1>0, <3>1, <4>1, <4>2, AppendIsConcat, ConcatEmptySeq
      <4>4. \E new \in {<<>>, <<At(gen, "clear_failed")>>} : log' = log \o new
        BY <4>3
      <4>5. ClearMove
        BY <2>1, <3>1, <4>1, <4>4 DEF ClearMove
      <4>. QED  BY <3>1, <4>5, SameRunsKept DEF Moves
    <3>3. CASE ~\E c \in clears : c.gen = g
      <4>1. clears' \subseteq clears /\ UNCHANGED <<resumption, log>>
        BY <3>1, <3>3
      <4>2. ClearMove
        BY <2>1, <3>1, <4>1 DEF ClearMove
      <4>. QED  BY <3>1, <4>2, SameRunsKept DEF Moves
    <3>. QED  BY <3>2, <3>3
  <2>. QED  BY <2>3, <2>4
<1>5. ASSUME NEW g \in 0 .. gen, AckBegins(g) PROVE Moves
  <2>1. UNCHANGED <<gen, lastSeq, playout, held, played, clears, cancels, resumption, log, runs>> /\ acks[g] # <<>>
    BY <1>5 DEF AckBegins, outputs
  <2>2. CASE ~Current(g) \/ ~Contains(metadata, Ack(g))
    <3>1. Settle(g) /\ UNCHANGED metadata
      BY <1>5, <2>2 DEF AckBegins
    <3>2. TakeMove(g)
      BY <2>1, <3>1 DEF TakeMove
    <3>. QED  BY <2>1, <3>2, SameRunsKept DEF Moves
  <2>3. CASE ~(~Current(g) \/ ~Contains(metadata, Ack(g)))
    <3>1. /\ g = gen
          /\ \E i \in DOMAIN metadata : metadata[i] = Ack(g) /\ metadata' = RemoveAt(metadata, i)
          /\ Settle(g) \/ MoveTo(g, "gap") \/ MoveTo(g, "persist")
      BY <1>5, <2>3 DEF AckBegins, Current
    <3>2. TakeMove(g)
      BY <2>1, <3>1 DEF TakeMove, Stage
    <3>. QED  BY <2>1, <3>2, SameRunsKept DEF Moves
  <2>. QED  BY <2>2, <2>3
<1>6. ASSUME NEW g \in 0 .. gen, AckGapDurable(g) PROVE Moves
  <2>1. /\ MoveTo(g, "persist") /\ stage[g] = "gap"
        /\ UNCHANGED <<gen, lastSeq, playout, metadata, held, played, clears, cancels, resumption, log, runs>>
    BY <1>6 DEF AckGapDurable, outputs
  <2>2. AckMove(g)
    BY <2>1 DEF AckMove, Resumed, AckInv, Stage
  <2>. QED  BY <2>1, <2>2, SameRunsKept DEF Moves
<1>7. ASSUME NEW g \in 0 .. gen, Current(g), Report(g), UNCHANGED <<played>>
      PROVE  Resumed(g)
  <2>. DEFINE resumed == IF resumption = g THEN <<At(g, "output_resumed")>> ELSE <<>>
              first == IF firstAudio THEN <<>> ELSE <<At(g, "audio_playout")>>
  <2>1. g = gen /\ log' = (log \o first) \o resumed /\ resumption' = IF resumption = g THEN -1 ELSE resumption
    BY <1>7 DEF Current, Report
  <2>2. At(g, "output_resumed") \in Entry /\ At(g, "audio_playout") \in Entry
    BY <1>0 DEF At, Entry, Event
  <2>3. first \in Seq(Entry) /\ resumed \in Seq(Entry)
    BY <2>2
  <2>4. log' = log \o (first \o resumed)
    <3>. HIDE DEF first, resumed
    <3>1. log \in Seq(Entry)
      BY <1>0
    <3>2. (log \o first) \o resumed = log \o (first \o resumed)
      BY <2>3, <3>1, ConcatAssociative
    <3>. QED  BY <2>1, <3>2
  <2>5. first \in {<<>>, <<At(g, "audio_playout")>>}
    OBVIOUS
  <2>6. \E new \in {<<>>, <<At(g, "audio_playout")>>} : log' = log \o (new \o resumed)
    <3>. HIDE DEF first, resumed
    <3>. QED  BY <2>4, <2>5
  <2>. QED  BY <1>7, <2>1, <2>6 DEF Resumed
<1>8. ASSUME NEW g \in 0 .. gen, AckDurable(g) PROVE Moves
  <2>1. /\ stage[g] = "persist" /\ acks[g] # <<>>
        /\ UNCHANGED <<gen, lastSeq, playout, metadata, held, clears, cancels, runs>>
    BY <1>8 DEF AckDurable, outputs, AckInv
  <2>2. CASE ~Current(g)
    <3>1. Settle(g) /\ UNCHANGED <<played, resumption, log>>
      BY <1>8, <2>2 DEF AckDurable
    <3>2. AckMove(g)
      BY <2>1, <3>1 DEF AckMove, Resumed
    <3>. QED  BY <2>1, <3>2, SameRunsKept DEF Moves
  <2>3. CASE Current(g) /\ Ack(g).turn \in played
    <3>1. Report(g) /\ UNCHANGED played
      BY <1>8, <2>3 DEF AckDurable
    <3>2. Settle(g)
      BY <3>1 DEF Report
    <3>3. AckMove(g)
      BY <1>7, <2>1, <2>3, <3>1, <3>2 DEF AckMove
    <3>. QED  BY <2>1, <3>3, SameRunsKept DEF Moves
  <2>4. CASE Current(g) /\ Ack(g).turn \notin played
    <3>1. ReportTurn(Ack(g)) /\ MoveTo(g, "lag") /\ UNCHANGED resumption
      BY <1>8, <2>4 DEF AckDurable
    <3>2. Ack(g) \in PlayoutFrame
      BY <1>0, <2>1 DEF Ack
    <3>3. Lag(Ack(g)) \in Entry
      BY <3>2 DEF Lag, At, PlayoutFrame, Entry, Event
    <3>4. log' = log \o <<Lag(Ack(g))>> /\ played' = played \cup {Ack(g).turn}
      BY <1>0, <3>1, <3>3, AppendIsConcat DEF ReportTurn
    <3>5. Resumed(g)
      BY <2>4, <3>1, <3>4 DEF Resumed, Current
    <3>6. AckMove(g)
      BY <2>1, <3>1, <3>5 DEF AckMove, Stage
    <3>. QED  BY <2>1, <3>6, SameRunsKept DEF Moves
  <2>. QED  BY <2>2, <2>3, <2>4
<1>9. ASSUME NEW g \in 0 .. gen, AckReported(g) PROVE Moves
  <2>1. /\ stage[g] = "lag" /\ acks[g] # <<>>
        /\ UNCHANGED <<gen, lastSeq, playout, metadata, held, clears, cancels, runs, played>>
    BY <1>9 DEF AckReported, outputs, AckInv
  <2>2. CASE ~Current(g)
    <3>1. Settle(g) /\ UNCHANGED <<played, resumption, log>>
      BY <1>9, <2>1, <2>2 DEF AckReported
    <3>2. AckMove(g)
      BY <2>1, <3>1 DEF AckMove, Resumed
    <3>. QED  BY <2>1, <3>2, SameRunsKept DEF Moves
  <2>3. CASE Current(g)
    <3>1. Report(g)
      BY <1>9, <2>3 DEF AckReported
    <3>2. Settle(g)
      BY <3>1 DEF Report
    <3>3. AckMove(g)
      BY <1>7, <2>1, <2>3, <3>1, <3>2 DEF AckMove
    <3>. QED  BY <2>1, <3>3, SameRunsKept DEF Moves
  <2>. QED  BY <2>2, <2>3
<1>. QED  BY <1>1, <1>2, <1>3, <1>4, <1>5, <1>6, <1>8, <1>9 DEF PlayoutNext

\* Every step is one of these moves.
LEMMA StepMoves ==
  ASSUME LaneAssumption, TypeOK, FenceInv, AckInv, StopInv, Next
  PROVE  Moves
BY CommandMoves, IngressMoves, TranslationMoves, PlayoutMoves DEF Next

-----------------------------------------------------------------------------
(***************************************************************************)
(* The log.                                                                *)
(***************************************************************************)
\* Two entries, the second after the first, that the log must not have.
Late(a, b) ==
  a.type = "generation_cut" /\ b.gen < a.gen /\ b.type \notin CancelOutcome \cup Failure
Broken(a, b) ==
  /\ a.gen = b.gen
  /\ \/ b.type = "clear_requested" /\ a.type \in Outcome \cup {"output_resumed"}
     \/ b.type = "cancel_requested" /\ a.type \in CancelOutcome
     \/ b.type \in Outcome /\ a.type \in Outcome
     \/ b.type \in CancelOutcome /\ a.type \in CancelOutcome
     \/ b.type = "output_resumed" /\ a.type \in {"clear_failed", "output_resumed"}
Repeated(a, b) == a.type = "playout_lag" /\ b = a
Bad(a, b) == Late(a, b) \/ Broken(a, b) \/ Repeated(a, b)

LogSound == \A i, j \in DOMAIN log : i < j => ~Bad(log[i], log[j])

LEMMA LogSoundIs ==
  ASSUME log \in Seq(Entry), Caused
  PROVE  LogSound <=> NoLateEvent /\ BargeChain /\ LagOnce
<1>1. \A i \in DOMAIN log : log[i] \in Entry
  OBVIOUS
<1>2. \A i \in DOMAIN log : log[i].gen \in Nat
  BY <1>1 DEF Entry
<1>3. ASSUME LogSound PROVE NoLateEvent
  <2>1. SUFFICES ASSUME NEW i \in DOMAIN log, log[i].type = "generation_cut",
                        NEW j \in DOMAIN log, i < j, log[j].gen < log[i].gen,
                        log[j].type \notin CancelOutcome
                 PROVE  log[j].type \in Failure /\ log[j - 1].type = "generation_cut"
    BY DEF NoLateEvent, After
  <2>2. ~Late(log[i], log[j])
    BY <1>3, <2>1 DEF LogSound, Bad
  <2>3. log[j].type \in Failure
    BY <2>1, <2>2 DEF Late
  <2>. QED  BY <2>3 DEF Caused
<1>4. ASSUME LogSound PROVE BargeChain
  BY <1>4 DEF LogSound, BargeChain, After, Bad, Broken
<1>5. ASSUME LogSound PROVE LagOnce
  BY <1>5 DEF LogSound, LagOnce, After, Bad, Repeated
<1>6. ASSUME NoLateEvent, BargeChain, LagOnce, NEW i \in DOMAIN log, NEW j \in DOMAIN log, i < j
      PROVE  ~Bad(log[i], log[j])
  <2>1. ~Late(log[i], log[j])
    BY <1>2, <1>6 DEF NoLateEvent, After, Late
  <2>2. ~Broken(log[i], log[j])
    BY <1>6 DEF BargeChain, After, Broken
  <2>3. ~Repeated(log[i], log[j])
    BY <1>6 DEF LagOnce, After, Repeated
  <2>. QED  BY <2>1, <2>2, <2>3 DEF Bad
<1>. QED  BY <1>3, <1>4, <1>5, <1>6 DEF LogSound

\* The entries of one step.
Single(e) ==
  \/ /\ e = At(gen, "clear_acknowledged") /\ clears # {} /\ clears' = {}
     /\ UNCHANGED <<resumption, played, cancels>>
  \/ /\ e = At(gen, "clear_failed") /\ clears # {} /\ clears' = {} /\ resumption' = -1
     /\ UNCHANGED <<played, cancels>>
  \/ e = At(gen, "audio_playout") /\ UNCHANGED <<clears, resumption, played, cancels>>
  \/ /\ e = At(gen, "output_resumed") /\ resumption = gen /\ resumption' = -1
     /\ UNCHANGED <<clears, played, cancels>>
  \/ /\ e.type = "playout_lag" /\ e.gen = gen /\ e.turn \notin played
     /\ played' = played \cup {e.turn} /\ UNCHANGED <<clears, resumption, cancels>>
  \/ /\ e.type \in CancelOutcome
     /\ \E c \in cancels : e.gen = c.gen /\ cancels' = cancels \ {c}
     /\ UNCHANGED <<clears, resumption, played>>

\* The entries of a cut: its record, with the failure that causes it.
CutType == {"speech_onset", "generation_cut", "clear_requested", "cancel_requested"}
CutEntries(new) ==
  \A k \in DOMAIN new :
    \/ new[k].gen = gen + 1 /\ new[k].type \in CutType
    \/ /\ new[k].type \in Failure /\ new[k].gen <= gen
       /\ k - 1 \in DOMAIN new /\ new[k - 1].type = "generation_cut"
    \/ k = 1 /\ new[k] = At(gen, "clear_failed") /\ clears # {}

LogMoves ==
  \/ /\ UNCHANGED <<gen, log, played, cancels>>
     /\ clears' \subseteq clears /\ resumption' \in {resumption, -1}
  \/ /\ gen' = gen + 1 /\ played' = {} /\ resumption' \in {-1, gen + 1}
     /\ \E barge \in BOOLEAN : /\ clears' = {[gen |-> gen + 1, barge |-> barge]}
                               /\ cancels' = cancels \cup {[gen |-> gen + 1, barge |-> barge]}
     /\ \E new \in Seq(Entry) : CutEntries(new) /\ log' = log \o new
  \/ UNCHANGED gen /\ \E e \in Entry : log' = log \o <<e>> /\ Single(e)
  \/ /\ UNCHANGED <<gen, clears, cancels, played>> /\ resumption = gen /\ resumption' = -1
     /\ log' = log \o <<At(gen, "audio_playout"), At(gen, "output_resumed")>>

LEMMA Pair ==
  ASSUME NEW S, NEW a \in S, NEW b \in S
  PROVE  <<a>> \o <<b>> = <<a, b>>
<1>. DEFINE s == <<a>>
            t == <<b>>
            u == <<a, b>>
<1>1. /\ s \in Seq(S) /\ t \in Seq(S) /\ u \in Seq(S)
      /\ Len(s) = 1 /\ Len(t) = 1 /\ Len(u) = 2
      /\ s[1] = a /\ t[1] = b /\ u[1] = a /\ u[2] = b
  OBVIOUS
<1>. HIDE DEF s, t, u
<1>2. s \o t \in Seq(S) /\ Len(s \o t) = 2 /\ (s \o t)[1] = a /\ (s \o t)[2] = b
  BY <1>1, ConcatProperties
<1>3. \A i \in 1 .. Len(u) : (s \o t)[i] = u[i]
  BY <1>1, <1>2
<1>4. s \o t = u
  BY <1>1, <1>2, <1>3, SeqEqual
<1>. QED  BY <1>4 DEF s, t, u

LEMMA CutLogs ==
  ASSUME gen \in Nat, NEW barge \in BOOLEAN, CutLog(barge)
  PROVE  \E new \in Seq(Entry) : CutEntries(new) /\ log' = log \o new
<1>1. \A type \in Event, g \in Nat :
        At(g, type) \in Entry /\ At(g, type).type = type /\ At(g, type).gen = g
  BY DEF At, Entry
<1>. DEFINE cut == At(gen + 1, "generation_cut")
<1>2. cut \in Entry /\ cut.type = "generation_cut" /\ cut.gen = gen + 1
  BY <1>1 DEF Event
<1>3. CutRecord(FALSE) = <<cut>>
  BY DEF CutRecord
<1>4. CASE barge /\ log' = log \o CutRecord(barge)
  <2>. DEFINE a == At(gen + 1, "speech_onset")
              c == At(gen + 1, "clear_requested")
              d == At(gen + 1, "cancel_requested")
              new == <<a, cut, c, d>>
  <2>1. /\ a \in Entry /\ a.type \in CutType /\ a.gen = gen + 1
        /\ c \in Entry /\ c.type \in CutType /\ c.gen = gen + 1
        /\ d \in Entry /\ d.type \in CutType /\ d.gen = gen + 1
        /\ cut.type \in CutType
    BY <1>1, <1>2 DEF Event, CutType
  <2>2. log' = log \o new
    BY <1>4 DEF CutRecord
  <2>. HIDE DEF a, c, d, cut
  <2>3. new \in Seq(Entry) /\ \A k \in DOMAIN new : new[k].gen = gen + 1 /\ new[k].type \in CutType
    BY <1>2, <2>1
  <2>. HIDE DEF new
  <2>. QED  BY <2>2, <2>3 DEF CutEntries
<1>5. CASE ~barge /\ log' = log \o CutRecord(barge)
  <2>. DEFINE new == <<cut>>
  <2>1. log' = log \o new
    BY <1>3, <1>5
  <2>. HIDE DEF cut
  <2>2. new \in Seq(Entry) /\ \A k \in DOMAIN new : new[k].gen = gen + 1 /\ new[k].type \in CutType
    BY <1>2 DEF CutType
  <2>. HIDE DEF new
  <2>. QED  BY <2>1, <2>2 DEF CutEntries
<1>6. ASSUME NEW g \in 0 .. gen, NEW failure \in Failure,
             log' = log \o (CutRecord(FALSE) \o <<At(g, failure)>>)
      PROVE  \E new \in Seq(Entry) : CutEntries(new) /\ log' = log \o new
  <2>. DEFINE a == At(g, failure)
              new == <<cut, a>>
  <2>1. a \in Entry /\ a.type \in Failure /\ a.gen <= gen
    BY <1>1 DEF Event, Failure
  <2>2. log' = log \o (<<cut>> \o <<a>>)
    BY <1>3, <1>6
  <2>. HIDE DEF a, cut
  <2>3. log' = log \o new
    BY <1>2, <2>1, <2>2, Pair
  <2>4. new \in Seq(Entry) /\ DOMAIN new = 1 .. 2 /\ new[1] = cut /\ new[2] = a
    BY <1>2, <2>1
  <2>. HIDE DEF new
  <2>5. CutEntries(new)
    <3>1. new[1].gen = gen + 1 /\ new[1].type \in CutType
      BY <1>2, <2>4 DEF CutType
    <3>2. /\ new[2].type \in Failure /\ new[2].gen <= gen
          /\ 2 - 1 \in DOMAIN new /\ new[2 - 1].type = "generation_cut"
      BY <1>2, <2>1, <2>4
    <3>. QED  BY <2>4, <3>1, <3>2 DEF CutEntries
  <2>. QED  BY <2>3, <2>4, <2>5
<1>7. ASSUME clears # {}, log' = log \o (<<At(gen, "clear_failed")>> \o CutRecord(FALSE))
      PROVE  \E new \in Seq(Entry) : CutEntries(new) /\ log' = log \o new
  <2>. DEFINE a == At(gen, "clear_failed")
              new == <<a, cut>>
  <2>1. a \in Entry
    BY <1>1 DEF Event
  <2>2. log' = log \o (<<a>> \o <<cut>>)
    BY <1>3, <1>7
  <2>. HIDE DEF a, cut
  <2>3. log' = log \o new
    BY <1>2, <2>1, <2>2, Pair
  <2>4. new \in Seq(Entry) /\ DOMAIN new = 1 .. 2 /\ new[1] = a /\ new[2] = cut
    BY <1>2, <2>1
  <2>. HIDE DEF new
  <2>5. CutEntries(new)
    <3>1. new[2].gen = gen + 1 /\ new[2].type \in CutType
      BY <1>2, <2>4 DEF CutType
    <3>2. new[1] = At(gen, "clear_failed") /\ clears # {}
      BY <1>7, <2>4 DEF a
    <3>. QED  BY <2>4, <3>1, <3>2 DEF CutEntries
  <2>. QED  BY <2>3, <2>4, <2>5
<1>. QED  BY <1>4, <1>5, <1>6, <1>7 DEF CutLog

LEMMA MoveLogs ==
  ASSUME TypeOK, FenceInv, AckInv, Moves
  PROVE  LogMoves
<1>0. gen \in Nat /\ log \in Seq(Entry) /\ clears \in SUBSET [gen : Nat, barge : BOOLEAN]
      /\ \A g \in 0 .. gen : acks[g] \in Seq(PlayoutFrame)
  <2>1. gen \in Nat /\ log \in Seq(Entry)
    BY DEF TypeOK, Entry
  <2>2. clears \in SUBSET [gen : Nat, barge : BOOLEAN]
    BY DEF TypeOK
  <2>3. \A g \in 0 .. gen : acks[g] \in Seq(PlayoutFrame)
    BY DEF TypeOK
  <2>. QED  BY <2>1, <2>2, <2>3
<1>1. log \o <<>> = log
  BY <1>0, ConcatEmptySeq
<1>2. \A type \in Event : At(gen, type) \in Entry
  BY <1>0 DEF At, Entry
<1>3. CASE Silent
  BY <1>3 DEF Silent, core, LogMoves
<1>4. ASSUME NEW barge \in BOOLEAN, CutMove(barge) PROVE LogMoves
  <2>1. \E new \in Seq(Entry) : CutEntries(new) /\ log' = log \o new
    BY <1>0, <1>4, CutLogs DEF CutMove
  <2>. QED  BY <1>4, <2>1 DEF CutMove, LogMoves
<1>5. CASE PurgeMove
  BY <1>5 DEF PurgeMove, LogMoves
<1>6. ASSUME NEW f \in PlayoutFrame, EmitMove(f) PROVE LogMoves
  BY <1>6 DEF EmitMove, LogMoves
<1>7. CASE HandMove
  BY <1>7 DEF HandMove, LogMoves
<1>8. ASSUME ClearMove PROVE LogMoves
  <2>0. UNCHANGED <<gen, played, cancels>>
    BY <1>8 DEF ClearMove
  <2>1. ASSUME NEW c \in clears, clears' = clears \ {c}, UNCHANGED resumption,
               log' = log \o (IF c.barge THEN <<At(gen, "clear_acknowledged")>> ELSE <<>>)
        PROVE  LogMoves
    <3>1. CASE ~c.barge
      BY <1>1, <2>0, <2>1, <3>1 DEF LogMoves
    <3>2. CASE c.barge
      <4>1. clears # {} /\ clears' = {}
        BY <2>1 DEF FenceInv
      <4>2. Single(At(gen, "clear_acknowledged"))
        BY <2>0, <2>1, <4>1 DEF Single
      <4>. QED  BY <1>2, <2>0, <2>1, <3>2, <4>2 DEF LogMoves, Event
    <3>. QED  BY <3>1, <3>2
  <2>2. ASSUME clears # {}, clears' = {}, resumption' = -1,
               log' = log \o <<At(gen, "clear_failed")>>
        PROVE  LogMoves
    <3>1. Single(At(gen, "clear_failed"))
      BY <2>0, <2>2 DEF Single
    <3>. QED  BY <1>2, <2>0, <2>2, <3>1 DEF LogMoves, Event
  <2>3. ASSUME clears' \subseteq clears, resumption' \in {resumption, -1}, log' = log
        PROVE  LogMoves
    BY <2>0, <2>3 DEF LogMoves
  <2>. QED  BY <1>1, <1>8, <2>1, <2>2, <2>3 DEF ClearMove
<1>9. ASSUME NEW g \in 0 .. gen, TakeMove(g) PROVE LogMoves
  BY <1>9 DEF TakeMove, LogMoves
<1>10. ASSUME NEW g \in 0 .. gen, AckMove(g) PROVE LogMoves
  <2>0. UNCHANGED <<gen, clears, cancels>> /\ Resumed(g) /\ acks[g] # <<>>
    BY <1>10 DEF AckMove
  <2>1. CASE UNCHANGED <<log, played, resumption>>
    BY <2>0, <2>1 DEF LogMoves
  <2>2. ASSUME g = gen, resumption' = IF resumption = g THEN -1 ELSE resumption, UNCHANGED played,
               NEW new \in {<<>>, <<At(g, "audio_playout")>>},
               log' = log \o (new \o (IF resumption = g THEN <<At(g, "output_resumed")>> ELSE <<>>))
        PROVE  LogMoves
    <3>0. /\ At(gen, "audio_playout") \in Entry /\ At(gen, "output_resumed") \in Entry
          /\ <<>> \in Seq(Entry)
      BY <1>2 DEF Event
    <3>1. CASE resumption = g /\ new = <<>>
      <4>1. log' = log \o <<At(gen, "output_resumed")>>
        BY <2>2, <3>0, <3>1, ConcatEmptySeq
      <4>2. Single(At(gen, "output_resumed"))
        BY <2>0, <2>2, <3>1 DEF Single
      <4>. QED  BY <2>0, <3>0, <4>1, <4>2 DEF LogMoves
    <3>2. CASE resumption = g /\ new # <<>>
      <4>1. log' = log \o (<<At(gen, "audio_playout")>> \o <<At(gen, "output_resumed")>>)
        BY <2>2, <3>2
      <4>2. <<At(gen, "audio_playout")>> \o <<At(gen, "output_resumed")>>
              = <<At(gen, "audio_playout"), At(gen, "output_resumed")>>
        BY <3>0, Pair
      <4>3. log' = log \o <<At(gen, "audio_playout"), At(gen, "output_resumed")>>
        BY <4>1, <4>2
      <4>. QED  BY <2>0, <2>2, <3>2, <4>3 DEF LogMoves
    <3>3. CASE resumption # g /\ new = <<>>
      <4>1. log' = log
        BY <1>1, <2>2, <3>0, <3>3, ConcatEmptySeq
      <4>. QED  BY <2>0, <2>2, <3>3, <4>1 DEF LogMoves
    <3>4. CASE resumption # g /\ new # <<>>
      <4>1. log' = log \o <<At(gen, "audio_playout")>>
        BY <2>2, <3>0, <3>4, ConcatEmptySeq
      <4>2. Single(At(gen, "audio_playout"))
        BY <2>0, <2>2, <3>4 DEF Single
      <4>. QED  BY <2>0, <3>0, <4>1, <4>2 DEF LogMoves
    <3>. QED  BY <3>1, <3>2, <3>3, <3>4
  <2>3. ASSUME g = gen, Ack(g).turn \notin played, played' = played \cup {Ack(g).turn},
               UNCHANGED resumption, log' = log \o <<Lag(Ack(g))>>
        PROVE  LogMoves
    <3>. DEFINE e == Lag(Ack(g))
    <3>1. Ack(g) \in PlayoutFrame /\ Ack(g).gen = gen
      BY <1>0, <2>0, <2>3 DEF Ack, AckInv
    <3>2. e \in Entry /\ e.type = "playout_lag" /\ e.gen = gen /\ e.turn = Ack(g).turn
      BY <1>0, <3>1 DEF Lag, At, PlayoutFrame, Entry, Event
    <3>. HIDE DEF e
    <3>3. Single(e)
      BY <2>0, <2>3, <3>2 DEF Single
    <3>4. log' = log \o <<e>>
      BY <2>3 DEF e
    <3>. QED  BY <2>0, <3>2, <3>3, <3>4 DEF LogMoves
  <2>. QED  BY <2>0, <2>1, <2>2, <2>3 DEF Resumed
<1>11. ASSUME CancelMove PROVE LogMoves
  <2>1. PICK c \in cancels, outcome \in CancelOutcome :
          cancels' = cancels \ {c} /\ log' = log \o <<At(c.gen, outcome)>>
    BY <1>11 DEF CancelMove
  <2>2. UNCHANGED <<gen, clears, resumption, played>>
    BY <1>11 DEF CancelMove
  <2>3. c.gen \in Nat
    BY DEF TypeOK
  <2>. DEFINE e == At(c.gen, outcome)
  <2>4. e \in Entry /\ e.type = outcome /\ e.gen = c.gen
    BY <2>3 DEF At, Entry, Event, CancelOutcome
  <2>5. log' = log \o <<e>>
    BY <2>1
  <2>. HIDE DEF e
  <2>6. Single(e)
    BY <2>1, <2>2, <2>4 DEF Single
  <2>. QED  BY <2>2, <2>4, <2>5, <2>6 DEF LogMoves
<1>. QED  BY <1>3, <1>4, <1>5, <1>6, <1>7, <1>8, <1>9, <1>10, <1>11 DEF Moves

\* New entries spoil the log only if two of them, or an old and a new one, do.
LEMMA LogExtends ==
  ASSUME log \in Seq(Entry), NEW new \in Seq(Entry), log' = log \o new, LogSound,
         \A i \in DOMAIN log, j \in DOMAIN new : ~Bad(log[i], new[j]),
         \A i, j \in DOMAIN new : i < j => ~Bad(new[i], new[j])
  PROVE  LogSound' /\ log' \in Seq(Entry)
<1>1. /\ log' \in Seq(Entry)
      /\ \A i \in DOMAIN log : log'[i] = log[i] /\ i <= Len(log)
      /\ \A i \in DOMAIN log' : i \notin DOMAIN log =>
           i > Len(log) /\ i - Len(log) \in DOMAIN new /\ log'[i] = new[i - Len(log)]
  BY Grown
<1>2. Len(log) \in Nat /\ \A i \in DOMAIN log' : i \in Nat
  BY <1>1
<1>3. ASSUME NEW i \in DOMAIN log', NEW j \in DOMAIN log', i < j PROVE ~Bad(log'[i], log'[j])
  <2>1. CASE j \in DOMAIN log
    <3>1. i \in DOMAIN log
      BY <1>1, <1>2, <1>3, <2>1
    <3>. QED  BY <1>1, <1>3, <2>1, <3>1 DEF LogSound
  <2>2. CASE j \notin DOMAIN log /\ i \in DOMAIN log
    BY <1>1, <2>2
  <2>3. CASE j \notin DOMAIN log /\ i \notin DOMAIN log
    <3>1. i - Len(log) < j - Len(log)
      BY <1>2, <1>3
    <3>. QED  BY <1>1, <2>3, <3>1
  <2>. QED  BY <2>1, <2>2, <2>3
<1>. QED  BY <1>1, <1>3 DEF LogSound, Bad, Late, Broken, Repeated, Outcome

\* Every entry is an old one or a new one.
LEMMA LogEntries ==
  ASSUME log \in Seq(Entry), NEW new \in Seq(Entry), log' = log \o new
  PROVE  \A i \in DOMAIN log' :
           \/ i \in DOMAIN log /\ log'[i] = log[i]
           \/ \E k \in DOMAIN new : log'[i] = new[k]
<1>1. /\ \A i \in DOMAIN log : log'[i] = log[i]
      /\ \A i \in DOMAIN log' : i \notin DOMAIN log =>
           i - Len(log) \in DOMAIN new /\ log'[i] = new[i - Len(log)]
  BY Grown
<1>. QED  BY <1>1

\* New entries keep the failures behind their cuts if they do so themselves.
LEMMA CausedExtends ==
  ASSUME log \in Seq(Entry), NEW new \in Seq(Entry), log' = log \o new, Caused,
         \A k \in DOMAIN new : new[k].type \in Failure =>
           k - 1 \in DOMAIN new /\ new[k - 1].type = "generation_cut"
  PROVE  Caused'
<1>1. /\ \A i \in DOMAIN log : log'[i] = log[i]
      /\ \A i \in DOMAIN log' : i \notin DOMAIN log =>
           i - Len(log) \in DOMAIN new /\ log'[i] = new[i - Len(log)]
  BY Grown
<1>2. Len(log) \in Nat /\ Len(new) \in Nat /\ DOMAIN log' = 1 .. Len(log) + Len(new)
      /\ DOMAIN log = 1 .. Len(log) /\ DOMAIN new = 1 .. Len(new)
  BY ConcatProperties
<1>3. ASSUME NEW j \in DOMAIN log', log'[j].type \in Failure
      PROVE  j - 1 \in DOMAIN log' /\ log'[j - 1].type = "generation_cut"
  <2>1. CASE j \in DOMAIN log
    <3>1. j - 1 \in DOMAIN log /\ log[j - 1].type = "generation_cut"
      BY <1>1, <1>3, <2>1 DEF Caused
    <3>2. j - 1 \in DOMAIN log'
      BY <1>2, <3>1
    <3>. QED  BY <1>1, <3>1, <3>2
  <2>2. CASE j \notin DOMAIN log
    <3>. DEFINE k == j - Len(log)
    <3>1. k \in DOMAIN new /\ log'[j] = new[k]
      BY <1>1, <2>2
    <3>2. k - 1 \in DOMAIN new /\ new[k - 1].type = "generation_cut"
      BY <1>3, <3>1
    <3>3. j - 1 \in DOMAIN log' /\ j - 1 \notin DOMAIN log /\ (j - 1) - Len(log) = k - 1
      BY <1>2, <3>2
    <3>4. log'[j - 1] = new[k - 1]
      BY <1>1, <3>3
    <3>. QED  BY <3>2, <3>3, <3>4
  <2>. QED  BY <2>1, <2>2
<1>. QED  BY <1>3 DEF Caused

LEMMA SingleSound ==
  ASSUME TypeOK, FenceInv, ChainInv, CancelInv, LagInv, NEW e \in Entry, Single(e), NEW i \in DOMAIN log
  PROVE  ~Bad(log[i], e) /\ e.gen <= gen /\ e.type \notin Failure
<1>1. gen \in Nat /\ log[i].gen \in Nat /\ log[i].gen <= gen /\ log[i] \in Entry
  <2>1. gen \in Nat /\ log \in Seq(Entry)
    BY DEF TypeOK, Entry
  <2>2. log[i] \in Entry
    BY <2>1
  <2>. QED  BY <2>1, <2>2 DEF Entry, FenceInv
<1>2. CASE e.gen = gen /\ e.type \notin CancelOutcome
  <2>1. ~Late(log[i], e)
    BY <1>1, <1>2 DEF Late
  <2>2. ~Broken(log[i], e)
    BY <1>1, <1>2 DEF Broken, Single, At, ChainInv, Unlogged, Outcome
  <2>3. ~Repeated(log[i], e)
    BY <1>1, <1>2 DEF Repeated, Single, At, LagInv
  <2>4. e.type \notin Failure
    BY <1>2 DEF Single, At, Failure
  <2>. QED  BY <1>1, <1>2, <2>1, <2>2, <2>3, <2>4 DEF Bad
<1>3. ASSUME e.type \in CancelOutcome, NEW c \in cancels, e.gen = c.gen
      PROVE  ~Bad(log[i], e) /\ e.gen <= gen /\ e.type \notin Failure
  <2>1. ~Late(log[i], e)
    BY <1>3 DEF Late
  <2>2. log[i].gen = e.gen => log[i].type \notin CancelOutcome
    BY <1>3 DEF CancelInv
  <2>3. ~Broken(log[i], e)
    BY <1>3, <2>2 DEF Broken, Outcome, CancelOutcome
  <2>4. ~Repeated(log[i], e) /\ e.type \notin Failure
    BY <1>3 DEF Repeated, CancelOutcome, Failure
  <2>5. e.gen <= gen
    BY <1>3 DEF FenceInv
  <2>. QED  BY <2>1, <2>3, <2>4, <2>5 DEF Bad
<1>4. \/ e.gen = gen /\ e.type \notin CancelOutcome
      \/ e.type \in CancelOutcome /\ \E c \in cancels : e.gen = c.gen
  BY DEF Single, At, CancelOutcome
<1>. QED  BY <1>2, <1>3, <1>4

\* What the log has of the present generation, after a step.
LEMMA LogStep ==
  ASSUME TypeOK, FenceInv, ChainInv, CancelInv, LagInv, LogSound, Caused, LogMoves
  PROVE  /\ LogSound' /\ Caused' /\ ChainInv' /\ CancelInv' /\ LagInv' /\ log' \in Seq(Entry)
         /\ \A i \in DOMAIN log' : log'[i].gen <= gen'
         /\ (\A c \in clears : c.gen = gen)' /\ (\A c, d \in clears : c = d)'
         /\ (\A c \in cancels : c.gen <= gen)' /\ resumption' \in {-1, gen'}
         /\ gen' \in Nat /\ played' \in SUBSET Nat
         /\ clears' \in SUBSET [gen : Nat, barge : BOOLEAN]
         /\ cancels' \in SUBSET [gen : Nat, barge : BOOLEAN]
<1>0. /\ gen \in Nat /\ log \in Seq(Entry) /\ played \in SUBSET Nat
      /\ clears \in SUBSET [gen : Nat, barge : BOOLEAN] /\ resumption \in {-1, gen}
      /\ cancels \in SUBSET [gen : Nat, barge : BOOLEAN]
      /\ \A i \in DOMAIN log : log[i].gen <= gen /\ log[i].gen \in Nat /\ log[i] \in Entry
  <2>1. gen \in Nat /\ log \in Seq(Entry)
    BY DEF TypeOK, Entry
  <2>2. played \in SUBSET Nat
    BY DEF TypeOK
  <2>3. clears \in SUBSET [gen : Nat, barge : BOOLEAN] /\ cancels \in SUBSET [gen : Nat, barge : BOOLEAN]
    BY DEF TypeOK
  <2>4. \A i \in DOMAIN log : log[i] \in Entry
    BY <2>1
  <2>5. \A i \in DOMAIN log : log[i].gen \in Nat
    BY <2>4 DEF Entry
  <2>. QED  BY <2>1, <2>2, <2>3, <2>4, <2>5 DEF FenceInv
<1>a. \A c \in clears, d \in clears : c.gen = gen /\ c = d
  BY DEF FenceInv
<1>b. \A c \in cancels : c.gen <= gen /\ c.gen \in Nat
  BY <1>0 DEF FenceInv
<1>1. ASSUME UNCHANGED <<gen, log, played, cancels>>, clears' \subseteq clears, resumption' \in {resumption, -1}
      PROVE  /\ LogSound' /\ Caused' /\ ChainInv' /\ CancelInv' /\ LagInv' /\ log' \in Seq(Entry)
             /\ \A i \in DOMAIN log' : log'[i].gen <= gen'
  <2>1. LogSound' /\ Caused' /\ CancelInv' /\ LagInv'
    BY <1>1 DEF LogSound, Bad, Late, Broken, Repeated, Outcome, CancelOutcome, Failure, Caused, CancelInv, LagInv
  <2>2. ChainInv'
    BY <1>0, <1>1 DEF ChainInv, Unlogged
  <2>. QED  BY <1>0, <1>1, <2>1, <2>2
<1>2. ASSUME gen' = gen + 1, played' = {}, resumption' \in {-1, gen + 1}, NEW barge \in BOOLEAN,
             clears' = {[gen |-> gen + 1, barge |-> barge]},
             cancels' = cancels \cup {[gen |-> gen + 1, barge |-> barge]},
             NEW new \in Seq(Entry), CutEntries(new), log' = log \o new
      PROVE  /\ LogSound' /\ Caused' /\ ChainInv' /\ CancelInv' /\ LagInv' /\ log' \in Seq(Entry)
             /\ \A i \in DOMAIN log' : log'[i].gen <= gen'
             /\ \A c \in cancels' : c.gen <= gen'
  <2>1. \A k \in DOMAIN new : new[k] \in Entry /\ new[k].gen \in Nat
    <3>1. \A k \in DOMAIN new : new[k] \in Entry
      BY <1>2
    <3>. QED  BY <3>1 DEF Entry
  <2>a. ASSUME NEW k \in DOMAIN new
        PROVE  \/ new[k].gen = gen + 1 /\ new[k].type \in CutType
               \/ new[k].gen <= gen /\ new[k].type \in Failure \cup {"clear_failed"}
    <3>1. CASE new[k] = At(gen, "clear_failed")
      <4>1. new[k].gen = gen /\ new[k].type = "clear_failed"
        BY <3>1 DEF At
      <4>. QED  BY <1>0, <4>1
    <3>. QED  BY <1>2, <3>1 DEF CutEntries
  <2>2. ASSUME NEW i \in DOMAIN log, NEW k \in DOMAIN new PROVE ~Bad(log[i], new[k])
    <3>1. CASE new[k].gen = gen + 1
      BY <1>0, <3>1 DEF Bad, Late, Broken, Repeated
    <3>2. CASE new[k].type \in Failure
      BY <3>2 DEF Bad, Late, Broken, Repeated, Failure, Outcome, CancelOutcome
    <3>3. CASE new[k] = At(gen, "clear_failed") /\ clears # {}
      <4>1. new[k].gen = gen /\ new[k].type = "clear_failed"
        BY <3>3 DEF At
      <4>2. log[i].gen = gen => log[i].type \notin Outcome
        BY <3>3 DEF ChainInv, Unlogged, Outcome
      <4>3. ~Late(log[i], new[k])
        BY <1>0, <4>1 DEF Late
      <4>4. ~Broken(log[i], new[k])
        BY <4>1, <4>2 DEF Broken, CancelOutcome
      <4>. QED  BY <4>1, <4>3, <4>4 DEF Bad, Repeated
    <3>. QED  BY <1>2, <3>1, <3>2, <3>3 DEF CutEntries
  <2>3. ASSUME NEW i \in DOMAIN new, NEW k \in DOMAIN new, i < k PROVE ~Bad(new[i], new[k])
    <3>1. k # 1
      BY <2>3
    <3>2. CASE new[k].gen = gen + 1 /\ new[k].type \in CutType
      <4>1. \/ new[i].gen = gen + 1 /\ new[i].type \in CutType
            \/ new[i].gen <= gen
        BY <2>a
      <4>2. CASE new[i].gen = gen + 1 /\ new[i].type \in CutType
        BY <1>0, <3>2, <4>2 DEF Bad, Late, Broken, Repeated, CutType, Outcome, CancelOutcome
      <4>3. CASE new[i].gen <= gen
        BY <1>0, <2>1, <3>2, <4>3 DEF Bad, Late, Broken, Repeated
      <4>. QED  BY <4>1, <4>2, <4>3
    <3>3. CASE new[k].type \in Failure
      BY <3>3 DEF Bad, Late, Broken, Repeated, Failure, Outcome, CancelOutcome
    <3>. QED  BY <1>2, <3>1, <3>2, <3>3 DEF CutEntries
  <2>4. LogSound' /\ log' \in Seq(Entry)
    BY <1>0, <1>2, <2>2, <2>3, LogExtends
  <2>5. Caused'
    <3>1. ASSUME NEW k \in DOMAIN new, new[k].type \in Failure
          PROVE  k - 1 \in DOMAIN new /\ new[k - 1].type = "generation_cut"
      BY <1>2, <3>1 DEF CutEntries, CutType, Failure, At
    <3>. QED  BY <1>0, <1>2, <3>1, CausedExtends
  <2>6. \A k \in DOMAIN new :
          /\ new[k].gen <= gen \/ (new[k].gen = gen + 1 /\ new[k].type \in CutType)
          /\ new[k].type \notin CancelOutcome
    BY <2>a DEF CutType, Failure, CancelOutcome
  <2>7. \A i \in DOMAIN log' :
          \/ i \in DOMAIN log /\ log'[i] = log[i]
          \/ \E k \in DOMAIN new : log'[i] = new[k]
    BY <1>0, <1>2, LogEntries
  <2>8. \A i \in DOMAIN log' :
          /\ log'[i].gen <= gen \/ (log'[i].gen = gen + 1 /\ log'[i].type \in CutType)
          /\ log'[i].gen \in Nat
    BY <1>0, <2>1, <2>6, <2>7
  <2>9. \A i \in DOMAIN log' : log'[i].gen = gen' => log'[i].type \in CutType
    BY <1>0, <1>2, <2>8
  <2>10. ChainInv' /\ LagInv'
    <3>1. ChainInv'
      BY <2>9 DEF ChainInv, Unlogged, CutType
    <3>2. LagInv'
      BY <2>9 DEF LagInv, CutType
    <3>. QED  BY <3>1, <3>2
  <2>11. CancelInv'
    <3>1. ASSUME NEW c \in cancels', NEW d \in cancels', c.gen = d.gen PROVE c = d
      <4>. DEFINE n == [gen |-> gen + 1, barge |-> barge]
      <4>1. n.gen = gen + 1
        OBVIOUS
      <4>2. (c \in cancels \/ c = n) /\ (d \in cancels \/ d = n)
        BY <1>2
      <4>. HIDE DEF n
      <4>3. c \in cancels /\ d \in cancels => c = d
        BY <3>1 DEF CancelInv
      <4>4. c \in cancels => c.gen # gen + 1
        BY <1>0, <1>b
      <4>5. d \in cancels => d.gen # gen + 1
        BY <1>0, <1>b
      <4>. QED  BY <3>1, <4>1, <4>2, <4>3, <4>4, <4>5
    <3>2. ASSUME NEW c \in cancels', NEW i \in DOMAIN log', log'[i].gen = c.gen
          PROVE  log'[i].type \notin CancelOutcome
      <4>1. CASE \E k \in DOMAIN new : log'[i] = new[k]
        BY <2>6, <4>1
      <4>2. CASE i \in DOMAIN log /\ log'[i] = log[i]
        <5>1. c.gen # gen + 1
          BY <1>0, <3>2, <4>2
        <5>2. c \in cancels
          BY <1>2, <5>1
        <5>. QED  BY <3>2, <4>2, <5>2 DEF CancelInv
      <4>. QED  BY <2>7, <4>1, <4>2
    <3>. QED  BY <3>1, <3>2 DEF CancelInv
  <2>12. \A i \in DOMAIN log' : log'[i].gen <= gen'
    <3>1. \A n \in Nat : n <= gen \/ n = gen + 1 => n <= gen'
      BY <1>0, <1>2
    <3>. QED  BY <2>8, <3>1
  <2>13. ASSUME NEW c \in cancels' PROVE c.gen <= gen'
    <3>1. CASE c \in cancels
      BY <1>0, <1>2, <1>b, <3>1
    <3>2. CASE c = [gen |-> gen + 1, barge |-> barge]
      BY <1>0, <1>2, <3>2
    <3>. QED  BY <1>2, <3>1, <3>2
  <2>. QED  BY <2>4, <2>5, <2>10, <2>11, <2>12, <2>13
<1>3. ASSUME UNCHANGED gen, NEW e \in Entry, log' = log \o <<e>>, Single(e)
      PROVE  /\ LogSound' /\ Caused' /\ ChainInv' /\ CancelInv' /\ LagInv' /\ log' \in Seq(Entry)
             /\ \A i \in DOMAIN log' : log'[i].gen <= gen'
             /\ clears' \subseteq clears /\ cancels' \subseteq cancels
             /\ resumption' \in {resumption, -1} /\ played' \in SUBSET Nat
  <2>. DEFINE new == <<e>>
  <2>1. new \in Seq(Entry) /\ DOMAIN new = {1} /\ new[1] = e
    BY <1>3
  <2>. HIDE DEF new
  <2>2. log' = log \o new
    BY <1>3 DEF new
  <2>3. e.gen <= gen /\ e.type \notin Failure
    <3>1. \/ e.gen = gen
          \/ e.type \in CancelOutcome /\ \E c \in cancels : e.gen = c.gen
      BY <1>3 DEF Single, At
    <3>2. e.type \notin Failure
      BY <1>3 DEF Single, At, Failure, CancelOutcome
    <3>. QED  BY <1>0, <1>b, <3>1, <3>2
  <2>4. \A i \in DOMAIN log : ~Bad(log[i], e)
    BY <1>3, SingleSound
  <2>5. LogSound' /\ log' \in Seq(Entry)
    BY SMTT(20), <1>0, <2>1, <2>2, <2>4, LogExtends
  <2>a. Caused'
    BY <1>0, <2>1, <2>2, <2>3, CausedExtends
  <2>6. \A i \in DOMAIN log' : (i \in DOMAIN log /\ log'[i] = log[i]) \/ log'[i] = e
    BY <1>0, <2>1, <2>2, LogEntries
  <2>7. ChainInv'
    <3>1. ASSUME clears' # {} PROVE Unlogged({"clear_acknowledged", "clear_failed"})'
      <4>1. clears # {} /\ e.type \notin {"clear_acknowledged", "clear_failed"}
        BY <1>3, <3>1 DEF Single, At, CancelOutcome
      <4>. QED  BY <1>3, <2>6, <4>1 DEF ChainInv, Unlogged
    <3>2. ASSUME resumption' = gen' PROVE Unlogged({"output_resumed", "clear_failed"})'
      <4>1. resumption = gen /\ e.type \notin {"output_resumed", "clear_failed"}
        BY <1>0, <1>3, <3>2 DEF Single, At, CancelOutcome
      <4>. QED  BY <1>3, <2>6, <4>1 DEF ChainInv, Unlogged
    <3>. QED  BY <3>1, <3>2 DEF ChainInv
  <2>8. LagInv'
    <3>1. played \subseteq played' /\ (e.type = "playout_lag" => e.turn \in played')
      BY <1>3 DEF Single, At, CancelOutcome
    <3>. QED  BY <1>3, <2>6, <3>1 DEF LagInv
  <2>9. clears' \subseteq clears /\ resumption' \in {resumption, -1} /\ played' \in SUBSET Nat
        /\ cancels' \subseteq cancels
    BY <1>0, <1>3 DEF Single, Entry
  <2>b. CancelInv'
    <3>1. ASSUME NEW c \in cancels', NEW i \in DOMAIN log', log'[i].gen = c.gen
          PROVE  log'[i].type \notin CancelOutcome
      <4>1. c \in cancels
        BY <2>9
      <4>2. CASE i \in DOMAIN log /\ log'[i] = log[i]
        BY <3>1, <4>1, <4>2 DEF CancelInv
      <4>3. CASE log'[i] = e /\ e.type \in CancelOutcome
        <5>1. PICK d \in cancels : e.gen = d.gen /\ cancels' = cancels \ {d}
          BY <1>3, <4>3 DEF Single, At, CancelOutcome
        <5>2. c = d
          BY <3>1, <4>1, <4>3, <5>1 DEF CancelInv
        <5>. QED  BY <5>1, <5>2
      <4>. QED  BY <2>6, <4>2, <4>3
    <3>2. \A c, d \in cancels' : c.gen = d.gen => c = d
      BY <2>9 DEF CancelInv
    <3>. QED  BY <3>1, <3>2 DEF CancelInv
  <2>c. \A i \in DOMAIN log' : log'[i].gen <= gen'
    BY <1>0, <1>3, <2>3, <2>6
  <2>. QED  BY <2>5, <2>7, <2>8, <2>9, <2>a, <2>b, <2>c
<1>4. ASSUME UNCHANGED <<gen, clears, cancels, played>>, resumption = gen, resumption' = -1,
             log' = log \o <<At(gen, "audio_playout"), At(gen, "output_resumed")>>
      PROVE  /\ LogSound' /\ Caused' /\ ChainInv' /\ CancelInv' /\ LagInv' /\ log' \in Seq(Entry)
             /\ \A i \in DOMAIN log' : log'[i].gen <= gen'
  <2>. DEFINE a == At(gen, "audio_playout")
              b == At(gen, "output_resumed")
              new == <<a, b>>
  <2>1. /\ a \in Entry /\ a.gen = gen /\ a.type = "audio_playout"
        /\ b \in Entry /\ b.gen = gen /\ b.type = "output_resumed"
    BY <1>0 DEF At, Entry, Event
  <2>2. log' = log \o new
    BY <1>4
  <2>. HIDE DEF a, b
  <2>3. new \in Seq(Entry) /\ DOMAIN new = 1 .. 2 /\ new[1] = a /\ new[2] = b
    BY <2>1
  <2>. HIDE DEF new
  <2>4. \A i \in DOMAIN log, k \in DOMAIN new : ~Bad(log[i], new[k])
    <3>. TAKE i \in DOMAIN log, k \in DOMAIN new
    <3>1. new[k] = a \/ new[k] = b
      BY <2>3
    <3>2. log[i].gen \in Nat /\ log[i].gen <= gen
      BY <1>0 DEF Entry
    <3>3. ~Late(log[i], a) /\ ~Late(log[i], b)
      BY <1>0, <2>1, <3>2 DEF Late
    <3>4. ~Broken(log[i], a) /\ ~Broken(log[i], b)
      BY <1>4, <2>1 DEF Broken, ChainInv, Unlogged, Outcome, CancelOutcome
    <3>5. ~Repeated(log[i], a) /\ ~Repeated(log[i], b)
      BY <2>1 DEF Repeated
    <3>. QED  BY <3>1, <3>3, <3>4, <3>5 DEF Bad
  <2>5. \A i, k \in DOMAIN new : i < k => ~Bad(new[i], new[k])
    <3>1. ~Bad(a, b)
      BY <2>1 DEF Bad, Late, Broken, Repeated, Outcome, CancelOutcome
    <3>. QED  BY <2>3, <3>1
  <2>6. LogSound' /\ log' \in Seq(Entry)
    BY <1>0, <2>2, <2>3, <2>4, <2>5, LogExtends
  <2>7. \A i \in DOMAIN log' : (i \in DOMAIN log /\ log'[i] = log[i]) \/ log'[i] = a \/ log'[i] = b
    <3>1. \A i \in DOMAIN log' :
            (i \in DOMAIN log /\ log'[i] = log[i]) \/ \E k \in DOMAIN new : log'[i] = new[k]
      BY <1>0, <2>2, <2>3, LogEntries
    <3>. QED  BY <2>3, <3>1
  <2>b. ChainInv'
    <3>1. ASSUME clears # {}
          PROVE  Unlogged({"clear_acknowledged", "clear_failed"})'
      BY <1>4, <2>1, <2>7, <3>1 DEF ChainInv, Unlogged
    <3>2. resumption' # gen'
      BY <1>0, <1>4
    <3>. QED  BY <1>4, <3>1, <3>2 DEF ChainInv
  <2>c. LagInv'
    BY <1>4, <2>1, <2>7 DEF LagInv
  <2>d. CancelInv'
    BY <1>4, <2>1, <2>7 DEF CancelInv, CancelOutcome
  <2>e. Caused'
    <3>1. \A k \in DOMAIN new : new[k].type \notin Failure
      BY <2>1, <2>3 DEF Failure
    <3>. QED  BY <1>0, <2>2, <2>3, <3>1, CausedExtends
  <2>8. \A i \in DOMAIN log' : log'[i].gen <= gen'
    BY <1>0, <1>4, <2>1, <2>7
  <2>. QED  BY <2>6, <2>8, <2>b, <2>c, <2>d, <2>e
<1>5. ASSUME gen' = gen + 1, NEW barge \in BOOLEAN, clears' = {[gen |-> gen + 1, barge |-> barge]},
             cancels' = cancels \cup {[gen |-> gen + 1, barge |-> barge]}
      PROVE  /\ gen' \in Nat /\ (\A c \in clears : c.gen = gen)' /\ (\A c, d \in clears : c = d)'
             /\ clears' \in SUBSET [gen : Nat, barge : BOOLEAN]
             /\ cancels' \in SUBSET [gen : Nat, barge : BOOLEAN]
  <2>. DEFINE n == [gen |-> gen + 1, barge |-> barge]
  <2>1. n \in [gen : Nat, barge : BOOLEAN] /\ n.gen = gen'
    BY <1>0, <1>5
  <2>. HIDE DEF n
  <2>2. clears' = {n} /\ cancels' = cancels \cup {n}
    BY <1>5 DEF n
  <2>. QED  BY <1>0, <1>5, <2>1, <2>2
<1>6. ASSUME UNCHANGED gen, clears' \subseteq clears, cancels' \subseteq cancels
      PROVE  /\ gen' \in Nat /\ (\A c \in clears : c.gen = gen)' /\ (\A c, d \in clears : c = d)'
             /\ (\A c \in cancels : c.gen <= gen)'
             /\ clears' \in SUBSET [gen : Nat, barge : BOOLEAN]
             /\ cancels' \in SUBSET [gen : Nat, barge : BOOLEAN]
  BY <1>0, <1>6, <1>a, <1>b
<1>7. CASE UNCHANGED <<gen, log, played, cancels>> /\ clears' \subseteq clears /\ resumption' \in {resumption, -1}
  BY <1>0, <1>1, <1>6, <1>7
<1>8. ASSUME gen' = gen + 1, played' = {}, resumption' \in {-1, gen + 1}, NEW barge \in BOOLEAN,
             clears' = {[gen |-> gen + 1, barge |-> barge]},
             cancels' = cancels \cup {[gen |-> gen + 1, barge |-> barge]},
             NEW new \in Seq(Entry), CutEntries(new), log' = log \o new
      PROVE  resumption' \in {-1, gen'} /\ played' \in SUBSET Nat
  BY <1>8
<1>9. ASSUME UNCHANGED gen, NEW e \in Entry, log' = log \o <<e>>, Single(e)
      PROVE  /\ LogSound' /\ Caused' /\ ChainInv' /\ CancelInv' /\ LagInv' /\ log' \in Seq(Entry)
             /\ \A i \in DOMAIN log' : log'[i].gen <= gen'
             /\ clears' \subseteq clears /\ cancels' \subseteq cancels
             /\ resumption' \in {-1, gen'} /\ played' \in SUBSET Nat
  BY <1>0, <1>3, <1>9
<1>. QED  BY <1>0, <1>1, <1>2, <1>4, <1>5, <1>6, <1>7, <1>8, <1>9 DEF LogMoves

-----------------------------------------------------------------------------
(***************************************************************************)
(* The playout queue, its metadata and what left it.                       *)
(***************************************************************************)
QueueType ==
  /\ gen \in Nat /\ lastSeq \in Nat
  /\ playout \in Seq(PlayoutFrame) /\ Len(playout) <= QueueCap
  /\ metadata \in Seq(PlayoutFrame) /\ Len(metadata) <= QueueCap
  /\ held \in SUBSET PlayoutFrame
  /\ DOMAIN acks = 0 .. gen /\ DOMAIN stage = 0 .. gen
  /\ \A g \in 0 .. gen :
       /\ acks[g] \in Seq(PlayoutFrame) /\ Len(acks[g]) <= AckCap
       /\ stage[g] \in Stage

QueueFence ==
  /\ \A i \in DOMAIN playout : playout[i].gen <= gen
  /\ \A f \in held : f.gen <= gen

QueueInv == QueueType /\ QueueFence /\ AckInv /\ OrderInv /\ PlayoutOrdered

LEMMA QueueSilent ==
  ASSUME QueueInv, UNCHANGED <<gen, lastSeq, playout, metadata, held, acks, stage>>
  PROVE  QueueInv' /\ (Aligned => Aligned')
BY DEF QueueInv, QueueType, QueueFence, AckInv, OrderInv, PlayoutOrdered, Passed, Aligned

LEMMA QueueCut ==
  ASSUME LaneAssumption, QueueInv, NEW barge \in BOOLEAN, CutMove(barge)
  PROVE  QueueInv' /\ Aligned'
<1>0. /\ gen \in Nat /\ gen' = gen + 1 /\ lastSeq' = 0 /\ metadata' = <<>> /\ playout' = playout /\ held' = held
      /\ acks' = [g \in 0 .. gen + 1 |-> IF g <= gen THEN acks[g] ELSE <<>>]
      /\ stage' = [g \in 0 .. gen + 1 |-> IF g <= gen THEN stage[g] ELSE "none"]
      /\ QueueCap \in Nat /\ AckCap \in Nat
  BY DEF CutMove, QueueInv, QueueType, LaneAssumption
<1>1. \A g \in 0 .. gen + 1 : g \in 0 .. gen \/ (g = gen + 1 /\ ~(g <= gen))
  BY <1>0
<1>2. DOMAIN acks' = 0 .. gen' /\ DOMAIN stage' = 0 .. gen'
      /\ \A g \in 0 .. gen : acks'[g] = acks[g] /\ stage'[g] = stage[g]
      /\ acks'[gen'] = <<>> /\ stage'[gen'] = "none"
  BY <1>0
<1>3. playout \in Seq(PlayoutFrame) /\ \A i \in DOMAIN playout : playout[i].gen \in Nat /\ playout[i].gen <= gen
  <2>1. playout \in Seq(PlayoutFrame)
    BY DEF QueueInv, QueueType
  <2>2. \A i \in DOMAIN playout : playout[i] \in PlayoutFrame
    BY <2>1
  <2>. QED  BY <2>1, <2>2 DEF PlayoutFrame, QueueInv, QueueFence
<1>4. QueueType'
  <2>1. <<>> \in Seq(PlayoutFrame) /\ Len(<<>>) = 0
    OBVIOUS
  <2>2. \A g \in 0 .. gen' : acks'[g] \in Seq(PlayoutFrame) /\ Len(acks'[g]) <= AckCap /\ stage'[g] \in Stage
    BY <1>0, <1>1, <1>2, <2>1 DEF QueueInv, QueueType, Stage
  <2>. QED  BY <1>0, <1>2, <2>1, <2>2 DEF QueueInv, QueueType
<1>5. QueueFence'
  <2>1. ASSUME NEW f \in held PROVE f.gen <= gen'
    <3>1. f.gen \in Nat /\ f.gen <= gen
      BY DEF QueueInv, QueueType, QueueFence, PlayoutFrame
    <3>. QED  BY <1>0, <3>1
  <2>. QED  BY <1>0, <1>3, <2>1 DEF QueueFence
<1>6. AckInv'
  BY <1>0, <1>1, <1>2 DEF QueueInv, AckInv
<1>7. OrderInv'
  <2>1. ASSUME NEW f \in PlayoutFrame, Passed(f)', f.gen = gen' PROVE FALSE
    <3>1. f \in held
      BY <1>0, <1>2, <2>1 DEF Passed
    <3>2. f.gen <= gen /\ f.gen \in Nat
      BY <3>1 DEF QueueInv, QueueFence, PlayoutFrame
    <3>. QED  BY <1>0, <2>1, <3>2
  <2>2. \A i \in DOMAIN playout : playout[i].gen # gen'
    BY <1>0, <1>3
  <2>3. DOMAIN metadata' = {}
    BY <1>0
  <2>. QED  BY <1>0, <2>1, <2>2, <2>3 DEF OrderInv
<1>8. PlayoutOrdered' /\ Aligned'
  BY <1>0, <1>3 DEF QueueInv, PlayoutOrdered, Aligned
<1>. QED  BY <1>4, <1>5, <1>6, <1>7, <1>8 DEF QueueInv

LEMMA QueuePurge ==
  ASSUME LaneAssumption, QueueInv, PurgeMove
  PROVE  QueueInv'
<1>1. /\ UNCHANGED <<gen, lastSeq, playout, held, acks, stage>> /\ metadata' = <<>>
      /\ metadata' \in Seq(PlayoutFrame) /\ Len(metadata') = 0 /\ DOMAIN metadata' = {}
      /\ QueueCap \in Nat
  BY DEF PurgeMove, LaneAssumption
<1>2. QueueType' /\ QueueFence' /\ AckInv' /\ PlayoutOrdered'
  BY <1>1 DEF QueueInv, QueueType, QueueFence, AckInv, PlayoutOrdered
<1>3. OrderInv'
  BY <1>1 DEF QueueInv, OrderInv, Passed
<1>. QED  BY <1>2, <1>3 DEF QueueInv

LEMMA QueueEmit ==
  ASSUME LaneAssumption, QueueInv, NEW f \in PlayoutFrame, EmitMove(f)
  PROVE  QueueInv' /\ (Aligned => Aligned')
<1>0. /\ f.gen = gen /\ f.seq > lastSeq /\ lastSeq' = f.seq
      /\ metadata' = KeepLast(Append(metadata, f)) /\ playout' = KeepLast(Append(playout, f))
      /\ UNCHANGED <<gen, held, acks, stage>>
      /\ f.seq \in Nat /\ gen \in Nat /\ lastSeq \in Nat
      /\ playout \in Seq(PlayoutFrame) /\ metadata \in Seq(PlayoutFrame)
      /\ Len(playout) \in Nat /\ Len(metadata) \in Nat /\ QueueCap \in Nat
  BY DEF EmitMove, QueueInv, QueueType, PlayoutFrame, LaneAssumption
<1>a. /\ playout' \in Seq(PlayoutFrame) /\ Len(playout') <= QueueCap /\ Len(playout') \in Nat \ {0}
      /\ Len(playout') = IF Len(playout) + 1 > QueueCap THEN QueueCap ELSE Len(playout) + 1
      /\ playout'[Len(playout')] = f
      /\ \A i \in 1 .. Len(playout') - 1 :
           /\ i + (Len(playout) + 1 - Len(playout')) \in 1 .. Len(playout)
           /\ playout'[i] = playout[i + (Len(playout) + 1 - Len(playout'))]
  <2>1. playout \in Seq(PlayoutFrame) /\ playout' = KeepLast(Append(playout, f))
    BY <1>0
  <2>2. playout' \in Seq(PlayoutFrame) /\ Push(playout, f, playout')
    BY <2>1, Pushed
  <2>. QED  BY <2>2 DEF Push
<1>b. /\ metadata' \in Seq(PlayoutFrame) /\ Len(metadata') <= QueueCap /\ Len(metadata') \in Nat \ {0}
      /\ Len(metadata') = IF Len(metadata) + 1 > QueueCap THEN QueueCap ELSE Len(metadata) + 1
      /\ metadata'[Len(metadata')] = f
      /\ \A i \in 1 .. Len(metadata') - 1 :
           /\ i + (Len(metadata) + 1 - Len(metadata')) \in 1 .. Len(metadata)
           /\ metadata'[i] = metadata[i + (Len(metadata) + 1 - Len(metadata'))]
  <2>1. metadata \in Seq(PlayoutFrame) /\ metadata' = KeepLast(Append(metadata, f))
    BY <1>0
  <2>2. metadata' \in Seq(PlayoutFrame) /\ Push(metadata, f, metadata')
    BY <2>1, Pushed
  <2>. QED  BY <2>2 DEF Push
<1>. DEFINE d == Len(playout) + 1 - Len(playout')
            m == Len(metadata) + 1 - Len(metadata')
<1>1. /\ playout' \in Seq(PlayoutFrame) /\ Len(playout') <= QueueCap /\ Len(playout') \in Nat \ {0}
      /\ playout'[Len(playout')] = f
      /\ \A i \in 1 .. Len(playout') - 1 : i + d \in 1 .. Len(playout) /\ playout'[i] = playout[i + d]
  BY <1>a
<1>2. /\ metadata' \in Seq(PlayoutFrame) /\ Len(metadata') <= QueueCap /\ Len(metadata') \in Nat \ {0}
      /\ metadata'[Len(metadata')] = f
      /\ \A i \in 1 .. Len(metadata') - 1 : i + m \in 1 .. Len(metadata) /\ metadata'[i] = metadata[i + m]
  BY <1>b
<1>3. d \in Int /\ m \in Int
  BY <1>0, <1>1, <1>2
<1>n. /\ Len(playout) \in Nat /\ Len(metadata) \in Nat /\ QueueCap \in Nat
      /\ Len(playout') \in Nat /\ Len(metadata') \in Nat
      /\ d = Len(playout) + 1 - Len(playout') /\ m = Len(metadata) + 1 - Len(metadata')
      /\ Len(playout') <= QueueCap
      /\ Len(metadata') = IF Len(metadata) + 1 > QueueCap THEN QueueCap ELSE Len(metadata) + 1
  BY <1>0, <1>a, <1>b
<1>. HIDE DEF d, m
<1>4. QueueType'
  BY <1>0, <1>a, <1>b DEF QueueInv, QueueType
<1>5. ASSUME NEW i \in DOMAIN playout'
      PROVE  \/ i = Len(playout') /\ playout'[i] = f
             \/ i \in 1 .. Len(playout') - 1 /\ i + d \in DOMAIN playout /\ playout'[i] = playout[i + d]
  <2>1. i \in 1 .. Len(playout') /\ DOMAIN playout = 1 .. Len(playout)
    BY <1>0, <1>1
  <2>2. CASE i = Len(playout')
    BY <1>1, <2>2
  <2>3. CASE i # Len(playout')
    <3>1. i \in 1 .. Len(playout') - 1
      BY <1>n, <2>1, <2>3
    <3>. QED  BY <1>1, <2>1, <3>1
  <2>. QED  BY <2>2, <2>3
<1>6. ASSUME NEW i \in DOMAIN metadata'
      PROVE  \/ i = Len(metadata') /\ metadata'[i] = f
             \/ i \in 1 .. Len(metadata') - 1 /\ i + m \in DOMAIN metadata /\ metadata'[i] = metadata[i + m]
  <2>1. i \in 1 .. Len(metadata') /\ DOMAIN metadata = 1 .. Len(metadata)
    BY <1>0, <1>2
  <2>2. CASE i = Len(metadata')
    BY <1>2, <2>2
  <2>3. CASE i # Len(metadata')
    <3>1. i \in 1 .. Len(metadata') - 1
      BY <1>n, <2>1, <2>3
    <3>. QED  BY <1>2, <2>1, <3>1
  <2>. QED  BY <2>2, <2>3
<1>7. QueueFence' /\ AckInv'
  BY <1>0, <1>5 DEF QueueInv, QueueFence, AckInv
<1>8. \A i \in DOMAIN playout : playout[i].gen \in Nat /\ playout[i].seq \in Nat
  <2>1. \A i \in DOMAIN playout : playout[i] \in PlayoutFrame
    BY <1>0
  <2>. QED  BY <2>1 DEF PlayoutFrame
<1>9. \A i \in DOMAIN metadata : metadata[i].gen \in Nat /\ metadata[i].seq \in Nat
  <2>1. \A i \in DOMAIN metadata : metadata[i] \in PlayoutFrame
    BY <1>0
  <2>. QED  BY <2>1 DEF PlayoutFrame
<1>10. OrderInv'
  <2>1. \A i \in DOMAIN playout' : playout'[i].gen = gen => playout'[i].seq <= lastSeq'
    BY <1>0, <1>5, <1>8 DEF QueueInv, OrderInv
  <2>2. \A i \in DOMAIN metadata' : metadata'[i].gen = gen /\ metadata'[i].seq <= lastSeq'
    BY <1>0, <1>6, <1>9 DEF QueueInv, OrderInv
  <2>3. ASSUME NEW i \in DOMAIN metadata', NEW j \in DOMAIN metadata', i < j
        PROVE  metadata'[i].seq < metadata'[j].seq
    <3>1. i \in 1 .. Len(metadata') - 1 /\ i + m \in DOMAIN metadata /\ metadata'[i] = metadata[i + m]
      BY <1>2, <1>6, <2>3
    <3>2. CASE j = Len(metadata')
      BY <1>0, <1>2, <1>9, <3>1, <3>2 DEF QueueInv, OrderInv
    <3>3. CASE j # Len(metadata')
      <4>1. j + m \in DOMAIN metadata /\ metadata'[j] = metadata[j + m] /\ i + m < j + m
        BY <1>2, <1>3, <1>6, <2>3, <3>3
      <4>. QED  BY <3>1, <4>1 DEF QueueInv, OrderInv
    <3>. QED  BY <3>2, <3>3
  <2>4. ASSUME NEW x \in PlayoutFrame, Passed(x)', x.gen = gen
        PROVE  /\ x.seq <= lastSeq'
               /\ \A i \in DOMAIN playout' : playout'[i].gen = gen => x.seq < playout'[i].seq
    <3>1. x.seq \in Nat /\ x.seq <= lastSeq
          /\ \A i \in DOMAIN playout : playout[i].gen = gen => x.seq < playout[i].seq
      BY <1>0, <2>4 DEF QueueInv, OrderInv, Passed, PlayoutFrame
    <3>. QED  BY <1>0, <1>5, <3>1
  <2>. QED  BY <1>0, <2>1, <2>2, <2>3, <2>4 DEF OrderInv
<1>11. PlayoutOrdered'
  <2>1. ASSUME NEW i \in DOMAIN playout', NEW j \in DOMAIN playout', i < j
        PROVE  \/ playout'[i].gen < playout'[j].gen
               \/ playout'[i].gen = playout'[j].gen /\ playout'[i].seq < playout'[j].seq
    <3>1. i \in 1 .. Len(playout') - 1 /\ i + d \in DOMAIN playout /\ playout'[i] = playout[i + d]
      BY <1>1, <1>5, <2>1
    <3>2. CASE j = Len(playout')
      <4>1. playout[i + d].gen <= gen /\ (playout[i + d].gen = gen => playout[i + d].seq <= lastSeq)
        BY <3>1 DEF QueueInv, QueueFence, OrderInv
      <4>2. playout[i + d].gen \in Nat /\ playout[i + d].seq \in Nat /\ playout'[j] = f
        BY <1>1, <1>8, <3>1, <3>2
      <4>. QED  BY <1>0, <3>1, <4>1, <4>2
    <3>3. CASE j # Len(playout')
      <4>1. j + d \in DOMAIN playout /\ playout'[j] = playout[j + d] /\ i + d < j + d
        BY <1>1, <1>3, <1>5, <2>1, <3>3
      <4>. QED  BY <3>1, <4>1 DEF QueueInv, PlayoutOrdered
    <3>. QED  BY <3>2, <3>3
  <2>. QED  BY <2>1 DEF PlayoutOrdered
<1>12. ASSUME Aligned PROVE Aligned'
  <2>1. ASSUME NEW i \in DOMAIN playout', playout'[i].gen = gen
        PROVE  /\ Len(playout') - i < Len(metadata')
               /\ metadata'[Len(metadata') - (Len(playout') - i)] = playout'[i]
    <3>1. CASE i = Len(playout')
      <4>1. Len(metadata') - (Len(playout') - i) = Len(metadata') /\ Len(playout') - i = 0
        BY <1>1, <1>2, <3>1
      <4>. QED  BY <1>1, <1>2, <3>1, <4>1
    <3>2. CASE i # Len(playout')
      <4>1. i \in 1 .. Len(playout') - 1 /\ i + d \in DOMAIN playout /\ playout'[i] = playout[i + d]
        BY <1>5, <3>2
      <4>2. /\ Len(playout) - (i + d) < Len(metadata)
            /\ metadata[Len(metadata) - (Len(playout) - (i + d))] = playout'[i]
        BY <1>12, <2>1, <4>1 DEF Aligned
      <4>3. Len(playout) - (i + d) = Len(playout') - i - 1
        BY <1>n, <4>1
      <4>. DEFINE k == Len(metadata') - (Len(playout') - i)
      <4>4. Len(playout') - i < Len(metadata')
        <5>1. Len(playout') - i - 1 < Len(metadata) /\ i \in Nat /\ Len(playout') - i < QueueCap
          <6>1. i \in 1 .. Len(playout') - 1
            BY <4>1
          <6>2. Len(playout') - i - 1 < Len(metadata)
            BY <4>2, <4>3
          <6>. QED  BY <1>n, <6>1, <6>2
        <5>2. CASE Len(metadata) + 1 > QueueCap
          BY <1>n, <5>1, <5>2
        <5>3. CASE ~(Len(metadata) + 1 > QueueCap)
          BY <1>n, <5>1, <5>3
        <5>. QED  BY <5>2, <5>3
      <4>5. k \in 1 .. Len(metadata') - 1 /\ k + m = Len(metadata) - (Len(playout) - (i + d))
        <5>1. i \in 1 .. Len(playout') - 1
          BY <4>1
        <5>2. k \in 1 .. Len(metadata') - 1
          BY SMTT(20), <1>n, <4>4, <5>1
        <5>3. Len(metadata) - (Len(playout) - (i + d)) = Len(metadata) - (Len(playout') - i - 1)
          BY <4>3
        <5>4. k + m = Len(metadata) - (Len(playout') - i - 1)
          <6>1. /\ i \in Int /\ Len(playout') \in Int /\ Len(metadata) \in Int /\ Len(metadata') \in Int
                /\ m = Len(metadata) + 1 - Len(metadata')
            BY <1>n, <5>1
          <6>2. \A a, b, c, x \in Int : (a - (b - x)) + (c + 1 - a) = c - (b - x - 1)
            OBVIOUS
          <6>. QED  BY <6>1, <6>2
        <5>. QED  BY <5>2, <5>3, <5>4
      <4>6. metadata'[k] = metadata[k + m]
        <5>. HIDE DEF k
        <5>. QED  BY <1>2, <4>5
      <4>. QED  BY <4>2, <4>4, <4>5, <4>6
    <3>. QED  BY <3>1, <3>2
  <2>. QED  BY <1>0, <2>1 DEF Aligned
<1>. QED  BY <1>4, <1>7, <1>10, <1>11, <1>12 DEF QueueInv

\* The queue hands its first frame on.
LEMMA QueuePull ==
  ASSUME QueueInv, UNCHANGED <<gen, lastSeq, metadata, acks, stage>>,
         playout # <<>>, playout' = Tail(playout),
         held' = IF Head(playout).gen = gen THEN held \cup {Head(playout)} ELSE held
  PROVE  QueueInv' /\ (Aligned => Aligned')
<1>0. playout \in Seq(PlayoutFrame) /\ Len(playout) \in Nat \ {0} /\ gen \in Nat
      /\ Head(playout) = playout[1]
  BY DEF QueueInv, QueueType
<1>1. /\ Head(playout) \in PlayoutFrame /\ playout' \in Seq(PlayoutFrame)
      /\ Len(playout') = Len(playout) - 1
      /\ \A i \in 1 .. Len(playout') : playout'[i] = playout[i + 1]
  BY <1>0, HeadTailProperties
<1>2. ASSUME NEW i \in DOMAIN playout'
      PROVE  i \in Nat /\ i + 1 \in DOMAIN playout /\ 1 \in DOMAIN playout /\ 1 < i + 1
             /\ playout'[i] = playout[i + 1]
  <2>1. i \in 1 .. Len(playout')
    BY <1>1
  <2>. QED  BY <1>0, <1>1, <2>1
<1>3. QueueType'
  <2>1. Len(playout') <= QueueCap
    <3>1. QueueCap \in Int /\ Len(playout) <= QueueCap
      BY LaneAssumption DEF LaneAssumption, QueueInv, QueueType
    <3>. QED  BY <1>0, <1>1, <3>1
  <2>2. held' \in SUBSET PlayoutFrame
    BY <1>1 DEF QueueInv, QueueType
  <2>. QED  BY <1>1, <2>1, <2>2 DEF QueueInv, QueueType
<1>4. QueueFence'
  <2>1. \A i \in DOMAIN playout' : playout'[i].gen <= gen
    BY <1>2 DEF QueueInv, QueueFence
  <2>2. \A f \in held' : f.gen <= gen
    BY <1>0 DEF QueueInv, QueueFence
  <2>. QED  BY <2>1, <2>2 DEF QueueFence
<1>5. AckInv'
  BY DEF QueueInv, AckInv
<1>6. OrderInv'
  <2>1. \A i \in DOMAIN playout' : playout'[i].gen = gen => playout'[i].seq <= lastSeq'
    BY <1>2 DEF QueueInv, OrderInv
  <2>2. ASSUME NEW f \in PlayoutFrame, Passed(f)', f.gen = gen
        PROVE  /\ f.seq <= lastSeq
               /\ \A i \in DOMAIN playout' : playout'[i].gen = gen => f.seq < playout'[i].seq
    <3>1. CASE Passed(f)
      BY <1>2, <2>2, <3>1 DEF QueueInv, OrderInv
    <3>2. CASE ~Passed(f)
      <4>1. f = playout[1] /\ 1 \in DOMAIN playout
        BY <1>0, <2>2, <3>2 DEF Passed
      <4>2. f.seq <= lastSeq
        BY <2>2, <4>1 DEF QueueInv, OrderInv
      <4>3. ASSUME NEW i \in DOMAIN playout', playout'[i].gen = gen PROVE f.seq < playout'[i].seq
        <5>1. /\ i + 1 \in DOMAIN playout /\ 1 < i + 1 /\ playout'[i] = playout[i + 1]
          BY <1>2
        <5>2. \/ playout[1].gen < playout[i + 1].gen
              \/ playout[1].gen = playout[i + 1].gen /\ playout[1].seq < playout[i + 1].seq
          BY <4>1, <5>1 DEF QueueInv, PlayoutOrdered
        <5>. QED  BY <1>0, <2>2, <4>1, <4>3, <5>1, <5>2
      <4>. QED  BY <4>2, <4>3
    <3>. QED  BY <3>1, <3>2
  <2>3. UNCHANGED metadata
    OBVIOUS
  <2>. QED  BY <2>1, <2>2, <2>3 DEF QueueInv, OrderInv
<1>7. PlayoutOrdered'
  <2>1. ASSUME NEW i \in DOMAIN playout', NEW j \in DOMAIN playout', i < j
        PROVE  \/ playout'[i].gen < playout'[j].gen
               \/ playout'[i].gen = playout'[j].gen /\ playout'[i].seq < playout'[j].seq
    <3>1. i + 1 < j + 1 /\ i + 1 \in DOMAIN playout /\ j + 1 \in DOMAIN playout
      BY <1>2, <2>1
    <3>. QED  BY <1>2, <3>1 DEF QueueInv, PlayoutOrdered
  <2>. QED  BY <2>1 DEF PlayoutOrdered
<1>8. ASSUME Aligned PROVE Aligned'
  <2>1. ASSUME NEW i \in DOMAIN playout', playout'[i].gen = gen
        PROVE  /\ Len(playout') - i < Len(metadata)
               /\ metadata[Len(metadata) - (Len(playout') - i)] = playout'[i]
    <3>1. Len(playout') - i = Len(playout) - (i + 1)
      BY <1>0, <1>1, <1>2
    <3>2. i + 1 \in DOMAIN playout /\ playout'[i] = playout[i + 1]
      BY <1>2
    <3>3. /\ Len(playout) - (i + 1) < Len(metadata)
          /\ metadata[Len(metadata) - (Len(playout) - (i + 1))] = playout[i + 1]
      BY <1>8, <2>1, <3>2 DEF Aligned
    <3>. QED  BY <3>1, <3>2, <3>3
  <2>. QED  BY <2>1 DEF Aligned
<1>. QED  BY <1>3, <1>4, <1>5, <1>6, <1>7, <1>8 DEF QueueInv

\* A frame that starts joins the acknowledgements of its generation; frames may
\* be dropped by the media adapter.
LEMMA QueueHeld ==
  ASSUME LaneAssumption, QueueInv, UNCHANGED <<gen, lastSeq, playout, metadata, stage>>,
         held' \subseteq held,
         \/ UNCHANGED acks
         \/ \E f \in held : /\ f.gen = gen /\ Len(acks[gen]) < AckCap
                            /\ acks' = [acks EXCEPT ![gen] = Append(@, f)]
  PROVE  QueueInv' /\ (Aligned => Aligned')
<1>0. gen \in Nat /\ AckCap \in Nat /\ DOMAIN acks = 0 .. gen /\ gen \in 0 .. gen
      /\ \A g \in 0 .. gen : acks[g] \in Seq(PlayoutFrame)
      /\ held \in SUBSET PlayoutFrame
  BY DEF QueueInv, QueueType, LaneAssumption
<1>1. ASSUME UNCHANGED acks
      PROVE  QueueType' /\ AckInv' /\ \A x \in PlayoutFrame : Passed(x)' => Passed(x)
  BY <1>1 DEF QueueInv, QueueType, AckInv, Passed
<1>2. ASSUME NEW f \in held, f.gen = gen, Len(acks[gen]) < AckCap,
             acks' = [acks EXCEPT ![gen] = Append(@, f)]
      PROVE  QueueType' /\ AckInv' /\ \A x \in PlayoutFrame : Passed(x)' => Passed(x)
  <2>. DEFINE s == acks[gen]
              t == Append(s, f)
  <2>1. s \in Seq(PlayoutFrame) /\ f \in PlayoutFrame /\ Len(s) \in Nat /\ Len(s) < AckCap
    BY <1>0, <1>2
  <2>2. /\ t \in Seq(PlayoutFrame) /\ Len(t) = Len(s) + 1 /\ t # <<>>
        /\ \A i \in 1 .. Len(s) : t[i] = s[i]
        /\ t[Len(s) + 1] = f
    <3>. HIDE DEF s
    <3>. QED  BY <2>1, AppendProperties
  <2>3. /\ DOMAIN acks' = 0 .. gen /\ acks'[gen] = t
        /\ \A g \in 0 .. gen : g # gen => acks'[g] = acks[g]
    BY <1>0, <1>2
  <2>. HIDE DEF t
  <2>4. QueueType'
    <3>1. \A g \in 0 .. gen : acks'[g] \in Seq(PlayoutFrame) /\ Len(acks'[g]) <= AckCap
      BY SMTT(20), <1>0, <2>1, <2>2, <2>3 DEF QueueInv, QueueType
    <3>. QED  BY <1>0, <2>3, <3>1 DEF QueueInv, QueueType
  <2>5. \A i \in DOMAIN t : t[i] = f \/ (i \in DOMAIN s /\ t[i] = s[i])
    BY <2>1, <2>2
  <2>6. AckInv'
    <3>1. \A i \in DOMAIN t : t[i].gen = gen
      BY SMTT(20), <1>0, <1>2, <2>5 DEF QueueInv, AckInv
    <3>. QED  BY SMTT(20), <1>0, <2>2, <2>3, <3>1 DEF QueueInv, AckInv
  <2>7. \A x \in PlayoutFrame : Passed(x)' => Passed(x)
    BY <1>2, <2>3, <2>5 DEF Passed
  <2>. QED  BY <2>4, <2>6, <2>7
<1>3. QueueType' /\ AckInv' /\ \A x \in PlayoutFrame : Passed(x)' => Passed(x)
  BY <1>1, <1>2
<1>4. QueueFence' /\ PlayoutOrdered' /\ (Aligned => Aligned')
  BY DEF QueueInv, QueueFence, PlayoutOrdered, Aligned
<1>5. OrderInv'
  BY <1>3 DEF QueueInv, OrderInv
<1>. QED  BY <1>3, <1>4, <1>5 DEF QueueInv

\* The first acknowledgement of a generation is settled, or moves on.
LEMMA AckSettles ==
  ASSUME QueueInv, NEW g \in 0 .. gen, acks[g] # <<>>, UNCHANGED gen,
         Settle(g) \/ \E s \in Stage : MoveTo(g, s)
  PROVE  /\ DOMAIN acks' = 0 .. gen /\ DOMAIN stage' = 0 .. gen
         /\ \A h \in 0 .. gen : /\ acks'[h] \in Seq(PlayoutFrame) /\ Len(acks'[h]) <= AckCap
                                /\ stage'[h] \in Stage
         /\ AckInv' /\ \A i \in DOMAIN acks'[gen] : \E k \in DOMAIN acks[gen] : acks'[gen][i] = acks[gen][k]
<1>0. gen \in Nat /\ DOMAIN acks = 0 .. gen /\ DOMAIN stage = 0 .. gen
      /\ \A h \in 0 .. gen : acks[h] \in Seq(PlayoutFrame) /\ Len(acks[h]) <= AckCap /\ stage[h] \in Stage
  BY DEF QueueInv, QueueType
<1>1. ASSUME NEW s \in Stage, MoveTo(g, s)
      PROVE  /\ UNCHANGED acks /\ DOMAIN stage' = 0 .. gen
             /\ \A h \in 0 .. gen : stage'[h] \in Stage /\ (h # g => stage'[h] = stage[h])
  BY <1>0, <1>1 DEF MoveTo
<1>2. CASE \E s \in Stage : MoveTo(g, s)
  BY <1>0, <1>1, <1>2 DEF QueueInv, AckInv
<1>3. CASE Settle(g)
  <2>1. /\ Tail(acks[g]) \in Seq(PlayoutFrame) /\ Len(Tail(acks[g])) = Len(acks[g]) - 1
        /\ \A i \in 1 .. Len(Tail(acks[g])) : Tail(acks[g])[i] = acks[g][i + 1]
        /\ Len(acks[g]) \in Nat \ {0}
    BY <1>0, HeadTailProperties, EmptySeq
  <2>2. /\ DOMAIN acks' = 0 .. gen /\ DOMAIN stage' = 0 .. gen
        /\ acks'[g] = Tail(acks[g]) /\ stage'[g] = "none"
        /\ \A h \in 0 .. gen : h # g => acks'[h] = acks[h] /\ stage'[h] = stage[h]
    BY <1>0, <1>3 DEF Settle
  <2>3. \A i \in DOMAIN acks'[g] : i + 1 \in DOMAIN acks[g] /\ acks'[g][i] = acks[g][i + 1]
    <3>1. \A i \in 1 .. Len(Tail(acks[g])) : i + 1 \in 1 .. Len(acks[g])
      BY <2>1
    <3>2. DOMAIN acks[g] = 1 .. Len(acks[g])
      BY <1>0
    <3>. QED  BY <2>1, <2>2, <3>1, <3>2
  <2>4. \A h \in 0 .. gen : /\ acks'[h] \in Seq(PlayoutFrame) /\ Len(acks'[h]) <= AckCap
                            /\ stage'[h] \in Stage
    <3>1. Len(Tail(acks[g])) <= AckCap
      <4>1. Len(acks[g]) <= AckCap /\ AckCap \in Int
        BY <1>0, LaneAssumption DEF LaneAssumption
      <4>. QED  BY <2>1, <4>1
    <3>. QED  BY <1>0, <2>1, <2>2, <3>1 DEF Stage
  <2>5. AckInv'
    <3>1. ASSUME NEW h \in 0 .. gen
          PROVE  /\ \A i \in DOMAIN acks'[h] : acks'[h][i].gen = h
                 /\ stage'[h] # "none" => acks'[h] # <<>>
      BY <2>2, <2>3 DEF QueueInv, AckInv
    <3>. QED  BY <3>1 DEF AckInv
  <2>6. \A i \in DOMAIN acks'[gen] : \E k \in DOMAIN acks[gen] : acks'[gen][i] = acks[gen][k]
    <3>1. CASE g = gen
      BY <2>3, <3>1
    <3>2. CASE g # gen
      <4>1. acks'[gen] = acks[gen]
        BY <1>0, <2>2, <3>2
      <4>. QED  BY <4>1
    <3>. QED  BY <3>1, <3>2
  <2>. QED  BY <2>2, <2>4, <2>5, <2>6
<1>. QED  BY <1>2, <1>3

\* The metadata of the first acknowledgement is older than that of every queued
\* frame.
LEMMA QueueAck ==
  ASSUME QueueInv, NEW g \in 0 .. gen, acks[g] # <<>>, UNCHANGED <<gen, lastSeq, playout, held>>,
         Settle(g) \/ (\E s \in Stage : MoveTo(g, s)),
         \/ UNCHANGED metadata
         \/ /\ g = gen
            /\ \E i \in DOMAIN metadata : metadata[i] = Ack(g) /\ metadata' = RemoveAt(metadata, i)
  PROVE  QueueInv' /\ (Aligned => Aligned')
<1>0. /\ gen \in Nat /\ lastSeq \in Nat /\ playout \in Seq(PlayoutFrame) /\ metadata \in Seq(PlayoutFrame)
      /\ Len(playout) \in Nat /\ Len(metadata) \in Nat /\ Len(metadata) <= QueueCap
      /\ acks[g] \in Seq(PlayoutFrame)
  BY DEF QueueInv, QueueType
<1>1. /\ DOMAIN acks' = 0 .. gen /\ DOMAIN stage' = 0 .. gen
      /\ \A h \in 0 .. gen : /\ acks'[h] \in Seq(PlayoutFrame) /\ Len(acks'[h]) <= AckCap
                             /\ stage'[h] \in Stage
      /\ AckInv' /\ \A i \in DOMAIN acks'[gen] : \E k \in DOMAIN acks[gen] : acks'[gen][i] = acks[gen][k]
  BY AckSettles
<1>2. \A x \in PlayoutFrame : Passed(x)' => Passed(x)
  BY <1>1 DEF Passed
<1>3. QueueFence' /\ PlayoutOrdered'
  BY DEF QueueInv, QueueFence, PlayoutOrdered
<1>4. CASE UNCHANGED metadata
  <2>1. QueueType'
    BY <1>1, <1>4 DEF QueueInv, QueueType
  <2>2. OrderInv'
    BY <1>2, <1>4 DEF QueueInv, OrderInv
  <2>3. Aligned => Aligned'
    BY <1>4 DEF Aligned
  <2>. QED  BY <1>1, <1>3, <2>1, <2>2, <2>3 DEF QueueInv
<1>5. ASSUME g = gen, NEW i \in DOMAIN metadata, metadata[i] = Ack(g), metadata' = RemoveAt(metadata, i)
      PROVE  QueueInv' /\ (Aligned => Aligned')
  <2>1. /\ metadata' \in Seq(PlayoutFrame) /\ Len(metadata') = Len(metadata) - 1
        /\ \A j \in 1 .. Len(metadata) - 1 : metadata'[j] = IF j < i THEN metadata[j] ELSE metadata[j + 1]
        /\ i \in 1 .. Len(metadata)
    BY <1>0, <1>5, RemoveAtShape
  <2>2. QueueType'
    <3>1. Len(metadata') <= QueueCap
      <4>1. QueueCap \in Int
        BY LaneAssumption DEF LaneAssumption
      <4>. QED  BY <1>0, <2>1, <4>1
    <3>. QED  BY <1>0, <1>1, <2>1, <3>1 DEF QueueInv, QueueType
  <2>3. ASSUME NEW j \in DOMAIN metadata'
        PROVE  /\ j \in Nat /\ j < i => j \in DOMAIN metadata /\ metadata'[j] = metadata[j]
               /\ ~(j < i) => j + 1 \in DOMAIN metadata /\ metadata'[j] = metadata[j + 1]
    <3>1. j \in 1 .. Len(metadata) - 1 /\ DOMAIN metadata = 1 .. Len(metadata)
      BY <1>0, <2>1
    <3>2. j \in DOMAIN metadata /\ j + 1 \in DOMAIN metadata
      BY <1>0, <3>1
    <3>. QED  BY <2>1, <3>1, <3>2
  <2>4. OrderInv'
    <3>1. \A j \in DOMAIN metadata' : metadata'[j].gen = gen /\ metadata'[j].seq <= lastSeq
      BY <2>3 DEF QueueInv, OrderInv
    <3>2. ASSUME NEW j \in DOMAIN metadata', NEW k \in DOMAIN metadata', j < k
          PROVE  metadata'[j].seq < metadata'[k].seq
      <4>1. j \in Nat /\ k \in Nat /\ i \in Nat
        BY <2>1
      <4>2. CASE k < i
        <5>1. j < i
          BY <3>2, <4>1, <4>2
        <5>. QED  BY <2>3, <3>2, <4>1, <4>2, <5>1 DEF QueueInv, OrderInv
      <4>3. CASE ~(k < i) /\ j < i
        <5>1. j < k + 1
          BY <3>2, <4>1
        <5>. QED  BY <2>3, <4>1, <4>3, <5>1 DEF QueueInv, OrderInv
      <4>4. CASE ~(j < i)
        <5>1. j + 1 < k + 1 /\ ~(k < i)
          BY <3>2, <4>1, <4>4
        <5>. QED  BY <2>3, <4>1, <4>4, <5>1 DEF QueueInv, OrderInv
      <4>. QED  BY <4>2, <4>3, <4>4
    <3>. QED  BY <1>2, <3>1, <3>2 DEF QueueInv, OrderInv
  <2>5. ASSUME Aligned PROVE Aligned'
    <3>1. ASSUME NEW q \in DOMAIN playout, playout[q].gen = gen
          PROVE  /\ Len(playout) - q < Len(metadata')
                 /\ metadata'[Len(metadata') - (Len(playout) - q)] = playout[q]
      <4>. DEFINE k == Len(metadata) - (Len(playout) - q)
      <4>1. q \in 1 .. Len(playout)
        BY <1>0
      <4>2. Len(playout) - q < Len(metadata) /\ metadata[k] = playout[q]
        BY <2>5, <3>1 DEF Aligned
      <4>3. k \in 1 .. Len(metadata) /\ k \in DOMAIN metadata
        <5>1. k \in 1 .. Len(metadata)
          BY <1>0, <4>1, <4>2
        <5>. QED  BY <1>0, <5>1
      <4>4. Ack(g).seq < playout[q].seq
        <5>1. 1 \in DOMAIN acks[gen] /\ Ack(g) = acks[gen][1] /\ Ack(g) \in PlayoutFrame
          <6>1. Len(acks[g]) \in Nat \ {0} /\ DOMAIN acks[g] = 1 .. Len(acks[g])
            BY <1>0, EmptySeq
          <6>. QED  BY <1>0, <1>5, <6>1 DEF Ack
        <5>2. Passed(Ack(g)) /\ Ack(g).gen = gen
          BY <1>0, <1>5, <5>1 DEF Passed, QueueInv, AckInv
        <5>. QED  BY <3>1, <5>1, <5>2 DEF QueueInv, OrderInv
      <4>5. i < k
        <5>1. metadata[i].seq < metadata[k].seq
          BY <1>5, <4>2, <4>4
        <5>2. metadata[i] \in PlayoutFrame /\ metadata[k] \in PlayoutFrame
          <6>. HIDE DEF k
          <6>. QED  BY <1>0, <4>3
        <5>3. i # k
          <6>. HIDE DEF k
          <6>. QED  BY <5>1, <5>2 DEF PlayoutFrame
        <5>4. ~(k < i)
          <6>. HIDE DEF k
          <6>1. ASSUME k < i PROVE metadata[k].seq < metadata[i].seq
            BY <4>3, <6>1 DEF QueueInv, OrderInv
          <6>. QED  BY <5>1, <5>2, <6>1 DEF PlayoutFrame
        <5>. QED  BY <1>0, <2>1, <4>3, <5>3, <5>4
      <4>6. Len(metadata') - (Len(playout) - q) = k - 1 /\ Len(playout) - q < Len(metadata')
        BY SMTT(20), <1>0, <2>1, <4>1, <4>3, <4>5
      <4>7. metadata'[k - 1] = metadata[k]
        <5>. HIDE DEF k
        <5>1. k - 1 \in 1 .. Len(metadata) - 1 /\ ~(k - 1 < i) /\ (k - 1) + 1 = k
          BY <1>0, <2>1, <4>3, <4>5
        <5>. QED  BY <2>1, <5>1
      <4>. QED  BY <4>2, <4>6, <4>7
    <3>. QED  BY <3>1 DEF Aligned
  <2>. QED  BY <1>1, <1>3, <2>2, <2>4, <2>5 DEF QueueInv
<1>. QED  BY <1>4, <1>5

\* Every move keeps the queue, and its metadata while the destination is reached.
LEMMA QueueStep ==
  ASSUME LaneAssumption, QueueInv, Moves
  PROVE  QueueInv' /\ (Aligned /\ Reached' => Aligned')
<1>1. CASE Silent
  BY <1>1, QueueSilent DEF Silent, core
<1>2. ASSUME NEW barge \in BOOLEAN, CutMove(barge) PROVE QueueInv' /\ Aligned'
  BY <1>2, QueueCut
<1>3. CASE PurgeMove
  BY <1>3, QueuePurge DEF PurgeMove
<1>4. ASSUME NEW f \in PlayoutFrame, EmitMove(f) PROVE QueueInv' /\ (Aligned => Aligned')
  BY <1>4, QueueEmit
<1>5. CASE HandMove
  BY <1>5, QueuePull, QueueHeld DEF HandMove
<1>6. CASE ClearMove
  BY <1>6, QueueHeld DEF ClearMove
<1>7. ASSUME NEW g \in 0 .. gen, TakeMove(g) PROVE QueueInv' /\ (Aligned => Aligned')
  BY <1>7, QueueAck DEF TakeMove
<1>8. ASSUME NEW g \in 0 .. gen, AckMove(g) PROVE QueueInv' /\ (Aligned => Aligned')
  BY <1>8, QueueAck DEF AckMove
<1>9. CASE CancelMove
  BY <1>9, QueueSilent DEF CancelMove
<1>. QED  BY <1>1, <1>2, <1>3, <1>4, <1>5, <1>6, <1>7, <1>8, <1>9 DEF Moves

-----------------------------------------------------------------------------
(***************************************************************************)
(* The session and the ingress.                                            *)
(***************************************************************************)
\* What a step does to the status, to the disconnect and to the captured frame.
StopMoves ==
  \/ UNCHANGED <<control, status, stopped, drop>> /\ audio' \in {audio, -1}
  \/ gen' = gen + 1 /\ stopped' /\ UNCHANGED <<status, drop>> /\ audio' \in {audio, -1}
  \/ ~stopped' /\ control' = "none" /\ status' # "paused" /\ UNCHANGED <<drop, audio>> /\ drop = {}
  \/ /\ control # "none" /\ status' = control /\ control' = "none" /\ (stopped' <=> control # "active")
     /\ UNCHANGED <<drop, audio>>
  \/ ~stopped /\ drop = {} /\ UNCHANGED <<control, status, stopped, drop>> /\ audio' = gen
  \/ /\ UNCHANGED <<control, status, stopped, audio>> /\ audio = -1
     /\ status \in {"active", "paused"}
     /\ \A d \in drop' : (d.active <=> status = "active")
  \/ /\ drop # {} /\ UNCHANGED <<control, status, stopped, audio>>
     /\ \A d \in drop' : \E e \in drop : (d.active <=> e.active)
  \/ /\ drop # {} /\ drop' = {} /\ UNCHANGED <<control, audio>>
     /\ UNCHANGED <<status, stopped>> \/ (control = "none" /\ status' = "waiting" /\ ~stopped')

LEMMA EndStops ==
  ASSUME BeginEnd, UNCHANGED <<drop>>, audio' \in {audio, -1}
  PROVE  StopMoves
BY DEF BeginEnd, Cut, CutFence, StopMoves

LEMMA StepStops ==
  ASSUME TypeOK, Next
  PROVE  StopMoves
<1>0. drop \in SUBSET Drop
  BY DEF TypeOK
<1>1. ASSUME Pause \/ Resume PROVE StopMoves
  BY <1>1 DEF Pause, Resume, Cut, CutFence, StopMoves, capture
<1>2. ASSUME Start PROVE StopMoves
  BY <1>2 DEF Start, StopMoves, capture
<1>3. ASSUME ControlDurable PROVE StopMoves
  BY <1>3 DEF ControlDurable, StopMoves
<1>4. ASSUME End PROVE StopMoves
  BY <1>4, EndStops DEF End, capture
<1>5. ASSUME SourceStarts \/ DestinationStarts \/ SourceEnds \/ DestinationEnds PROVE StopMoves
  BY <1>5 DEF SourceStarts, DestinationStarts, SourceEnds, DestinationEnds, StopMoves, session
<1>6. ASSUME AudioArrives PROVE StopMoves
  BY <1>6 DEF AudioArrives, IngressIdle, StopMoves, session
<1>7. ASSUME AudioDurable PROVE StopMoves
  <2>1. audio' = -1
    BY <1>7 DEF AudioDurable
  <2>2. UNCHANGED session \/ (BeginEnd /\ UNCHANGED drop)
    BY <1>7 DEF AudioDurable
  <2>3. CASE UNCHANGED session
    BY <2>1, <2>3 DEF session, StopMoves
  <2>. QED  BY <2>1, <2>2, <2>3, EndStops
<1>8. ASSUME NEW p \in Party, Disconnect(p) PROVE StopMoves
  <2>1. /\ drop' = {[side |-> p, active |-> status = "active", prev |-> "none"]}
        /\ audio = -1 /\ status \in {"active", "paused"} /\ UNCHANGED <<control, status, stopped, audio>>
    BY <1>8 DEF Disconnect, IngressIdle
  <2>2. \A d \in drop' : (d.active <=> status = "active")
    <3>1. CASE status = "active"
      <4>1. drop' = {[side |-> p, active |-> TRUE, prev |-> "none"]}
        BY <2>1, <3>1
      <4>. QED  BY <3>1, <4>1
    <3>2. CASE status # "active"
      <4>1. drop' = {[side |-> p, active |-> FALSE, prev |-> "none"]}
        BY <2>1, <3>2
      <4>. QED  BY <3>2, <4>1
    <3>. QED  BY <3>1, <3>2
  <2>. QED  BY <2>1, <2>2 DEF StopMoves
<1>9. ASSUME DisconnectDurable PROVE StopMoves
  <2>1. PICK d \in drop : drop' = {[d EXCEPT !.prev = status]} /\ UNCHANGED <<control, status, stopped, audio>>
    BY <1>9 DEF DisconnectDurable
  <2>2. [d EXCEPT !.prev = status].active = d.active
    BY <1>0 DEF Drop
  <2>. QED  BY <2>1, <2>2 DEF StopMoves
<1>10. ASSUME Disconnected PROVE StopMoves
  BY <1>10 DEF Disconnected, StopMoves
<1>11. ASSUME NEW g \in 1 .. gen, ClearAcknowledged(g) PROVE StopMoves
  BY <1>11 DEF ClearAcknowledged, StopMoves, session, capture
<1>12. ASSUME TranslationNext PROVE StopMoves
  <2>1. ASSUME \/ \E r \in DOMAIN runs :
                    \/ Consume(r) \/ ProviderError(r) \/ RunEnds(r) \/ RunFails(r)
                    \/ \E seq \in lastSeq .. lastSeq + 2 : Emit(r, seq)
        PROVE  UNCHANGED <<session, capture>>
    BY ZenonT(40), <2>1 DEF Consume, ProviderError, RunEnds, RunFails, Emit
  <2>2. ASSUME NEW c \in cancels, CancelSettles(c) \/ CancelFails(c)
        PROVE  UNCHANGED <<session, capture>>
    BY <2>2 DEF CancelSettles, CancelFails, CancelReports
  <2>3. UNCHANGED <<session, capture>>
    BY <1>12, <2>1, <2>2 DEF TranslationNext
  <2>. QED  BY <2>3 DEF StopMoves, session, capture
<1>13. ASSUME NEW g \in clearing, ClearFails(g) PROVE StopMoves
  BY <1>13 DEF ClearFails, CutFence, StopMoves, session, capture
<1>14. ASSUME NEW g \in 0 .. gen, AckBegins(g) \/ AckGapDurable(g) \/ AckDurable(g) \/ AckReported(g)
       PROVE  StopMoves
  BY <1>14 DEF AckBegins, AckGapDurable, AckDurable, AckReported, StopMoves, session, capture
<1>15. ASSUME Pull \/ (\E f \in held : PlayoutStarts(f)) \/ (\E g \in clearing : ClearSettles(g))
       PROVE  StopMoves
  BY <1>15 DEF Pull, PlayoutStarts, ClearSettles, StopMoves, session, capture
<1>. QED  BY <1>1, <1>2, <1>3, <1>4, <1>5, <1>6, <1>7, <1>8, <1>9, <1>10, <1>11, <1>12, <1>13, <1>14, <1>15
          DEF Next, IngressNext, PlayoutNext

\* What is stale stays so while the session is stopped or a disconnect is
\* handled, and all is stale after a cut.
LEMMA StaleStep ==
  ASSUME TypeOK, FenceInv, Moves
  PROVE  /\ Stale /\ (stopped \/ drop # {}) => Stale'
         /\ gen' = gen + 1 => Stale'
         /\ gen' \in {gen, gen + 1}
         /\ \A r \in DOMAIN runs' : runs'[r].gen <= gen'
<1>0. gen \in Nat /\ playout \in Seq(PlayoutFrame) /\ \A r \in DOMAIN runs : runs[r].gen \in Nat
  <2>1. gen \in Nat /\ playout \in Seq(PlayoutFrame)
    BY DEF TypeOK
  <2>2. \A r \in DOMAIN runs : runs[r] \in Run
    <3>1. runs \in Seq(Run)
      BY DEF TypeOK
    <3>. QED  BY <3>1
  <2>. QED  BY <2>1, <2>2 DEF Run
<1>1. \A i \in DOMAIN playout : playout[i].gen \in Nat
  <2>1. \A i \in DOMAIN playout : playout[i] \in PlayoutFrame
    BY <1>0
  <2>. QED  BY <2>1 DEF PlayoutFrame
<1>2. ASSUME NEW barge \in BOOLEAN, CutMove(barge), SameRuns
      PROVE  Stale' /\ gen' = gen + 1 /\ \A r \in DOMAIN runs' : runs'[r].gen <= gen'
  <2>1. gen' = gen + 1 /\ playout' = playout
    BY <1>2 DEF CutMove
  <2>2. DOMAIN runs' = DOMAIN runs /\ \A r \in DOMAIN runs : runs'[r].gen = runs[r].gen
    BY <1>2 DEF SameRuns
  <2>3. \A r \in DOMAIN runs : runs[r].gen <= gen
    BY DEF FenceInv
  <2>4. \A i \in DOMAIN playout : playout[i].gen <= gen
    BY DEF FenceInv
  <2>5. \A r \in DOMAIN runs : runs[r].gen < gen + 1 /\ runs[r].gen <= gen + 1
    BY <1>0, <2>3
  <2>6. \A i \in DOMAIN playout : playout[i].gen < gen + 1
    BY <1>0, <1>1, <2>4
  <2>. QED  BY <2>1, <2>2, <2>5, <2>6 DEF Stale
<1>3. ASSUME UNCHANGED <<gen, playout>>, SameRuns
      PROVE  (Stale => Stale') /\ gen' = gen /\ \A r \in DOMAIN runs' : runs'[r].gen <= gen'
  BY <1>3 DEF SameRuns, Stale, FenceInv
<1>4. ASSUME Silent, MoreRuns
      PROVE  ~stopped /\ drop = {} /\ gen' = gen /\ \A r \in DOMAIN runs' : runs'[r].gen <= gen'
  BY <1>0, <1>4 DEF Silent, core, MoreRuns, FenceInv
<1>5. ASSUME NEW f \in PlayoutFrame, EmitMove(f), SameRuns
      PROVE  ~Stale /\ gen' = gen /\ \A r \in DOMAIN runs' : runs'[r].gen <= gen'
  BY <1>0, <1>5 DEF EmitMove, Stale, SameRuns, FenceInv
<1>6. ASSUME HandMove, SameRuns
      PROVE  (Stale => Stale') /\ gen' = gen /\ \A r \in DOMAIN runs' : runs'[r].gen <= gen'
  <2>1. CASE UNCHANGED playout
    BY <1>3, <1>6, <2>1 DEF HandMove
  <2>2. CASE playout # <<>> /\ playout' = Tail(playout)
    <3>1. Len(playout') = Len(playout) - 1 /\ playout' \in Seq(PlayoutFrame) /\ Len(playout) \in Nat
          /\ \A i \in 1 .. Len(playout') : playout'[i] = playout[i + 1]
      BY <1>0, <2>2, HeadTailProperties
    <3>2. \A i \in DOMAIN playout' : i + 1 \in DOMAIN playout /\ playout'[i] = playout[i + 1]
      <4>1. \A i \in 1 .. Len(playout') : i + 1 \in 1 .. Len(playout)
        BY <3>1
      <4>. QED  BY <1>0, <3>1, <4>1
    <3>3. gen' = gen
      BY <1>6 DEF HandMove
    <3>. QED  BY <1>6, <3>2, <3>3 DEF SameRuns, Stale, FenceInv
  <2>. QED  BY <1>6, <2>1, <2>2 DEF HandMove
<1>7. gen # gen + 1
  BY <1>0
<1>. QED  BY <1>2, <1>3, <1>4, <1>5, <1>6, <1>7
          DEF Moves, Silent, core, PurgeMove, ClearMove, CancelMove, TakeMove, AckMove

LEMMA StopStep ==
  ASSUME TypeOK, FenceInv, StopInv, Moves, StopMoves
  PROVE  StopInv' /\ audio' <= gen'
<1>0. gen \in Nat /\ audio \in Nat \cup {-1} /\ audio <= gen
  BY DEF TypeOK, FenceInv, Frame
<1>1. /\ Stale /\ (stopped \/ drop # {}) => Stale'
      /\ gen' = gen + 1 => Stale'
      /\ gen' \in {gen, gen + 1}
  BY StaleStep
<1>. HIDE DEF Stale
<1>2. CASE UNCHANGED <<control, status, stopped, drop>> /\ audio' \in {audio, -1}
  BY <1>0, <1>1, <1>2 DEF StopInv
<1>3. CASE gen' = gen + 1 /\ stopped' /\ UNCHANGED <<status, drop>> /\ audio' \in {audio, -1}
  BY <1>0, <1>1, <1>3 DEF StopInv
<1>4. CASE ~stopped' /\ control' = "none" /\ status' # "paused" /\ UNCHANGED <<drop, audio>> /\ drop = {}
  BY <1>0, <1>1, <1>4 DEF StopInv
<1>5. CASE /\ control # "none" /\ status' = control /\ control' = "none" /\ (stopped' <=> control # "active")
           /\ UNCHANGED <<drop, audio>>
  BY <1>0, <1>1, <1>5 DEF StopInv
<1>6. CASE ~stopped /\ drop = {} /\ UNCHANGED <<control, status, stopped, drop>> /\ audio' = gen
  BY <1>0, <1>1, <1>6 DEF StopInv
<1>7. CASE /\ UNCHANGED <<control, status, stopped, audio>> /\ audio = -1
           /\ status \in {"active", "paused"}
           /\ \A d \in drop' : (d.active <=> status = "active")
  BY <1>0, <1>1, <1>7 DEF StopInv
<1>8. CASE /\ drop # {} /\ UNCHANGED <<control, status, stopped, audio>>
           /\ \A d \in drop' : \E e \in drop : (d.active <=> e.active)
  BY <1>0, <1>1, <1>8 DEF StopInv
<1>9. CASE /\ drop # {} /\ drop' = {} /\ UNCHANGED <<control, audio>>
           /\ UNCHANGED <<status, stopped>> \/ (control = "none" /\ status' = "waiting" /\ ~stopped')
  BY <1>0, <1>1, <1>9 DEF StopInv
<1>. QED  BY <1>2, <1>3, <1>4, <1>5, <1>6, <1>7, <1>8, <1>9 DEF StopMoves

SessionType ==
  /\ speechEnd \in SpeechEnds
  /\ status \in Status
  /\ control \in {"none", "active", "paused", "closing"}
  /\ stopped \in BOOLEAN /\ ended \in BOOLEAN

DropType == drop \in SUBSET Drop /\ (\A c, d \in drop : c = d)

CaptureType ==
  /\ voice \in [Party -> BOOLEAN] /\ speaking \in [Party -> BOOLEAN]
  /\ audio \in Frame \cup {-1}

InputType ==
  /\ pending \in Seq(Frame) /\ Len(pending) <= InputCap
  /\ runs \in Seq(Run) /\ current \in 0 .. Len(runs)
  /\ \A r \in DOMAIN runs : Len(runs[r].input) <= InputCap

OtherType ==
  /\ heard \in PlayoutFrame \cup {None} /\ firstAudio \in BOOLEAN
  /\ clearing \in SUBSET Nat

LEMMA TypeParts ==
  TypeOK <=> /\ SessionType /\ DropType /\ CaptureType /\ InputType /\ OtherType
             /\ QueueType /\ resumption \in Nat \cup {-1} /\ played \in SUBSET Nat
             /\ clears \in SUBSET [gen : Nat, barge : BOOLEAN]
             /\ cancels \in SUBSET [gen : Nat, barge : BOOLEAN] /\ log \in Seq(Entry)
BY DEF TypeOK, SessionType, DropType, CaptureType, InputType, OtherType, QueueType, Entry

LEMMA SessionTypeStep ==
  ASSUME TypeOK, Next
  PROVE  SessionType'
<1>0. SessionType /\ UNCHANGED speechEnd
  BY TypeParts DEF Next
<1>1. CASE UNCHANGED session
  BY <1>0, <1>1 DEF session, SessionType
<1>2. ASSUME BeginEnd PROVE SessionType'
  BY <1>0, <1>2 DEF BeginEnd, SessionType
<1>3. ASSUME Pause \/ Resume \/ Start \/ ControlDurable \/ End PROVE SessionType'
  <2>1. ASSUME Pause \/ Resume \/ Start PROVE SessionType'
    BY <1>0, <2>1 DEF Pause, Resume, Start, SessionType, Status
  <2>2. ASSUME ControlDurable PROVE SessionType'
    BY <1>0, <2>2 DEF ControlDurable, SessionType, Status
  <2>. QED  BY <1>2, <1>3, <2>1, <2>2 DEF End
<1>4. ASSUME IngressNext PROVE SessionType'
  <2>1. ASSUME SourceStarts \/ DestinationStarts \/ SourceEnds \/ DestinationEnds \/ AudioArrives
               \/ (\E g \in 1 .. gen : ClearAcknowledged(g))
        PROVE  UNCHANGED session
    BY <2>1 DEF SourceStarts, DestinationStarts, SourceEnds, DestinationEnds, AudioArrives, ClearAcknowledged
  <2>2. ASSUME AudioDurable PROVE UNCHANGED session \/ BeginEnd
    BY <2>2 DEF AudioDurable
  <2>3. ASSUME (\E p \in Party : Disconnect(p)) \/ DisconnectDurable
        PROVE  UNCHANGED <<status, control, stopped, ended>>
    BY <2>3 DEF Disconnect, DisconnectDurable
  <2>4. ASSUME Disconnected PROVE SessionType'
    BY <1>0, <2>4 DEF Disconnected, SessionType, Status
  <2>5. ASSUME UNCHANGED <<status, control, stopped, ended>> PROVE SessionType'
    BY <1>0, <2>5 DEF SessionType
  <2>. QED  BY <1>1, <1>2, <1>4, <2>1, <2>2, <2>3, <2>4, <2>5 DEF IngressNext
<1>5. ASSUME TranslationNext PROVE UNCHANGED session
  BY <1>5 DEF TranslationNext, Consume, ProviderError, RunEnds, RunFails, Emit,
              CancelSettles, CancelFails, CancelReports
<1>6. ASSUME PlayoutNext PROVE SessionType'
  <2>1. ASSUME NEW g \in clearing, ClearFails(g) PROVE SessionType'
    <3>1. UNCHANGED session \/ (ended' = TRUE /\ control' = "closing" /\ stopped' = TRUE /\ UNCHANGED status)
      BY <2>1 DEF ClearFails
    <3>. QED  BY <1>0, <1>1, <3>1 DEF SessionType
  <2>2. ASSUME NEW g \in 0 .. gen, AckBegins(g) \/ AckGapDurable(g) \/ AckDurable(g) \/ AckReported(g)
        PROVE  UNCHANGED session
    BY <2>2 DEF AckBegins, AckGapDurable, AckDurable, AckReported
  <2>3. ASSUME Pull \/ (\E f \in held : PlayoutStarts(f)) \/ (\E g \in clearing : ClearSettles(g))
        PROVE  UNCHANGED session
    BY <2>3 DEF Pull, PlayoutStarts, ClearSettles
  <2>. QED  BY <1>1, <1>6, <2>1, <2>2, <2>3 DEF PlayoutNext
<1>. QED  BY <1>1, <1>3, <1>4, <1>5, <1>6 DEF Next

LEMMA DropTypeStep ==
  ASSUME TypeOK, Next
  PROVE  DropType'
<1>0. DropType /\ drop \in SUBSET Drop /\ status \in Status
  BY DEF TypeOK, DropType
<1>1. CASE UNCHANGED drop
  BY <1>0, <1>1 DEF DropType
<1>2. ASSUME NEW d \in Drop, drop' = {d} PROVE DropType'
  BY <1>2 DEF DropType
<1>3. ASSUME drop' = {} PROVE DropType'
  BY <1>3 DEF DropType
<1>4. ASSUME Pause \/ Resume \/ Start \/ ControlDurable \/ End PROVE UNCHANGED drop
  BY <1>4 DEF Pause, Resume, Start, ControlDurable, End
<1>5. ASSUME IngressNext PROVE DropType'
  <2>1. ASSUME SourceStarts \/ DestinationStarts \/ SourceEnds \/ DestinationEnds \/ AudioArrives
               \/ AudioDurable \/ (\E g \in 1 .. gen : ClearAcknowledged(g))
        PROVE  UNCHANGED drop
    BY <2>1 DEF SourceStarts, DestinationStarts, SourceEnds, DestinationEnds, AudioArrives,
                AudioDurable, ClearAcknowledged, session
  <2>2. ASSUME NEW p \in Party, Disconnect(p) PROVE DropType'
    <3>1. [side |-> p, active |-> status = "active", prev |-> "none"] \in Drop
      BY DEF Drop
    <3>. QED  BY <1>2, <2>2, <3>1 DEF Disconnect
  <2>3. ASSUME DisconnectDurable PROVE DropType'
    <3>1. PICK d \in drop : drop' = {[d EXCEPT !.prev = status]}
      BY <2>3 DEF DisconnectDurable
    <3>2. [d EXCEPT !.prev = status] \in Drop
      BY <1>0 DEF Drop
    <3>. QED  BY <1>2, <3>1, <3>2
  <2>4. ASSUME Disconnected PROVE drop' = {}
    BY <2>4 DEF Disconnected
  <2>. QED  BY <1>1, <1>3, <1>5, <2>1, <2>2, <2>3, <2>4 DEF IngressNext
<1>6. ASSUME TranslationNext PROVE UNCHANGED drop
  BY <1>6 DEF TranslationNext, Consume, ProviderError, RunEnds, RunFails, Emit,
              CancelSettles, CancelFails, CancelReports, session
<1>7. ASSUME PlayoutNext PROVE UNCHANGED drop
  <2>1. ASSUME NEW g \in clearing, ClearFails(g) PROVE UNCHANGED drop
    BY <2>1 DEF ClearFails, session
  <2>2. ASSUME NEW g \in 0 .. gen, AckBegins(g) \/ AckGapDurable(g) \/ AckDurable(g) \/ AckReported(g)
        PROVE  UNCHANGED drop
    BY <2>2 DEF AckBegins, AckGapDurable, AckDurable, AckReported, session
  <2>3. ASSUME Pull \/ (\E f \in held : PlayoutStarts(f)) \/ (\E g \in clearing : ClearSettles(g))
        PROVE  UNCHANGED drop
    BY <2>3 DEF Pull, PlayoutStarts, ClearSettles, session
  <2>. QED  BY <1>7, <2>1, <2>2, <2>3 DEF PlayoutNext
<1>. QED  BY <1>1, <1>4, <1>5, <1>6, <1>7 DEF Next

LEMMA CaptureTypeStep ==
  ASSUME TypeOK, Next
  PROVE  CaptureType'
<1>0. CaptureType /\ gen \in Nat
  BY TypeParts DEF QueueType
<1>1. CASE UNCHANGED capture
  BY <1>0, <1>1 DEF capture, CaptureType
<1>2. ASSUME Pause \/ Resume \/ Start \/ ControlDurable \/ End PROVE CaptureType'
  <2>1. ASSUME Pause \/ Resume \/ Start \/ End PROVE UNCHANGED capture
    BY <2>1 DEF Pause, Resume, Start, End
  <2>2. ASSUME ControlDurable PROVE CaptureType'
    BY <1>0, <2>2 DEF ControlDurable, CaptureType
  <2>. QED  BY <1>1, <1>2, <2>1, <2>2
<1>3. ASSUME IngressNext PROVE CaptureType'
  <2>1. ASSUME SourceStarts \/ SourceEnds PROVE CaptureType'
    BY <1>0, <2>1 DEF SourceStarts, SourceEnds, CaptureType
  <2>2. ASSUME DestinationStarts \/ DestinationEnds PROVE CaptureType'
    BY <1>0, <2>2 DEF DestinationStarts, DestinationEnds, CaptureType
  <2>3. ASSUME AudioArrives \/ AudioDurable PROVE CaptureType'
    BY <1>0, <2>3 DEF AudioArrives, AudioDurable, CaptureType, Frame
  <2>4. ASSUME \E p \in Party : Disconnect(p) PROVE CaptureType'
    BY <1>0, <2>4 DEF Disconnect, CaptureType
  <2>5. ASSUME DisconnectDurable PROVE CaptureType'
    BY <1>0, <2>5 DEF DisconnectDurable, CaptureType
  <2>6. ASSUME Disconnected PROVE CaptureType'
    BY <1>0, <2>6 DEF Disconnected, CaptureType
  <2>7. ASSUME \E g \in 1 .. gen : ClearAcknowledged(g) PROVE UNCHANGED capture
    BY <2>7 DEF ClearAcknowledged
  <2>. QED  BY <1>1, <1>3, <2>1, <2>2, <2>3, <2>4, <2>5, <2>6, <2>7 DEF IngressNext
<1>4. ASSUME TranslationNext PROVE UNCHANGED capture
  BY <1>4 DEF TranslationNext, Consume, ProviderError, RunEnds, RunFails, Emit,
              CancelSettles, CancelFails, CancelReports
<1>5. ASSUME PlayoutNext PROVE UNCHANGED capture
  <2>1. ASSUME NEW g \in clearing, ClearFails(g) PROVE UNCHANGED capture
    BY <2>1 DEF ClearFails
  <2>2. ASSUME NEW g \in 0 .. gen, AckBegins(g) \/ AckGapDurable(g) \/ AckDurable(g) \/ AckReported(g)
        PROVE  UNCHANGED capture
    BY <2>2 DEF AckBegins, AckGapDurable, AckDurable, AckReported
  <2>3. ASSUME Pull \/ (\E f \in held : PlayoutStarts(f)) \/ (\E g \in clearing : ClearSettles(g))
        PROVE  UNCHANGED capture
    BY <2>3 DEF Pull, PlayoutStarts, ClearSettles
  <2>. QED  BY <1>5, <2>1, <2>2, <2>3 DEF PlayoutNext
<1>. QED  BY <1>1, <1>2, <1>3, <1>4, <1>5 DEF Next

LEMMA InputTypeStep ==
  ASSUME LaneAssumption, TypeOK, FenceInv, Next
  PROVE  InputType'
<1>0. InputType /\ gen \in Nat /\ InputCap \in Nat /\ runs \in Seq(Run)
      /\ audio \in Frame \cup {-1}
  BY TypeParts DEF QueueType, LaneAssumption, InputType, CaptureType
<1>1. CASE UNCHANGED <<pending, runs, current>>
  BY <1>0, <1>1 DEF InputType
<1>2. ASSUME pending' = <<>>, runs' = AbortCurrent, UNCHANGED current PROVE InputType'
  <2>1. \A r \in DOMAIN AbortCurrent : r \in DOMAIN runs
    BY <1>0, AbortShape
  <2>2. <<>> \in Seq(Frame) /\ Len(<<>>) = 0
    OBVIOUS
  <2>. QED  BY <1>0, <1>2, <2>1, <2>2, AbortShape DEF InputType
<1>3. ASSUME NEW barge \in BOOLEAN, Cut(barge), UNCHANGED current PROVE InputType'
  BY <1>2, <1>3 DEF Cut, CutFence
<1>4. ASSUME NoCut, UNCHANGED current PROVE InputType'
  BY <1>1, <1>4 DEF NoCut
<1>5. ASSUME BeginEnd, UNCHANGED current PROVE InputType'
  BY <1>3, <1>4, <1>5 DEF BeginEnd
<1>6. ASSUME NEW fs \in Seq(Frame), NEW close \in BOOLEAN, Offer(fs, close),
             pending' \in Seq(Frame), Len(pending') <= InputCap
      PROVE  InputType'
  BY <1>6, OfferShape DEF InputType
<1>7. ASSUME NEW rs \in Seq(Run), Len(rs) = Len(runs), \A q \in DOMAIN runs : rs[q].input = runs[q].input,
             NEW r \in DOMAIN runs, runs' = Forget(rs, r), Vacate(r),
             pending' \in Seq(Frame), Len(pending') <= InputCap
      PROVE  InputType'
  <2>1. Len(runs) \in Nat /\ DOMAIN runs = 1 .. Len(runs) /\ DOMAIN rs = 1 .. Len(runs)
    BY <1>0, <1>7
  <2>2. /\ runs' \in Seq(Run) /\ Len(runs') = Len(runs)
        /\ \A q \in DOMAIN rs : Len(runs'[q].input) <= Len(rs[q].input)
    BY <1>7, <2>1, ForgetShape
  <2>3. current' \in 0 .. Len(runs')
    BY <1>0, <1>7, <2>1, <2>2 DEF Vacate, InputType
  <2>4. ASSUME NEW q \in DOMAIN runs' PROVE Len(runs'[q].input) <= InputCap
    <3>0. DOMAIN runs' = 1 .. Len(runs) /\ DOMAIN rs = 1 .. Len(runs) /\ DOMAIN runs = 1 .. Len(runs)
      BY <1>7, <2>1, <2>2
    <3>1. q \in DOMAIN runs /\ Len(runs'[q].input) <= Len(runs[q].input) /\ Len(runs[q].input) <= InputCap
      <4>1. Len(runs'[q].input) <= Len(rs[q].input) /\ rs[q].input = runs[q].input
        BY <1>7, <2>2, <3>0
      <4>. QED  BY <1>0, <3>0, <4>1 DEF InputType
    <3>2. runs'[q] \in Run /\ runs[q] \in Run
      BY <1>0, <2>2, <3>1
    <3>3. Len(runs'[q].input) \in Nat /\ Len(runs[q].input) \in Nat
      BY <3>2 DEF Run
    <3>. QED  BY <1>0, <3>1, <3>3
  <2>. QED  BY <1>7, <2>2, <2>3, <2>4 DEF InputType
<1>8. ASSUME Pause \/ Resume \/ Start \/ ControlDurable \/ End PROVE InputType'
  <2>1. ASSUME Pause \/ Resume PROVE Cut(FALSE) /\ UNCHANGED current
    BY <2>1 DEF Pause, Resume
  <2>2. ASSUME Start \/ ControlDurable PROVE UNCHANGED <<pending, runs, current>>
    BY <2>2 DEF Start, ControlDurable
  <2>3. ASSUME End PROVE BeginEnd /\ UNCHANGED current
    BY <2>3 DEF End
  <2>. QED  BY <1>1, <1>3, <1>5, <1>8, <2>1, <2>2, <2>3
<1>9. ASSUME IngressNext PROVE InputType'
  <2>1. ASSUME \/ SourceStarts \/ DestinationEnds \/ AudioArrives
               \/ (\E p \in Party : Disconnect(p)) \/ (\E g \in 1 .. gen : ClearAcknowledged(g))
        PROVE  UNCHANGED <<pending, runs, current>>
    BY <2>1 DEF SourceStarts, DestinationEnds, AudioArrives, Disconnect, ClearAcknowledged
  <2>2. ASSUME DestinationStarts PROVE InputType'
    BY <1>3, <1>4, <2>2 DEF DestinationStarts
  <2>3. ASSUME SourceEnds PROVE InputType'
    <3>1. CASE stopped
      BY <1>1, <2>3, <3>1 DEF SourceEnds
    <3>2. CASE ~stopped
      <4>1. pending' = <<>> /\ Offer(pending, TRUE)
        BY <2>3, <3>2 DEF SourceEnds
      <4>2. pending' \in Seq(Frame) /\ Len(pending') <= InputCap /\ pending \in Seq(Frame)
        BY <1>0, <4>1 DEF InputType
      <4>. QED  BY <1>6, <4>1, <4>2
    <3>. QED  BY <3>1, <3>2
  <2>4. ASSUME AudioDurable PROVE InputType'
    <3>1. CASE status # "active" \/ audio # gen
      BY <1>4, <2>4, <3>1 DEF AudioDurable
    <3>2. CASE status = "active" /\ audio = gen /\ ~speechEnd
      <4>1. Offer(<<audio>>, FALSE) /\ UNCHANGED pending
        BY <2>4, <3>2 DEF AudioDurable
      <4>2. <<audio>> \in Seq(Frame) /\ pending' \in Seq(Frame) /\ Len(pending') <= InputCap
        BY <1>0, <3>2, <4>1 DEF InputType, Frame
      <4>. QED  BY <1>6, <4>1, <4>2
    <3>3. CASE status = "active" /\ audio = gen /\ speechEnd /\ Len(pending) < InputCap
      <4>1. pending' = Append(pending, audio) /\ UNCHANGED <<runs, current>>
        BY <2>4, <3>3 DEF AudioDurable
      <4>2. audio \in Frame /\ pending \in Seq(Frame) /\ Len(pending) \in Nat
        BY <1>0, <3>3 DEF InputType, Frame
      <4>3. pending' \in Seq(Frame) /\ Len(pending') = Len(pending) + 1
        BY <4>1, <4>2, AppendProperties
      <4>4. Len(pending') <= InputCap
        BY <1>0, <3>3, <4>2, <4>3
      <4>. QED  BY <1>0, <4>1, <4>3, <4>4 DEF InputType
    <3>4. CASE status = "active" /\ audio = gen /\ speechEnd /\ ~(Len(pending) < InputCap)
      BY <1>5, <2>4, <3>4 DEF AudioDurable
    <3>. QED  BY <3>1, <3>2, <3>3, <3>4
  <2>5. ASSUME DisconnectDurable PROVE InputType'
    <3>1. UNCHANGED current /\ ((pending' = <<>> /\ runs' = AbortCurrent) \/ UNCHANGED <<pending, runs>>)
      BY <2>5 DEF DisconnectDurable
    <3>. QED  BY <1>1, <1>2, <3>1
  <2>6. ASSUME Disconnected PROVE InputType'
    BY <1>3, <1>4, <2>6 DEF Disconnected
  <2>. QED  BY <1>1, <1>9, <2>1, <2>2, <2>3, <2>4, <2>5, <2>6 DEF IngressNext
<1>10. ASSUME TranslationNext PROVE InputType'
  <2>1. ASSUME NEW r \in DOMAIN runs, Consume(r) PROVE InputType'
    <3>. DEFINE x == [runs[r] EXCEPT !.input = Tail(runs[r].input), !.owed = runs[r].owed + 1]
    <3>1. r \in 1 .. Len(runs) /\ runs[r] \in Run /\ runs[r].input # <<>> /\ Len(runs) \in Nat
      BY <1>0, <2>1 DEF Consume
    <3>2. runs[r].input \in Seq(Frame) /\ runs[r].owed \in Nat
      BY <3>1 DEF Run
    <3>3. /\ Tail(runs[r].input) \in Seq(Frame) /\ Len(Tail(runs[r].input)) = Len(runs[r].input) - 1
          /\ Len(runs[r].input) \in Nat
      BY <3>1, <3>2, HeadTailProperties
    <3>4. x \in Run /\ x.input = Tail(runs[r].input)
      <4>1. runs[r].owed + 1 \in Nat /\ Tail(runs[r].input) \in Seq(Frame) /\ runs[r] \in Run
        BY <3>1, <3>2, <3>3
      <4>2. \A t \in Seq(Frame), o \in Nat, y \in Run :
              /\ [y EXCEPT !.input = t, !.owed = o] \in Run
              /\ [y EXCEPT !.input = t, !.owed = o].input = t
        BY DEF Run
      <4>. QED  BY <4>1, <4>2
    <3>5. runs' = [runs EXCEPT ![r] = x] /\ UNCHANGED <<pending, current>>
      BY <2>1, <3>1 DEF Consume, Run
    <3>. HIDE DEF x
    <3>6. /\ runs' \in Seq(Run) /\ Len(runs') = Len(runs)
          /\ \A q \in 1 .. Len(runs) : runs'[q] = IF q = r THEN x ELSE runs[q]
      BY <1>0, <3>1, <3>4, <3>5, ExceptSeq
    <3>7. Len(x.input) <= InputCap
      BY <1>0, <3>1, <3>3, <3>4 DEF InputType
    <3>8. DOMAIN runs' = 1 .. Len(runs) /\ DOMAIN runs = 1 .. Len(runs)
      BY <1>0, <3>6
    <3>. QED  BY <1>0, <3>5, <3>6, <3>7, <3>8 DEF InputType
  <2>2. ASSUME NEW r \in DOMAIN runs, ProviderError(r) PROVE InputType'
    BY <1>2, <2>2 DEF ProviderError, CutFence
  <2>3. ASSUME NEW r \in DOMAIN runs, RunEnds(r) PROVE InputType'
    <3>1. runs' = Forget(runs, r) /\ Vacate(r) /\ UNCHANGED pending
      BY <2>3 DEF RunEnds
    <3>2. pending' \in Seq(Frame) /\ Len(pending') <= InputCap
      BY <1>0, <3>1 DEF InputType
    <3>. QED  BY <1>0, <1>7, <3>1, <3>2
  <2>4. ASSUME NEW r \in DOMAIN runs, RunFails(r) PROVE InputType'
    <3>1. runs' = Forget(AbortCurrent, r) /\ Vacate(r) /\ pending' = <<>>
      BY <2>4 DEF RunFails, CutFence
    <3>2. pending' \in Seq(Frame) /\ Len(pending') <= InputCap
      BY <1>0, <3>1
    <3>3. AbortCurrent \in Seq(Run) /\ Len(AbortCurrent) = Len(runs)
          /\ \A q \in DOMAIN runs : AbortCurrent[q].input = runs[q].input
      BY AbortShape
    <3>. QED  BY <1>7, <3>1, <3>2, <3>3
  <2>5. ASSUME NEW r \in DOMAIN runs, NEW seq \in lastSeq .. lastSeq + 2, Emit(r, seq) PROVE InputType'
    <3>. DEFINE x == [runs[r] EXCEPT !.owed = runs[r].owed - 1]
    <3>1. r \in 1 .. Len(runs) /\ runs[r] \in Run /\ runs[r].owed > 0 /\ Len(runs) \in Nat
      BY <1>0, <2>5 DEF Emit
    <3>2. runs[r].owed \in Nat
      BY <3>1 DEF Run
    <3>3. runs[r].owed - 1 \in Nat
      BY <3>1, <3>2
    <3>4. x \in Run /\ x.input = runs[r].input
      BY <3>1, <3>3 DEF Run
    <3>5. runs' = [runs EXCEPT ![r] = x] /\ UNCHANGED <<pending, current>>
      BY <2>5, <3>1 DEF Emit, Run
    <3>. HIDE DEF x
    <3>6. /\ runs' \in Seq(Run) /\ Len(runs') = Len(runs)
          /\ \A q \in 1 .. Len(runs) : runs'[q] = IF q = r THEN x ELSE runs[q]
      BY <1>0, <3>1, <3>4, <3>5, ExceptSeq
    <3>8. DOMAIN runs' = 1 .. Len(runs) /\ DOMAIN runs = 1 .. Len(runs)
      BY <1>0, <3>6
    <3>. QED  BY <1>0, <3>1, <3>4, <3>5, <3>6, <3>8 DEF InputType
  <2>6. ASSUME NEW c \in cancels, CancelSettles(c) \/ CancelFails(c)
        PROVE  UNCHANGED <<pending, runs, current>>
    BY <2>6 DEF CancelSettles, CancelFails, CancelReports
  <2>. QED  BY <1>1, <1>10, <2>1, <2>2, <2>3, <2>4, <2>5, <2>6 DEF TranslationNext
<1>11. ASSUME PlayoutNext PROVE InputType'
  <2>1. ASSUME NEW g \in clearing, ClearFails(g) PROVE InputType'
    <3>1. UNCHANGED current /\ (UNCHANGED <<pending, runs>> \/ (pending' = <<>> /\ runs' = AbortCurrent))
      BY <2>1 DEF ClearFails, CutFence
    <3>. QED  BY <1>1, <1>2, <3>1
  <2>2. ASSUME NEW g \in 0 .. gen, AckBegins(g) \/ AckGapDurable(g) \/ AckDurable(g) \/ AckReported(g)
        PROVE  UNCHANGED <<pending, runs, current>>
    BY <2>2 DEF AckBegins, AckGapDurable, AckDurable, AckReported
  <2>3. ASSUME Pull \/ (\E f \in held : PlayoutStarts(f)) \/ (\E g \in clearing : ClearSettles(g))
        PROVE  UNCHANGED <<pending, runs, current>>
    BY <2>3 DEF Pull, PlayoutStarts, ClearSettles
  <2>. QED  BY <1>1, <1>11, <2>1, <2>2, <2>3 DEF PlayoutNext
<1>. QED  BY <1>8, <1>9, <1>10, <1>11 DEF Next

LEMMA OtherTypeStep ==
  ASSUME TypeOK, AckInv, Next
  PROVE  OtherType'
<1>0. OtherType /\ gen \in Nat /\ \A g \in 0 .. gen : acks[g] \in Seq(PlayoutFrame)
  BY TypeParts DEF QueueType
<1>1. CASE UNCHANGED <<heard, firstAudio, clearing>>
  BY <1>0, <1>1 DEF OtherType
<1>2. ASSUME NEW barge \in BOOLEAN, NEW settled, CutFence(barge, settled), UNCHANGED heard PROVE OtherType'
  <2>1. firstAudio' = FALSE /\ clearing' = (clearing \ settled) \cup {gen + 1}
    BY <1>2 DEF CutFence
  <2>2. gen + 1 \in Nat
    BY <1>0
  <2>3. clearing' \in SUBSET Nat
    BY <1>0, <2>1, <2>2 DEF OtherType
  <2>. QED  BY <1>0, <1>2, <2>1, <2>3 DEF OtherType
<1>3. ASSUME NoCut, UNCHANGED heard PROVE OtherType'
  BY <1>1, <1>3 DEF NoCut
<1>4. ASSUME BeginEnd, UNCHANGED heard PROVE OtherType'
  BY <1>2, <1>3, <1>4 DEF BeginEnd, Cut
<1>5. ASSUME Pause \/ Resume \/ Start \/ ControlDurable \/ End PROVE OtherType'
  <2>1. ASSUME Pause \/ Resume PROVE CutFence(FALSE, {}) /\ UNCHANGED heard
    BY <2>1 DEF Pause, Resume, Cut
  <2>2. ASSUME Start \/ ControlDurable PROVE UNCHANGED <<heard, firstAudio, clearing>>
    BY <2>2 DEF Start, ControlDurable, evidence
  <2>3. ASSUME End PROVE BeginEnd /\ UNCHANGED heard
    BY <2>3 DEF End
  <2>. QED  BY <1>1, <1>2, <1>4, <1>5, <2>1, <2>2, <2>3
<1>6. ASSUME IngressNext PROVE OtherType'
  <2>1. ASSUME \/ SourceEnds \/ DestinationEnds \/ AudioArrives \/ DisconnectDurable
               \/ (\E p \in Party : Disconnect(p)) \/ (\E g \in 1 .. gen : ClearAcknowledged(g))
        PROVE  UNCHANGED <<heard, firstAudio, clearing>>
    BY <2>1 DEF SourceEnds, DestinationEnds, AudioArrives, Disconnect, DisconnectDurable,
                ClearAcknowledged, evidence
  <2>2. ASSUME SourceStarts PROVE OtherType'
    BY <1>0, <2>2 DEF SourceStarts, evidence, OtherType
  <2>3. ASSUME DestinationStarts \/ Disconnected PROVE OtherType'
    BY <1>2, <1>3, <2>3 DEF DestinationStarts, Disconnected, Cut
  <2>4. ASSUME AudioDurable PROVE OtherType'
    <3>1. UNCHANGED heard /\ (NoCut \/ BeginEnd \/ UNCHANGED <<firstAudio, clearing>>)
      BY <2>4 DEF AudioDurable
    <3>. QED  BY <1>1, <1>3, <1>4, <3>1
  <2>. QED  BY <1>1, <1>6, <2>1, <2>2, <2>3, <2>4 DEF IngressNext
<1>7. ASSUME TranslationNext PROVE OtherType'
  <2>1. ASSUME NEW r \in DOMAIN runs,
               Consume(r) \/ RunEnds(r) \/ (\E seq \in lastSeq .. lastSeq + 2 : Emit(r, seq))
        PROVE  UNCHANGED <<heard, firstAudio, clearing>>
    BY <2>1 DEF Consume, RunEnds, Emit, evidence
  <2>2. ASSUME NEW r \in DOMAIN runs, ProviderError(r) \/ RunFails(r)
        PROVE  CutFence(FALSE, {}) /\ UNCHANGED heard
    BY <2>2 DEF ProviderError, RunFails
  <2>3. ASSUME NEW c \in cancels, CancelSettles(c) \/ CancelFails(c)
        PROVE  UNCHANGED <<heard, firstAudio, clearing>>
    BY <2>3 DEF CancelSettles, CancelFails, CancelReports, evidence
  <2>. QED  BY <1>1, <1>2, <1>7, <2>1, <2>2, <2>3 DEF TranslationNext
<1>8. ASSUME PlayoutNext PROVE OtherType'
  <2>1. ASSUME NEW g \in clearing, ClearFails(g) PROVE OtherType'
    <3>1. /\ UNCHANGED heard
          /\ CutFence(FALSE, {g}) \/ (UNCHANGED firstAudio /\ clearing' = clearing \ {g})
      BY <2>1 DEF ClearFails
    <3>. QED  BY <1>0, <1>2, <3>1 DEF OtherType
  <2>2. ASSUME NEW g \in 0 .. gen, acks[g] # <<>> PROVE Ack(g) \in PlayoutFrame
    BY <1>0, <2>2 DEF Ack
  <2>3. ASSUME NEW g \in 0 .. gen, AckBegins(g) PROVE OtherType'
    <3>1. UNCHANGED <<firstAudio, clearing>> /\ heard' \in {heard, Ack(g)} /\ acks[g] # <<>>
      BY <2>3 DEF AckBegins
    <3>. QED  BY <1>0, <2>2, <3>1 DEF OtherType
  <2>4. ASSUME NEW g \in 0 .. gen, AckGapDurable(g) PROVE OtherType'
    <3>1. UNCHANGED <<firstAudio, clearing>> /\ heard' = Ack(g) /\ acks[g] # <<>>
      BY <2>4 DEF AckGapDurable, AckInv
    <3>. QED  BY <1>0, <2>2, <3>1 DEF OtherType
  <2>5. ASSUME NEW g \in 0 .. gen, AckDurable(g) \/ AckReported(g) PROVE OtherType'
    <3>1. UNCHANGED <<heard, clearing>> /\ firstAudio' \in {firstAudio, TRUE}
      BY <2>5 DEF AckDurable, AckReported, Report
    <3>. QED  BY <1>0, <3>1 DEF OtherType
  <2>6. ASSUME Pull \/ (\E f \in held : PlayoutStarts(f)) PROVE UNCHANGED <<heard, firstAudio, clearing>>
    BY <2>6 DEF Pull, PlayoutStarts, evidence
  <2>7. ASSUME NEW g \in clearing, ClearSettles(g) PROVE OtherType'
    BY <1>0, <2>7 DEF ClearSettles, evidence, OtherType
  <2>. QED  BY <1>1, <1>8, <2>1, <2>3, <2>4, <2>5, <2>6, <2>7 DEF PlayoutNext
<1>. QED  BY <1>5, <1>6, <1>7, <1>8 DEF Next

-----------------------------------------------------------------------------
(***************************************************************************)
(* The theorems.                                                           *)
(***************************************************************************)
LEMMA InvInit ==
  ASSUME LaneAssumption, Init
  PROVE  LaneInv
<1>1. <<>> \in Seq(Frame) /\ <<>> \in Seq(Run) /\ <<>> \in Seq(PlayoutFrame) /\ <<>> \in Seq(Entry)
      /\ Len(<<>>) = 0 /\ DOMAIN <<>> = {}
  OBVIOUS
<1>2. QueueCap \in Nat /\ InputCap \in Nat /\ AckCap \in Nat
  BY DEF LaneAssumption
<1>3. TypeOK
  <2>1. SessionType /\ CaptureType /\ OtherType
    BY DEF Init, SessionType, CaptureType, OtherType, Status, Party, Frame, None
  <2>2. DropType
    BY DEF Init, DropType
  <2>3. InputType
    BY <1>1, <1>2 DEF Init, InputType
  <2>4. QueueType
    <3>1. 0 .. gen = {0} /\ gen = 0
      BY DEF Init
    <3>2. DOMAIN acks = {0} /\ DOMAIN stage = {0} /\ acks[0] = <<>> /\ stage[0] = "none"
      BY DEF Init
    <3>3. playout = <<>> /\ metadata = <<>> /\ held = {} /\ lastSeq = 0
      BY DEF Init
    <3>4. \A g \in {0} : /\ acks[g] \in Seq(PlayoutFrame) /\ Len(acks[g]) <= AckCap
                          /\ stage[g] \in Stage
      <4>1. acks[0] \in Seq(PlayoutFrame) /\ Len(acks[0]) = 0
        BY <1>1, <3>2
      <4>2. stage[0] \in Stage
        BY <3>2 DEF Stage
      <4>. QED  BY <1>2, <4>1, <4>2
    <3>5. /\ playout \in Seq(PlayoutFrame) /\ Len(playout) <= QueueCap
          /\ metadata \in Seq(PlayoutFrame) /\ Len(metadata) <= QueueCap
          /\ held \in SUBSET PlayoutFrame
      BY <1>1, <1>2, <3>3
    <3>. QED  BY <3>1, <3>2, <3>3, <3>4, <3>5 DEF QueueType
  <2>5. resumption \in Nat \cup {-1} /\ played \in SUBSET Nat
        /\ clears \in SUBSET [gen : Nat, barge : BOOLEAN]
        /\ cancels \in SUBSET [gen : Nat, barge : BOOLEAN] /\ log \in Seq(Entry)
    BY <1>1 DEF Init
  <2>. QED  BY <2>1, <2>2, <2>3, <2>4, <2>5, TypeParts
<1>4. FenceInv /\ ChainInv /\ CancelInv /\ LagInv /\ Caused
  BY <1>1 DEF Init, FenceInv, ChainInv, CancelInv, LagInv, Caused
<1>5. AckInv
  <2>1. 0 .. gen = {0} /\ acks[0] = <<>> /\ stage[0] = "none"
    BY DEF Init
  <2>. QED  BY <1>1, <2>1 DEF AckInv
<1>6. StopInv /\ NoLateEvent /\ BargeChain /\ LagOnce /\ PlayoutOrdered /\ Aligned
  BY <1>1 DEF Init, StopInv, NoLateEvent, BargeChain, LagOnce, PlayoutOrdered, Aligned, After
<1>7. OrderInv
  <2>1. acks[gen] = <<>> /\ held = {} /\ playout = <<>> /\ metadata = <<>>
    BY DEF Init
  <2>. QED  BY <1>1, <2>1 DEF OrderInv, Passed
<1>. QED  BY <1>3, <1>4, <1>5, <1>6, <1>7 DEF LaneInv

\* Only the handling of a disconnect changes it.
LEMMA DropKept ==
  ASSUME Next, ~Disconnected, ~DisconnectDurable, \A p \in Party : ~Disconnect(p)
  PROVE  drop' = drop
<1>1. ASSUME Pause \/ Resume \/ Start \/ ControlDurable \/ End PROVE UNCHANGED drop
  BY <1>1 DEF Pause, Resume, Start, ControlDurable, End
<1>2. ASSUME IngressNext PROVE UNCHANGED drop
  BY <1>2 DEF IngressNext, SourceStarts, DestinationStarts, SourceEnds, DestinationEnds, AudioArrives,
              AudioDurable, ClearAcknowledged, session
<1>3. ASSUME TranslationNext PROVE UNCHANGED drop
  BY <1>3 DEF TranslationNext, Consume, ProviderError, RunEnds, RunFails, Emit,
              CancelSettles, CancelFails, CancelReports, session
<1>4. ASSUME PlayoutNext PROVE UNCHANGED drop
  <2>1. ASSUME NEW g \in clearing, ClearFails(g) PROVE UNCHANGED drop
    BY <2>1 DEF ClearFails, session
  <2>2. ASSUME NEW g \in 0 .. gen, AckBegins(g) \/ AckGapDurable(g) \/ AckDurable(g) \/ AckReported(g)
        PROVE  UNCHANGED drop
    BY <2>2 DEF AckBegins, AckGapDurable, AckDurable, AckReported, session
  <2>3. ASSUME Pull \/ (\E f \in held : PlayoutStarts(f)) \/ (\E g \in clearing : ClearSettles(g))
        PROVE  UNCHANGED drop
    BY <2>3 DEF Pull, PlayoutStarts, ClearSettles, session
  <2>. QED  BY <1>4, <2>1, <2>2, <2>3 DEF PlayoutNext
<1>. QED  BY <1>1, <1>2, <1>3, <1>4 DEF Next

\* Once the destination is reached again, nothing of the present generation is
\* queued.
LEMMA ReachedAgain ==
  ASSUME TypeOK, FenceInv, StopInv, Next, Moves, ~Reached, Reached'
  PROVE  Aligned'
<1>0. drop \in SUBSET Drop /\ (\A c, d \in drop : c = d) /\ gen \in Nat
  BY DEF TypeOK
<1>1. PICK d \in Drop : drop = {d} /\ d.side = "destination"
  BY <1>0 DEF Reached
<1>2. drop' # drop
  BY DEF Reached
<1>3. Stale'
  <2>1. CASE gen' = gen + 1
    BY <2>1, StaleStep
  <2>2. CASE gen' # gen + 1
    <3>1. ASSUME Disconnected PROVE Stale'
      <4>1. ~d.active
        BY <1>1, <2>2, <3>1 DEF Disconnected, Cut, CutFence
      <4>. QED  BY <1>1, <4>1, StaleStep DEF StopInv
    <3>2. ASSUME DisconnectDurable PROVE FALSE
      <4>1. drop' = {[d EXCEPT !.prev = status]}
        BY <1>1, <3>2 DEF DisconnectDurable
      <4>2. [d EXCEPT !.prev = status].side = "destination"
        BY <1>1 DEF Drop
      <4>. QED  BY <4>1, <4>2 DEF Reached
    <3>3. ASSUME NEW p \in Party, Disconnect(p) PROVE FALSE
      BY <1>1, <3>3 DEF Disconnect, IngressIdle
    <3>4. ASSUME ~Disconnected, ~DisconnectDurable, \A p \in Party : ~Disconnect(p)
          PROVE  drop' = drop
      BY <3>4, DropKept
    <3>. QED  BY <1>2, <3>1, <3>2, <3>3, <3>4
  <2>. QED  BY <2>1, <2>2
<1>4. gen' \in Nat
  BY <1>0, StaleStep
<1>. QED  BY <1>3, <1>4 DEF Stale, Aligned

\* The inductive invariant is kept by every step.
LEMMA InvNext ==
  ASSUME LaneAssumption, LaneInv, [Next]_vars
  PROVE  LaneInv'
<1>1. CASE UNCHANGED vars
  BY SMTT(20), <1>1 DEF LaneInv, vars, session, capture, outputs, evidence, TypeOK, FenceInv, AckInv, ChainInv,
              Unlogged, CancelInv, LagInv, StopInv, Stale, OrderInv, Passed, Reached, Aligned, Caused,
              NoLateEvent, BargeChain, LagOnce, PlayoutOrdered, After
<1>2. CASE Next
  <2>0. /\ TypeOK /\ FenceInv /\ AckInv /\ ChainInv /\ CancelInv /\ LagInv /\ StopInv /\ OrderInv
        /\ (Reached => Aligned) /\ Caused /\ NoLateEvent /\ BargeChain /\ LagOnce /\ PlayoutOrdered
    BY DEF LaneInv
  <2>1. Moves
    BY <1>2, <2>0, StepMoves
  <2>2. LogMoves /\ LogSound
    <3>1. log \in Seq(Entry)
      BY <2>0, TypeParts
    <3>. QED  BY <2>0, <2>1, <3>1, MoveLogs, LogSoundIs
  <2>3. /\ LogSound' /\ Caused' /\ ChainInv' /\ CancelInv' /\ LagInv' /\ log' \in Seq(Entry)
        /\ \A i \in DOMAIN log' : log'[i].gen <= gen'
        /\ (\A c \in clears : c.gen = gen)' /\ (\A c, d \in clears : c = d)'
        /\ (\A c \in cancels : c.gen <= gen)' /\ resumption' \in {-1, gen'}
        /\ gen' \in Nat /\ played' \in SUBSET Nat
        /\ clears' \in SUBSET [gen : Nat, barge : BOOLEAN]
        /\ cancels' \in SUBSET [gen : Nat, barge : BOOLEAN]
    BY <2>0, <2>2, LogStep
  <2>4. QueueInv
    BY <2>0, TypeParts DEF QueueInv, QueueFence, FenceInv
  <2>5. QueueInv' /\ (Aligned /\ Reached' => Aligned')
    BY <2>1, <2>4, QueueStep
  <2>6. StopMoves
    BY <1>2, <2>0, StepStops
  <2>7. StopInv' /\ audio' <= gen'
    BY <2>0, <2>1, <2>6, StopStep
  <2>8. \A r \in DOMAIN runs' : runs'[r].gen <= gen'
    BY <2>0, <2>1, StaleStep
  <2>9. FenceInv'
    BY <2>3, <2>5, <2>7, <2>8 DEF FenceInv, QueueInv, QueueFence
  <2>10. SessionType' /\ DropType' /\ CaptureType' /\ InputType' /\ OtherType'
    BY <1>2, <2>0, SessionTypeStep, DropTypeStep, CaptureTypeStep, InputTypeStep, OtherTypeStep
  <2>11. TypeOK'
    <3>1. QueueType' /\ resumption' \in Nat \cup {-1}
      BY <2>3, <2>5 DEF QueueInv
    <3>. QED  BY <2>3, <2>10, <3>1
                 DEF TypeOK, SessionType, DropType, CaptureType, InputType, OtherType, QueueType, Entry
  <2>12. (NoLateEvent /\ BargeChain /\ LagOnce)'
    <3>1. \A i \in DOMAIN log' : log'[i] \in Entry
      BY <2>3
    <3>2. \A i \in DOMAIN log' : log'[i].gen \in Nat
      BY <3>1 DEF Entry
    <3>3. NoLateEvent'
      <4>1. SUFFICES ASSUME NEW i \in DOMAIN log', log'[i].type = "generation_cut",
                            NEW j \in DOMAIN log', i < j, log'[j].gen < log'[i].gen,
                            log'[j].type \notin CancelOutcome
                     PROVE  log'[j].type \in Failure /\ log'[j - 1].type = "generation_cut"
        BY DEF NoLateEvent, After, CancelOutcome, Failure
      <4>2. log'[j].type \in Failure
        BY <2>3, <4>1 DEF LogSound, Bad, Late, CancelOutcome, Failure
      <4>. QED  BY <2>3, <4>2 DEF Caused, Failure
    <3>4. BargeChain'
      BY <2>3 DEF LogSound, BargeChain, After, Bad, Broken, Outcome, CancelOutcome
    <3>5. LagOnce'
      BY <2>3 DEF LogSound, LagOnce, After, Bad, Repeated
    <3>. QED  BY <3>3, <3>4, <3>5
  <2>13. Reached' => Aligned'
    BY <1>2, <2>0, <2>1, <2>5, ReachedAgain
  <2>. QED  BY <2>3, <2>5, <2>7, <2>9, <2>11, <2>12, <2>13 DEF LaneInv, QueueInv
<1>. QED  BY <1>1, <1>2

\* The queued frames of the present generation have their metadata.
LEMMA AlignedHasMetadata ==
  ASSUME LaneInv
  PROVE  QueuedHasMetadata
<1>1. playout \in Seq(PlayoutFrame) /\ metadata \in Seq(PlayoutFrame)
  BY DEF LaneInv, TypeOK
<1>2. ASSUME NEW i \in DOMAIN playout, playout[i].gen = gen, Reached
      PROVE  Contains(metadata, playout[i])
  <2>. DEFINE k == Len(metadata) - (Len(playout) - i)
  <2>1. Len(playout) - i < Len(metadata) /\ metadata[k] = playout[i]
    BY <1>2 DEF LaneInv, Aligned
  <2>2. i \in 1 .. Len(playout) /\ Len(playout) \in Nat /\ Len(metadata) \in Nat
    BY <1>1
  <2>3. k \in 1 .. Len(metadata)
    BY <2>1, <2>2
  <2>. HIDE DEF k
  <2>. QED  BY <2>1, <2>3 DEF Contains
<1>. QED  BY <1>2 DEF QueuedHasMetadata, Reached

LEMMA LaneInvariant ==
  ASSUME LaneAssumption
  PROVE  Spec => []LaneInv
<1>1. Init => LaneInv
  BY InvInit
<1>2. LaneInv /\ [Next]_vars => LaneInv'
  BY InvNext
<1>. QED  BY <1>1, <1>2, PTL DEF Spec

\* After a cut the log has an event of an older generation only where it reports
\* about a cut: the outcome of a cancel, and the failure of a translation
\* directly after the cut it causes (#acceptPlayout, #acceptAudio, #cutLane,
\* #consumeTranslation).
THEOREM NothingLate ==
  ASSUME LaneAssumption
  PROVE  Spec => []NoLateEvent
<1>1. LaneInv => NoLateEvent
  BY DEF LaneInv
<1>. QED  BY <1>1, LaneInvariant, PTL

\* A barge-in's clear and cancel are requested, then settled once, and output
\* resumes at most once and not after a failed clear (#cutLane,
\* #acceptPlayoutClearAcknowledgement, #acceptPlayout).
THEOREM BargeInInOrder ==
  ASSUME LaneAssumption
  PROVE  Spec => []BargeChain
<1>1. LaneInv => BargeChain
  BY DEF LaneInv
<1>. QED  BY <1>1, LaneInvariant, PTL

\* The playout queue is in order and what will be heard can be evidenced, and
\* the lag of a turn is reported once per generation (#handleTranslation,
\* #storePlayoutMetadata, #acceptPlayout).
THEOREM PlayoutIsEvidenced ==
  ASSUME LaneAssumption
  PROVE  Spec => []PlayoutHolds
<1>1. LaneInv => PlayoutHolds
  BY AlignedHasMetadata DEF LaneInv, PlayoutHolds
<1>. QED  BY <1>1, LaneInvariant, PTL

\* A stopped lane hands nothing to the media adapter (#currentPlayout, #cutLane).
THEOREM StoppedHandsNothing ==
  ASSUME LaneAssumption
  PROVE  Spec => StoppedIsSilent
<1>1. ASSUME LaneInv, [Next]_vars, stopped, stopped' PROVE held' \subseteq held
  <2>1. CASE UNCHANGED vars
    BY <2>1 DEF vars, outputs
  <2>2. CASE Next
    <3>1. Moves
      BY <1>1, <2>2, StepMoves DEF LaneInv
    <3>2. Stale /\ playout \in Seq(PlayoutFrame) /\ gen \in Nat
      BY <1>1 DEF LaneInv, StopInv, TypeOK
    <3>3. ASSUME playout # <<>>, held' = IF Head(playout).gen = gen THEN held \cup {Head(playout)} ELSE held
          PROVE  held' \subseteq held
      <4>1. Head(playout) = playout[1] /\ 1 \in DOMAIN playout
        BY <3>2, <3>3
      <4>2. Head(playout).gen < gen
        BY <3>2, <4>1 DEF Stale
      <4>3. Head(playout).gen # gen
        BY <3>2, <4>2
      <4>. QED  BY <3>3, <4>3
    <3>. QED  BY <3>1, <3>3 DEF Moves, Silent, core, CutMove, PurgeMove, EmitMove, HandMove, ClearMove,
                               CancelMove, TakeMove, AckMove
  <2>. QED  BY <1>1, <2>1, <2>2
<1>2. LaneInv /\ [Next]_vars => [stopped /\ stopped' => held' \subseteq held]_vars
  BY <1>1
<1>. QED  BY <1>2, LaneInvariant, PTL DEF Spec, StoppedIsSilent
=============================================================================
