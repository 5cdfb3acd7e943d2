---------------------------- MODULE ProviderProofs ----------------------------
(***************************************************************************)
(* What holds of the provider adapters as MCProviders composes them: a     *)
(* native turn ends with a completion or after an error and its frames     *)
(* follow their text, for every backlog, limit and number of messages; and *)
(* a provider id that a lane remembers is not taken for another turn, for  *)
(* every set of ids, number of lanes and turns, and size of the memory.    *)
(***************************************************************************)
EXTENDS MCProviders, SequenceTheorems, FiniteSetTheorems, WellFoundedInduction,
        NaturalsInduction, TLAPS

-----------------------------------------------------------------------------
(***************************************************************************)
(* A native turn (NativeTranslation): the invariant.                       *)
(***************************************************************************)
Marks == {"target", "audio"}
Events == {Error, Completed} \cup {Target(k, f) : k \in Nat, f \in BOOLEAN}
                             \cup {Audio(k, f) : k \in Nat, f \in BOOLEAN}
Lives == {"active", "cancelled", "failed", "completed"}
Turns == [life : Lives, ready : BOOLEAN, suppressed : BOOLEAN,
          input : {"flowing", "ended", "stopped"}, windows : Nat, closeSent : BOOLEAN,
          deadline : BOOLEAN, rev : Nat, text : BOOLEAN, final : BOOLEAN, current : Nat,
          part : Nat, valid : BOOLEAN, reported : BOOLEAN,
          values : Seq(Events), delayed : Seq(Events), accepting : BOOLEAN, ended : BOOLEAN,
          terminal : {None, Completed}, counted : Nat,
          reader : {"opening", "reading", "waiting", "handed", "done"},
          hand : Events \cup {None, Ended}]
Relays == [rev : Nat, final : BOOLEAN, refused : SUBSET {"tail", "frame"},
           verdict : {"none", "completed"}, after : BOOLEAN, last : Nat, errors : BOOLEAN]

\* The queue of a turn: a completion comes last, and a reader waits only for
\* what is to come.
QueueInv(t) ==
  /\ t.accepting => ~t.ended /\ t.terminal = None
  /\ t.ended => t.delayed = <<>> /\ t.terminal = None
  /\ t.reader = "waiting" => t.values = <<>> /\ ~t.ended
  /\ t.reader = "handed" <=> t.hand # None
  /\ t.hand = Ended => t.values = <<>> /\ t.ended
  /\ t.hand = Completed => t.values = <<>> /\ t.ended
  /\ \A i \in 1..Len(t.delayed) : t.delayed[i] # Completed
  /\ \A i \in 1..Len(t.values) : t.values[i] = Completed => i = Len(t.values) /\ t.ended

\* Something waits for the relay.
Waits(t, e) ==
  \/ t.hand = e
  \/ \E i \in 1..Len(t.values) : t.values[i] = e
  \/ \E i \in 1..Len(t.delayed) : t.delayed[i] = e

LifeInv(t, cut) ==
  /\ t.life = "active" <=> t.accepting
  /\ t.suppressed <=> t.life = "cancelled"
  /\ cut => t.life # "active"

\* The relay has heard of an error, or will.
Told(t, r) == r.errors \/ Waits(t, Error)
EndInv(t, r, cut) ==
  /\ t.life = "active" /\ t.reported => Told(t, r)
  /\ t.life \in {"failed", "completed"} /\ ~cut
       => \/ Told(t, r) \/ r.verdict = "completed"
          \/ Waits(t, Completed) \/ t.terminal = Completed
  /\ t.reader = "done" => cut \/ t.life = "cancelled" \/ (t.ended /\ t.values = <<>>)
  /\ r.verdict # "none" => t.values = <<>> /\ t.ended /\ t.hand \in {None, Ended}
  /\ ~r.after

Whole(e) == e.kind = "audio" /\ ~e.tail
Marked(e) == e.kind = "target" \/ Whole(e)
Fits(a, b) ==
  Marked(a) /\ Marked(b) => a.rev <= b.rev /\ (b.kind = "target" => a.rev < b.rev)
Ordered(t) ==
  /\ \A i, j \in 1..Len(t.values) : i < j => Fits(t.values[i], t.values[j])
  /\ \A i, j \in 1..Len(t.delayed) : i < j => Fits(t.delayed[i], t.delayed[j])
  /\ \A i \in 1..Len(t.values), j \in 1..Len(t.delayed) : Fits(t.values[i], t.delayed[j])
  /\ \A i \in 1..Len(t.values) : Fits(t.hand, t.values[i])
  /\ \A i \in 1..Len(t.delayed) : Fits(t.hand, t.delayed[i])
  /\ ~Held => t.delayed = <<>>

\* Between what the relay heard last and the last revision of the turn.
Within(t, r, e) ==
  Marked(e) => r.last <= e.rev /\ e.rev <= t.current /\ (e.kind = "target" => r.last < e.rev)
Shown(t, r, k) == k <= r.last \/ \E f \in BOOLEAN : Waits(t, Target(k, f))
Follows(t, r, e) == Within(t, r, e) /\ (Whole(e) => Shown(t, r, e.rev))
FrameInv(t, r) ==
  /\ Ordered(t)
  /\ Follows(t, r, t.hand)
  /\ \A i \in 1..Len(t.values) : Follows(t, r, t.values[i])
  /\ \A i \in 1..Len(t.delayed) : Follows(t, r, t.delayed[i])
  /\ t.life = "active" => Shown(t, r, t.current) 
  /\ t.current = t.rev /\ r.last <= t.current

\* The queue ends once it takes nothing more and holds nothing back.
Drained(t) == ~t.accepting /\ ~t.ended => t.delayed # <<>>

LooseInv(t, r, cut) ==
  /\ t \in Turns /\ r \in Relays /\ cut \in BOOLEAN
  /\ QueueInv(t) /\ LifeInv(t, cut) /\ EndInv(t, r, cut)
  /\ ~cut /\ t.life # "cancelled" => FrameInv(t, r)
TurnInv(t, r, cut) == LooseInv(t, r, cut) /\ Drained(t)

NativeInv == mode \in {"fast", "balanced"} /\ TurnInv(turn, relay, aborted)

\* What a turn looks like while it takes events from the provider; the text of
\* its last revision may be on its way into the queue.
Taking(t, r) ==
  /\ t \in Turns /\ r \in Relays /\ QueueInv(t) /\ Ordered(t)
  /\ t.life = "active" /\ t.accepting /\ ~t.suppressed /\ t.reader # "done"
  /\ r.verdict = "none" /\ ~r.after
  /\ Follows(t, r, t.hand)
  /\ \A i \in 1..Len(t.values) : Follows(t, r, t.values[i])
  /\ \A i \in 1..Len(t.delayed) : Follows(t, r, t.delayed[i])
  /\ t.current = t.rev /\ r.last <= t.current

\* A turn that reported output without a text told the relay of an error.
Tells(t, r) == t.reported => Told(t, r)

\* The fields that these predicates read.
Agree(t, u) ==
  /\ u.life = t.life /\ u.suppressed = t.suppressed /\ u.accepting = t.accepting
  /\ u.ended = t.ended /\ u.terminal = t.terminal /\ u.values = t.values
  /\ u.delayed = t.delayed /\ u.reader = t.reader /\ u.hand = t.hand
  /\ u.reported = t.reported /\ u.current = t.current /\ u.rev = t.rev

LEMMA AgreeTaking ==
  ASSUME NEW t, NEW u \in Turns, NEW r, Agree(t, u), Taking(t, r)
  PROVE  Taking(u, r)
<1>1. QueueInv(u) /\ Ordered(u)
  BY DEF Agree, Taking, QueueInv, Ordered
<1>2. \A e : Waits(u, e) <=> Waits(t, e)
  BY DEF Agree, Waits
<1>3. \A e : Follows(u, r, e) <=> Follows(t, r, e)
  BY <1>2 DEF Agree, Follows, Within, Shown
<1>. QED  BY <1>1, <1>2, <1>3 DEF Agree, Taking

LEMMA AgreeInv ==
  ASSUME NEW t, NEW u \in Turns, NEW r, NEW cut, Agree(t, u), LooseInv(t, r, cut)
  PROVE  LooseInv(u, r, cut) /\ (Drained(t) => Drained(u))
<1>1. QueueInv(u) /\ LifeInv(u, cut)
  BY DEF Agree, LooseInv, QueueInv, LifeInv
<1>2. \A e : Waits(u, e) <=> Waits(t, e)
  BY DEF Agree, Waits
<1>3. EndInv(u, r, cut)
  BY <1>2 DEF Agree, LooseInv, EndInv, Told
<1>4. ASSUME ~cut, u.life # "cancelled" PROVE FrameInv(u, r)
  <2>1. FrameInv(t, r)
    BY <1>4 DEF Agree, LooseInv
  <2>2. \A k : Shown(u, r, k) <=> Shown(t, r, k)
    BY <1>2 DEF Shown
  <2>3. \A e : Follows(u, r, e) <=> Follows(t, r, e)
    BY <2>2 DEF Agree, Follows, Within
  <2>4. Ordered(u)
    BY <2>1 DEF Agree, FrameInv, Ordered
  <2>. QED  BY <2>1, <2>2, <2>3, <2>4 DEF Agree, FrameInv
<1>. QED  BY <1>1, <1>3, <1>4 DEF LooseInv, Drained, Agree

\* Between two provider messages a turn that takes events shows its last revision.
LEMMA TakingIs ==
  ASSUME NEW t, NEW r, t.life = "active"
  PROVE  \A cut : TurnInv(t, r, cut) <=>
                     cut = FALSE /\ Taking(t, r) /\ Tells(t, r) /\ Shown(t, r, t.current)
<1>1. ASSUME NEW cut, TurnInv(t, r, cut)
      PROVE  cut = FALSE /\ Taking(t, r) /\ Tells(t, r) /\ Shown(t, r, t.current)
  <2>1. cut = FALSE /\ t.accepting /\ ~t.suppressed /\ FrameInv(t, r) /\ ~t.ended
    BY <1>1 DEF TurnInv, LooseInv, Drained, LifeInv, QueueInv
  <2>2. r.verdict = "none"
    BY <1>1, <2>1 DEF TurnInv, LooseInv, Drained, EndInv, Relays
  <2>. QED  BY <1>1, <2>1, <2>2 DEF TurnInv, LooseInv, Drained, EndInv, FrameInv, Taking, Tells
<1>2. ASSUME Taking(t, r), Tells(t, r), Shown(t, r, t.current) PROVE TurnInv(t, r, FALSE)
  BY <1>2 DEF TurnInv, LooseInv, Drained, Taking, LifeInv, EndInv, FrameInv, Tells
<1>. QED  BY <1>1, <1>2

LEMMA Kinds ==
  /\ Error \in Events /\ Completed \in Events
  /\ \A k \in Nat, f \in BOOLEAN : Target(k, f) \in Events /\ Audio(k, f) \in Events
  /\ None # Ended /\ None # Error /\ None # Completed
  /\ Ended # Error /\ Ended # Completed /\ Error # Completed
  /\ \A e \in Events : e # None /\ e # Ended
  /\ \A k, f : Target(k, f) \notin {None, Ended, Error, Completed}
  /\ \A k, f : Audio(k, f) \notin {None, Ended, Error, Completed}
  /\ ~Marked(None) /\ ~Marked(Ended) /\ ~Marked(Error) /\ ~Marked(Completed)
<1>1. /\ None.kind = "none" /\ Ended.kind = "ended" /\ Error.kind = "error"
      /\ Completed.kind = "completed"
      /\ \A k, f : Target(k, f).kind = "target" /\ Audio(k, f).kind = "audio"
  BY DEF None, Ended, Error, Completed, Target, Audio
<1>2. \A e \in Events : e.kind \in {"error", "completed", "target", "audio"}
  BY <1>1 DEF Events
<1>3. /\ Error \in Events /\ Completed \in Events
      /\ \A k \in Nat, f \in BOOLEAN : Target(k, f) \in Events /\ Audio(k, f) \in Events
  BY DEF Events
<1>4. ~Marked(None) /\ ~Marked(Ended) /\ ~Marked(Error) /\ ~Marked(Completed)
  BY <1>1 DEF Marked, Whole
<1>. QED  BY <1>1, <1>2, <1>3, <1>4

LEMMA Shapes ==
  /\ \A k, f : Target(k, f).rev = k /\ Audio(k, f).rev = k
  /\ \A k, f : Marked(Target(k, f)) /\ ~Whole(Target(k, f)) /\ ~IsAudio(Target(k, f))
  /\ \A k, f : IsAudio(Audio(k, f)) /\ (Whole(Audio(k, f)) <=> ~f)
                 /\ (Marked(Audio(k, f)) <=> ~f) /\ Audio(k, f).kind # "target"
  /\ ~IsAudio(Error)
BY DEF Target, Audio, Marked, Whole, IsAudio, Error

LEMMA MarkedRev ==
  ASSUME NEW e \in Events \cup {None, Ended}, Marked(e)
  PROVE  e.rev \in Nat /\ \E f \in BOOLEAN : e = Target(e.rev, f) \/ e = Audio(e.rev, f)
<1>1. \/ \E k \in Nat, f \in BOOLEAN : e = Target(k, f)
      \/ \E k \in Nat, f \in BOOLEAN : e = Audio(k, f)
  BY Kinds DEF Events
<1>. QED  BY <1>1, Shapes

\* u is t with one more event that waits for the relay.
Added(t, u, e) ==
  /\ u \in Turns /\ \A x \in Events : Waits(u, x) <=> Waits(t, x) \/ x = e
  /\ u.life = t.life /\ u.current = t.current /\ u.reported = t.reported

\* An event may join what waits.
Joins(t, r, e) ==
  /\ e \in Events /\ e # Completed /\ Follows(t, r, e)
  /\ \A x \in Events : Waits(t, x) => Fits(x, e)

\* All but the queue is the same.
Beside(t, u) ==
  /\ u.life = t.life /\ u.suppressed = t.suppressed /\ u.accepting = t.accepting
  /\ u.ended = t.ended /\ u.terminal = t.terminal
  /\ u.reported = t.reported /\ u.current = t.current /\ u.rev = t.rev

LEMMA FollowsKept ==
  ASSUME NEW t, NEW u, NEW r, u.current = t.current,
         \A k \in Nat, f \in BOOLEAN : Waits(t, Target(k, f)) => Waits(u, Target(k, f)),
         NEW x \in Events \cup {None, Ended}, Follows(t, r, x)
  PROVE  Follows(u, r, x)
<1>1. CASE ~Marked(x)
  BY <1>1 DEF Follows, Within, Marked
<1>2. CASE Marked(x)
  <2>1. x.rev \in Nat
    BY <1>2, MarkedRev
  <2>2. Shown(t, r, x.rev) => Shown(u, r, x.rev)
    BY <2>1 DEF Shown
  <2>. QED  BY <2>2 DEF Follows, Within
<1>. QED  BY <1>1, <1>2

LEMMA AddedTaking ==
  ASSUME NEW t, NEW r, Taking(t, r), NEW u, NEW e, Joins(t, r, e), Added(t, u, e), Beside(t, u),
         QueueInv(u), Ordered(u), u.reader # "done",
         u.hand \in {t.hand, e},
         \A i \in 1..Len(u.values) :
            u.values[i] = e \/ \E j \in 1..Len(t.values) : u.values[i] = t.values[j],
         \A i \in 1..Len(u.delayed) :
            u.delayed[i] = e \/ \E j \in 1..Len(t.delayed) : u.delayed[i] = t.delayed[j]
  PROVE  Taking(u, r)
<1>0. t \in Turns /\ r \in Relays /\ u \in Turns /\ e \in Events
  BY DEF Taking, Added, Joins
<1>1. \A x \in Events \cup {None, Ended} : Follows(t, r, x) => Follows(u, r, x)
  BY <1>0, FollowsKept, Kinds DEF Added
<1>2. Follows(u, r, e)
  BY <1>0, <1>1 DEF Joins
<1>3. Follows(u, r, u.hand)
  <2>1. t.hand \in Events \cup {None, Ended}
    BY <1>0 DEF Turns
  <2>. QED  BY <1>1, <1>2, <2>1 DEF Taking
<1>4. \A i \in 1..Len(u.values) : Follows(u, r, u.values[i])
  <2>1. \A j \in 1..Len(t.values) : t.values[j] \in Events
    BY <1>0 DEF Turns
  <2>. QED  BY <1>1, <1>2, <2>1 DEF Taking
<1>5. \A i \in 1..Len(u.delayed) : Follows(u, r, u.delayed[i])
  <2>1. \A j \in 1..Len(t.delayed) : t.delayed[j] \in Events
    BY <1>0 DEF Turns
  <2>. QED  BY <1>1, <1>2, <2>1 DEF Taking
<1>. QED  BY <1>0, <1>3, <1>4, <1>5 DEF Taking, Beside

LEMMA EnqueueTaking ==
  ASSUME NEW t, NEW r, Taking(t, r), NEW e, Joins(t, r, e), Held => ~Marked(e)
  PROVE  Taking(Enqueue(t, e), r) /\ Added(t, Enqueue(t, e), e)
<1>1. t \in Turns /\ ~t.ended /\ t.values \in Seq(Events) /\ t.delayed \in Seq(Events)
  BY DEF Taking, Turns, QueueInv
<1>0. e \in Events /\ e # None /\ e # Ended /\ e # Completed
  BY Kinds DEF Joins
<1>4. \A i \in 1..Len(t.delayed) : Fits(e, t.delayed[i])
  <2>1. CASE Held
    BY <2>1 DEF Fits
  <2>2. CASE ~Held
    BY <2>2, <1>1 DEF Taking, Ordered
  <2>. QED  BY <2>1, <2>2
<1>2. CASE t.reader = "waiting"
  <2>1. t.hand = None /\ t.values = <<>>
    BY <1>2, <1>1 DEF Taking, QueueInv
  <2>2. PICK u : u = [t EXCEPT !.reader = "handed", !.hand = e]
    OBVIOUS
  <2>3. Enqueue(t, e) = u
    BY <1>1, <1>2, <2>2 DEF Enqueue
  <2>4. u \in Turns /\ u.reader = "handed" /\ u.hand = e
    BY <1>0, <1>1, <2>2 DEF Turns
  <2>5. Beside(t, u) /\ u.values = t.values /\ u.delayed = t.delayed
    BY <1>1, <2>2 DEF Turns, Beside
  <2>6. Added(t, u, e)
    BY <1>0, <2>1, <2>4, <2>5, Kinds DEF Added, Waits, Beside
  <2>7. QueueInv(u)
    BY <1>0, <1>1, <2>1, <2>4, <2>5 DEF Taking, QueueInv, Beside
  <2>8. Ordered(u)
    BY <1>4, <2>1, <2>4, <2>5 DEF Taking, Ordered
  <2>9. u.reader # "done" /\ u.hand \in {t.hand, e}
    BY <2>4
  <2>10. Taking(u, r)
    BY <2>5, <2>6, <2>7, <2>8, <2>9, AddedTaking
  <2>. QED  BY <2>3, <2>6, <2>10
<1>3. CASE t.reader # "waiting"
  <2>2. PICK u : u = [t EXCEPT !.values = Append(@, e)]
    OBVIOUS
  <2>3. Enqueue(t, e) = u
    BY <1>1, <1>3, <2>2 DEF Enqueue
  <2>4. u \in Turns /\ u.values = Append(t.values, e)
    <3>1. PICK q \in Seq(Events) : q = Append(t.values, e)
      BY <1>0, <1>1, AppendProperties
    <3>2. u = [t EXCEPT !.values = q]
      BY <2>2, <3>1
    <3>. QED  BY <1>1, <3>1, <3>2 DEF Turns
  <2>5. Beside(t, u) /\ u.delayed = t.delayed /\ u.hand = t.hand /\ u.reader = t.reader
    BY <1>1, <2>2 DEF Turns, Beside
  <2>. PICK n \in Nat : n = Len(t.values)
    BY <1>1, LenProperties
  <2>. PICK v \in Seq(Events) : v = t.values
    BY <1>1
  <2>. PICK w : w = u.values
    OBVIOUS
  <2>a. Len(w) = n + 1 /\ w[n + 1] = e /\ \A i \in 1..n : w[i] = v[i]
    BY <2>4, <1>0, AppendProperties
  <2>6. Added(t, u, e)
    <3>1. \A x \in Events : (\E i \in 1..n + 1 : w[i] = x) <=> x = e \/ \E i \in 1..n : v[i] = x
      BY <2>a
    <3>. QED  BY <3>1, <2>a, <2>4, <2>5 DEF Added, Waits, Beside
  <2>7. QueueInv(u)
    <3>1. t.hand # Ended /\ t.hand # Completed
      BY <1>1 DEF Taking, QueueInv
    <3>2. \A i \in 1..n : v[i] # Completed
      BY <1>1 DEF Taking, QueueInv
    <3>3. \A i \in 1..n + 1 : w[i] # Completed
      BY <3>2, <2>a, <1>0
    <3>. QED  BY <3>1, <3>3, <2>a, <1>1, <1>3, <2>5 DEF Taking, QueueInv, Beside
  <2>8. Ordered(u)
    <3>1. \A i \in 1..n : Fits(v[i], e)
      BY <1>1 DEF Joins, Waits
    <3>2. Fits(t.hand, e)
      <4>1. CASE t.hand \in Events
        BY <4>1 DEF Joins, Waits
      <4>2. CASE t.hand \in {None, Ended}
        BY <4>2, Kinds DEF Fits
      <4>. QED  BY <4>1, <4>2, <1>1 DEF Turns
    <3>3. \A i, j \in 1..n : i < j => Fits(v[i], v[j])
      BY DEF Taking, Ordered
    <3>4. \A i, j \in 1..n + 1 : i < j => Fits(w[i], w[j])
      BY <3>1, <3>3, <2>a
    <3>5. \A i \in 1..n + 1 : Fits(u.hand, w[i])
      BY <3>2, <2>a, <2>5 DEF Taking, Ordered
    <3>6. \A i \in 1..n + 1, j \in 1..Len(u.delayed) : Fits(w[i], u.delayed[j])
      BY <1>4, <2>a, <2>5 DEF Taking, Ordered
    <3>7. /\ \A i, j \in 1..Len(u.delayed) : i < j => Fits(u.delayed[i], u.delayed[j])
          /\ \A i \in 1..Len(u.delayed) : Fits(u.hand, u.delayed[i])
          /\ ~Held => u.delayed = <<>>
      BY <2>5 DEF Taking, Ordered
    <3>. QED  BY <3>4, <3>5, <3>6, <3>7, <2>a DEF Ordered
  <2>9. u.reader # "done" /\ u.hand \in {t.hand, e}
    BY <2>5 DEF Taking
  <2>11. \A i \in 1..Len(u.values) :
            u.values[i] = e \/ \E j \in 1..Len(t.values) : u.values[i] = t.values[j]
    BY <2>a
  <2>10. Taking(u, r)
    BY <2>5, <2>6, <2>7, <2>8, <2>9, <2>11, AddedTaking
  <2>. QED  BY <2>3, <2>6, <2>10
<1>. QED  BY <1>2, <1>3

\* What is held back joins the delayed events.
LEMMA DelayTaking ==
  ASSUME NEW t, NEW r, Taking(t, r), NEW e, Joins(t, r, e), Held,
         NEW u, u = [t EXCEPT !.delayed = Append(@, e)]
  PROVE  Taking(u, r) /\ Added(t, u, e)
<1>1. t \in Turns /\ ~t.ended /\ t.values \in Seq(Events) /\ t.delayed \in Seq(Events)
  BY DEF Taking, Turns, QueueInv
<1>0. e \in Events /\ e # None /\ e # Ended /\ e # Completed
  BY Kinds DEF Joins
<1>4. u \in Turns /\ u.delayed = Append(t.delayed, e)
  <2>1. PICK q \in Seq(Events) : q = Append(t.delayed, e)
    BY <1>0, <1>1, AppendProperties
  <2>2. u = [t EXCEPT !.delayed = q]
    BY <2>1
  <2>. QED  BY <1>1, <2>1, <2>2 DEF Turns
<1>5. Beside(t, u) /\ u.values = t.values /\ u.hand = t.hand /\ u.reader = t.reader
  BY <1>1 DEF Turns, Beside
<1>. PICK n \in Nat : n = Len(t.delayed)
  BY <1>1, LenProperties
<1>. PICK v \in Seq(Events) : v = t.delayed
  BY <1>1
<1>. PICK w : w = u.delayed
  OBVIOUS
<1>a. Len(w) = n + 1 /\ w[n + 1] = e /\ \A i \in 1..n : w[i] = v[i]
  BY <1>4, <1>0, AppendProperties
<1>6. Added(t, u, e)
  <2>1. \A x \in Events : (\E i \in 1..n + 1 : w[i] = x) <=> x = e \/ \E i \in 1..n : v[i] = x
    BY <1>a
  <2>. QED  BY <2>1, <1>a, <1>4, <1>5 DEF Added, Waits, Beside
<1>7. QueueInv(u)
  <2>3. \A i \in 1..n + 1 : w[i] # Completed
    BY <1>a, <1>0 DEF Taking, QueueInv
  <2>. QED  BY <2>3, <1>a, <1>1, <1>5 DEF Taking, QueueInv, Beside
<1>8. Ordered(u)
  <2>1. \A i \in 1..n : Fits(v[i], e)
    BY <1>1 DEF Joins, Waits
  <2>2. Fits(t.hand, e)
    <3>1. CASE t.hand \in Events
      BY <3>1 DEF Joins, Waits
    <3>2. CASE t.hand \in {None, Ended}
      BY <3>2, Kinds DEF Fits
    <3>. QED  BY <3>1, <3>2, <1>1 DEF Turns
  <2>3. \A i, j \in 1..n : i < j => Fits(v[i], v[j])
    BY DEF Taking, Ordered
  <2>4. \A i, j \in 1..n + 1 : i < j => Fits(w[i], w[j])
    BY <2>1, <2>3, <1>a
  <2>5. \A i \in 1..n + 1 : Fits(u.hand, w[i])
    BY <2>2, <1>a, <1>5 DEF Taking, Ordered
  <2>6. \A i \in 1..Len(u.values), j \in 1..n + 1 : Fits(u.values[i], w[j])
    <3>1. \A i \in 1..Len(t.values) : Fits(t.values[i], e)
      BY <1>1 DEF Joins, Waits
    <3>. QED  BY <3>1, <1>a, <1>5 DEF Taking, Ordered
  <2>7. /\ \A i, j \in 1..Len(u.values) : i < j => Fits(u.values[i], u.values[j])
        /\ \A i \in 1..Len(u.values) : Fits(u.hand, u.values[i])
    BY <1>5 DEF Taking, Ordered
  <2>. QED  BY <2>4, <2>5, <2>6, <2>7, <1>a DEF Ordered
<1>9. u.reader # "done" /\ u.hand \in {t.hand, e}
  BY <1>5 DEF Taking
<1>11. \A i \in 1..Len(u.delayed) :
          u.delayed[i] = e \/ \E j \in 1..Len(t.delayed) : u.delayed[i] = t.delayed[j]
  BY <1>a
<1>. QED  BY <1>5, <1>6, <1>7, <1>8, <1>9, <1>11, AddedTaking

\* r is s without its place i.
Shorter(s, r, i) ==
  /\ Len(r) = Len(s) - 1
  /\ \A j \in 1..Len(r) : r[j] = IF j < i THEN s[j] ELSE s[j + 1]

LEMMA RemoveAtShorter ==
  ASSUME NEW X, NEW s \in Seq(X), NEW i \in 1..Len(s)
  PROVE  RemoveAt(s, i) \in Seq(X) /\ Shorter(s, RemoveAt(s, i), i)
<1>. DEFINE a == SubSeq(s, 1, i - 1)
            b == SubSeq(s, i + 1, Len(s))
<1>1. a \in Seq(X) /\ Len(a) = i - 1 /\ \A j \in 1..i - 1 : a[j] = s[j]
  BY SubSeqProperties
<1>2. b \in Seq(X) /\ Len(b) = Len(s) - i /\ \A j \in 1..Len(s) - i : b[j] = s[i + j]
  BY SubSeqProperties
<1>. HIDE DEF a, b
<1>3. /\ a \o b \in Seq(X) /\ Len(a \o b) = Len(s) - 1
      /\ \A j \in 1..Len(s) - 1 : (a \o b)[j] = IF j <= i - 1 THEN a[j] ELSE b[j - (i - 1)]
  <2>1. /\ a \o b \in Seq(X) /\ Len(a \o b) = Len(a) + Len(b)
        /\ \A j \in 1..Len(a) + Len(b) :
             (a \o b)[j] = IF j <= Len(a) THEN a[j] ELSE b[j - Len(a)]
    BY <1>1, <1>2, ConcatProperties
  <2>2. Len(a) = i - 1 /\ Len(a) + Len(b) = Len(s) - 1
    BY <1>1, <1>2
  <2>. QED  BY <2>1, <2>2
<1>4. ASSUME NEW j \in 1..Len(s) - 1
      PROVE  (a \o b)[j] = IF j < i THEN s[j] ELSE s[j + 1]
  <2>1. CASE j < i
    <3>1. j <= i - 1 /\ j \in 1..i - 1
      BY <2>1
    <3>. QED  BY <2>1, <3>1, <1>1, <1>3
  <2>2. CASE j >= i
    <3>1. j - (i - 1) \in 1..Len(s) - i /\ i + (j - (i - 1)) = j + 1
      BY <2>2
    <3>2. b[j - (i - 1)] = s[j + 1]
      BY <3>1, <1>2
    <3>3. ~(j <= i - 1) /\ ~(j < i)
      BY <2>2
    <3>. QED  BY <3>2, <3>3, <1>3
  <2>3. j < i \/ j >= i
    OBVIOUS
  <2>. QED  BY <2>1, <2>2, <2>3, ZenonT(60)
<1>5. RemoveAt(s, i) = a \o b
  BY DEF RemoveAt, a, b
<1>. QED  BY <1>3, <1>4, <1>5 DEF Shorter

\* What is left when an audio event is given up: the rest, in its order.
Keeps(s, q) ==
  /\ \A j \in 1..Len(q) : \E k \in 1..Len(s) : q[j] = s[k]
  /\ \A k \in 1..Len(s) : IsAudio(s[k]) \/ \E j \in 1..Len(q) : q[j] = s[k]
  /\ \A j, k \in 1..Len(q) : j < k => Fits(q[j], q[k])

LEMMA ShorterKeeps ==
  ASSUME NEW s \in Seq(Events), NEW i \in 1..Len(s), NEW q \in Seq(Events), Shorter(s, q, i),
         IsAudio(s[i]), \A j, k \in 1..Len(s) : j < k => Fits(s[j], s[k])
  PROVE  Keeps(s, q)
<1>. PICK n \in Nat : n = Len(s)
  BY LenProperties
<1>1. Len(q) = n - 1 /\ \A j \in 1..n - 1 : q[j] = IF j < i THEN s[j] ELSE s[j + 1]
  BY DEF Shorter
<1>2. ASSUME NEW j \in 1..n - 1
      PROVE  \E k \in 1..n : q[j] = s[k]
  <2>1. CASE j < i
    BY <2>1, <1>1
  <2>2. CASE ~(j < i)
    BY <2>2, <1>1
  <2>. QED  BY <2>1, <2>2
<1>3. ASSUME NEW k \in 1..n, k # i
      PROVE  \E j \in 1..n - 1 : q[j] = s[k]
  <2>1. CASE k < i
    BY <2>1, <1>1, SMTT(60)
  <2>2. CASE k > i
    <3>1. k - 1 \in 1..n - 1 /\ ~(k - 1 < i) /\ (k - 1) + 1 = k
      BY <2>2
    <3>. QED  BY <3>1, <1>1
  <2>. QED  BY <2>1, <2>2, <1>3
<1>4. ASSUME NEW j \in 1..n - 1, NEW k \in 1..n - 1, j < k
      PROVE  Fits(q[j], q[k])
  <2>1. CASE k < i
    BY <2>1, <1>1, <1>4, SMTT(60)
  <2>2. CASE ~(k < i) /\ j < i
    BY <2>2, <1>1, <1>4, SMTT(60)
  <2>3. CASE ~(j < i)
    BY <2>3, <1>1, <1>4
  <2>. QED  BY <2>1, <2>2, <2>3
<1>. QED  BY <1>1, <1>2, <1>3, <1>4 DEF Keeps

\* So does a queue that gives up nothing.
LEMMA SameKeeps ==
  ASSUME NEW s, \A j, k \in 1..Len(s) : j < k => Fits(s[j], s[k])
  PROVE  Keeps(s, s)
BY DEF Keeps

LEMMA LeastNumber ==
  ASSUME NEW T, T \subseteq Nat, T # {}
  PROVE  \E n \in T : \A m \in T : n <= m
<1>1. PICK n \in T : \A m \in T : ~(<<m, n>> \in OpToRel(<, Nat))
  BY NatLessThanWellFounded, WFMin, ZenonT(60)
<1>2. ASSUME NEW m \in T, m < n PROVE FALSE
  <2>1. <<m, n>> \in OpToRel(<, Nat)
    BY <1>2 DEF OpToRel
  <2>. QED  BY <1>1, <2>1, ZenonT(60)
<1>. QED
  <2>1. \A m \in T : n <= m
    BY <1>2
  <2>. QED  BY <2>1

LEMMA LeastIs ==
  ASSUME NEW I, I \subseteq Nat, I # {}
  PROVE  Min(I) \in I
<1>1. PICK n \in I : \A m \in I : n <= m
  BY LeastNumber
<1>. QED  BY <1>1 DEF Min

LEMMA OldestIs ==
  ASSUME NEW s \in Seq(Events), \E i \in DOMAIN s : IsAudio(s[i])
  PROVE  SelectInSeq(s, IsAudio) \in 1..Len(s) /\ IsAudio(s[SelectInSeq(s, IsAudio)])
<1>. DEFINE I == {i \in 1..Len(s) : IsAudio(s[i])}
<1>1. DOMAIN s = 1..Len(s) /\ Len(s) \in Nat
  BY LenProperties
<1>2. I # {} /\ I \subseteq Nat
  BY <1>1
<1>3. SelectInSeq(s, IsAudio) = Min(I)
  BY <1>2 DEF SelectInSeq
<1>4. Min(I) \in I
  <2>. HIDE DEF I
  <2>. QED  BY <1>2, LeastIs
<1>. QED  BY <1>3, <1>4

\* A full queue holds audio.
LEMMA FullHasAudio ==
  ASSUME NEW t, Buffered(t) >= AudioLimit,
         ~\E i \in DOMAIN t.values : IsAudio(t.values[i])
  PROVE  \E i \in DOMAIN t.delayed : IsAudio(t.delayed[i])
<1>. SUFFICES ASSUME ~\E i \in DOMAIN t.delayed : IsAudio(t.delayed[i]) PROVE FALSE
  OBVIOUS
<1>1. {i \in DOMAIN t.values : IsAudio(t.values[i])} = {}
  OBVIOUS
<1>2. {i \in DOMAIN t.delayed : IsAudio(t.delayed[i])} = {}
  OBVIOUS
<1>3. Buffered(t) = 0
  BY <1>1, <1>2, FS_EmptySet DEF Buffered
<1>. QED  BY <1>3, NativeAssumption

\* u is t without an audio event.
Dropped(t, u) ==
  /\ u \in Turns /\ u.life = t.life /\ u.current = t.current /\ u.reported = t.reported
  /\ \A x \in Events : Waits(u, x) => Waits(t, x)
  /\ \A x \in Events : Waits(t, x) /\ ~IsAudio(x) => Waits(u, x)

LEMMA DropTaking ==
  ASSUME NEW t, NEW r, Taking(t, r), Buffered(t) >= AudioLimit
  PROVE  Taking(DropOldestAudio(t), r) /\ Dropped(t, DropOldestAudio(t))
<1>. PICK u : u = DropOldestAudio(t)
  OBVIOUS
<1>1. t \in Turns /\ r \in Relays /\ ~t.ended /\ t.values \in Seq(Events) /\ t.delayed \in Seq(Events)
      /\ t.hand \in Events \cup {None, Ended}
  BY DEF Taking, Turns, QueueInv
<1>2. /\ u \in Turns /\ Beside(t, u) /\ u.hand = t.hand /\ u.reader = t.reader
      /\ \/ /\ u.delayed = t.delayed
            /\ \E i \in 1..Len(t.values) : IsAudio(t.values[i]) /\ Shorter(t.values, u.values, i)
         \/ /\ u.values = t.values
            /\ \E i \in 1..Len(t.delayed) : IsAudio(t.delayed[i]) /\ Shorter(t.delayed, u.delayed, i)
  <2>1. CASE \E i \in DOMAIN t.values : IsAudio(t.values[i])
    <3>1. PICK i \in 1..Len(t.values) : i = SelectInSeq(t.values, IsAudio) /\ IsAudio(t.values[i])
      BY <2>1, <1>1, OldestIs
    <3>2. PICK q \in Seq(Events) : q = RemoveAt(t.values, i) /\ Shorter(t.values, q, i)
      BY <1>1, RemoveAtShorter
    <3>3. u = [t EXCEPT !.values = q]
      BY <2>1, <3>1, <3>2 DEF DropOldestAudio
    <3>4. u \in Turns /\ u.values = q
      BY <1>1, <3>3 DEF Turns
    <3>5. Beside(t, u) /\ u.hand = t.hand /\ u.reader = t.reader /\ u.delayed = t.delayed
      BY <1>1, <3>3 DEF Turns, Beside
    <3>. QED  BY <3>1, <3>2, <3>4, <3>5
  <2>2. CASE ~\E i \in DOMAIN t.values : IsAudio(t.values[i])
    <3>0. \E i \in DOMAIN t.delayed : IsAudio(t.delayed[i])
      BY <2>2, FullHasAudio
    <3>1. PICK i \in 1..Len(t.delayed) : i = SelectInSeq(t.delayed, IsAudio) /\ IsAudio(t.delayed[i])
      BY <3>0, <1>1, OldestIs
    <3>2. PICK q \in Seq(Events) : q = RemoveAt(t.delayed, i) /\ Shorter(t.delayed, q, i)
      BY <1>1, RemoveAtShorter
    <3>3. u = [t EXCEPT !.delayed = q]
      BY <2>2, <3>1, <3>2 DEF DropOldestAudio
    <3>4. u \in Turns /\ u.delayed = q
      BY <1>1, <3>3 DEF Turns
    <3>5. Beside(t, u) /\ u.hand = t.hand /\ u.reader = t.reader /\ u.values = t.values
      BY <1>1, <3>3 DEF Turns, Beside
    <3>. QED  BY <3>1, <3>2, <3>4, <3>5
  <2>. QED  BY <2>1, <2>2
<1>3. u.values \in Seq(Events) /\ u.delayed \in Seq(Events)
  BY <1>2 DEF Turns
<1>0. /\ \A i, j \in 1..Len(t.values) : i < j => Fits(t.values[i], t.values[j])
      /\ \A i, j \in 1..Len(t.delayed) : i < j => Fits(t.delayed[i], t.delayed[j])
  BY DEF Taking, Ordered
<1>4. Keeps(t.values, u.values) /\ Keeps(t.delayed, u.delayed)
  <2>1. ASSUME u.delayed = t.delayed,
               NEW i \in 1..Len(t.values), IsAudio(t.values[i]), Shorter(t.values, u.values, i)
        PROVE  Keeps(t.values, u.values) /\ Keeps(t.delayed, u.delayed)
    BY <2>1, <1>0, <1>1, <1>3, ShorterKeeps, SameKeeps
  <2>2. ASSUME u.values = t.values,
               NEW i \in 1..Len(t.delayed), IsAudio(t.delayed[i]), Shorter(t.delayed, u.delayed, i)
        PROVE  Keeps(t.values, u.values) /\ Keeps(t.delayed, u.delayed)
    BY <2>2, <1>0, <1>1, <1>3, ShorterKeeps, SameKeeps
  <2>3. \/ /\ u.delayed = t.delayed
            /\ \E i \in 1..Len(t.values) : IsAudio(t.values[i]) /\ Shorter(t.values, u.values, i)
         \/ /\ u.values = t.values
            /\ \E i \in 1..Len(t.delayed) : IsAudio(t.delayed[i]) /\ Shorter(t.delayed, u.delayed, i)
    BY <1>2
  <2>4. CASE /\ u.delayed = t.delayed
             /\ \E i \in 1..Len(t.values) : IsAudio(t.values[i]) /\ Shorter(t.values, u.values, i)
    BY <2>1, <2>4
  <2>5. CASE /\ u.values = t.values
             /\ \E i \in 1..Len(t.delayed) : IsAudio(t.delayed[i]) /\ Shorter(t.delayed, u.delayed, i)
    BY <2>2, <2>5
  <2>. QED  BY <2>3, <2>4, <2>5
<1>5. Dropped(t, u)
  <2>1. ASSUME NEW x \in Events, Waits(u, x) PROVE Waits(t, x)
    <3>1. /\ \A j \in 1..Len(u.values) : \E k \in 1..Len(t.values) : u.values[j] = t.values[k]
          /\ \A j \in 1..Len(u.delayed) : \E k \in 1..Len(t.delayed) : u.delayed[j] = t.delayed[k]
          /\ u.hand = t.hand
      BY <1>2, <1>4 DEF Keeps
    <3>. QED  BY <2>1, <3>1 DEF Waits
  <2>2. ASSUME NEW x \in Events, Waits(t, x), ~IsAudio(x) PROVE Waits(u, x)
    <3>1. /\ \A k \in 1..Len(t.values) :
               IsAudio(t.values[k]) \/ \E j \in 1..Len(u.values) : u.values[j] = t.values[k]
          /\ \A k \in 1..Len(t.delayed) :
               IsAudio(t.delayed[k]) \/ \E j \in 1..Len(u.delayed) : u.delayed[j] = t.delayed[k]
          /\ u.hand = t.hand
      BY <1>2, <1>4 DEF Keeps
    <3>. QED  BY <2>2, <3>1 DEF Waits
  <2>. QED  BY <1>2, <2>1, <2>2 DEF Dropped, Beside
<1>6. QueueInv(u)
  <2>1. \A i \in 1..Len(t.values) : t.values[i] # Completed
    BY <1>1 DEF Taking, QueueInv
  <2>2. ASSUME NEW i \in 1..Len(u.values) PROVE u.values[i] # Completed
    <3>1. PICK k \in 1..Len(t.values) : u.values[i] = t.values[k]
      BY <1>4 DEF Keeps
    <3>. QED  BY <2>1, <3>1
  <2>3. ASSUME NEW i \in 1..Len(u.delayed) PROVE u.delayed[i] # Completed
    <3>1. PICK k \in 1..Len(t.delayed) : u.delayed[i] = t.delayed[k]
      BY <1>4 DEF Keeps
    <3>. QED  BY <3>1 DEF Taking, QueueInv
  <2>4. t.values = <<>> => u.values = <<>>
    <3>1. t.values = <<>> => Len(t.values) = 0
      OBVIOUS
    <3>. QED  BY <3>1, <1>2
  <2>. QED  BY <1>1, <1>2, <2>2, <2>3, <2>4 DEF Taking, QueueInv, Beside
<1>7. Ordered(u)
  <2>1. \A i \in 1..Len(u.values), j \in 1..Len(u.delayed) : Fits(u.values[i], u.delayed[j])
    <3>1. \A i \in 1..Len(t.values), j \in 1..Len(t.delayed) : Fits(t.values[i], t.delayed[j])
      BY DEF Taking, Ordered
    <3>2. ASSUME NEW i \in 1..Len(u.values), NEW j \in 1..Len(u.delayed)
          PROVE  Fits(u.values[i], u.delayed[j])
      <4>1. PICK k \in 1..Len(t.values) : u.values[i] = t.values[k]
        BY <1>4 DEF Keeps
      <4>2. PICK l \in 1..Len(t.delayed) : u.delayed[j] = t.delayed[l]
        BY <1>4 DEF Keeps
      <4>. QED  BY <3>1, <4>1, <4>2
    <3>. QED  BY <3>2
  <2>2. /\ \A i \in 1..Len(u.values) : Fits(u.hand, u.values[i])
        /\ \A i \in 1..Len(u.delayed) : Fits(u.hand, u.delayed[i])
    BY <1>2, <1>4 DEF Taking, Ordered, Keeps
  <2>3. ~Held => u.delayed = <<>>
    <3>1. t.delayed = <<>> => Len(t.delayed) = 0
      OBVIOUS
    <3>. QED  BY <3>1, <1>2 DEF Taking, Ordered
  <2>. QED  BY <1>4, <2>1, <2>2, <2>3 DEF Ordered, Keeps
<1>8. \A x \in Events \cup {None, Ended} : Follows(t, r, x) => Follows(u, r, x)
  <2>1. \A k \in Nat, f \in BOOLEAN : Waits(t, Target(k, f)) => Waits(u, Target(k, f))
    BY <1>5, Kinds, Shapes DEF Dropped
  <2>. QED  BY <2>1, <1>2, FollowsKept DEF Beside
<1>9. /\ Follows(u, r, u.hand)
      /\ \A i \in 1..Len(u.values) : Follows(u, r, u.values[i])
      /\ \A i \in 1..Len(u.delayed) : Follows(u, r, u.delayed[i])
  <2>1. /\ \A i \in 1..Len(t.values) : t.values[i] \in Events
        /\ \A i \in 1..Len(t.delayed) : t.delayed[i] \in Events
    BY <1>1
  <2>2. Follows(u, r, u.hand)
    BY <1>1, <1>2, <1>8 DEF Taking
  <2>3. ASSUME NEW i \in 1..Len(u.values) PROVE Follows(u, r, u.values[i])
    <3>1. PICK k \in 1..Len(t.values) : u.values[i] = t.values[k]
      BY <1>4 DEF Keeps
    <3>. QED  BY <1>8, <2>1, <3>1 DEF Taking
  <2>4. ASSUME NEW i \in 1..Len(u.delayed) PROVE Follows(u, r, u.delayed[i])
    <3>1. PICK k \in 1..Len(t.delayed) : u.delayed[i] = t.delayed[k]
      BY <1>4 DEF Keeps
    <3>. QED  BY <1>8, <2>1, <3>1 DEF Taking
  <2>. QED  BY <2>2, <2>3, <2>4
<1>11. Taking(u, r)
  BY <1>1, <1>2, <1>6, <1>7, <1>9 DEF Taking, Beside
<1>. QED  BY <1>5, <1>11

\* u is t with one more event that waits for the relay, some audio aside.
Offered(t, u, e) ==
  /\ u \in Turns /\ u.life = t.life /\ u.current = t.current /\ u.reported = t.reported
  /\ Waits(u, e)
  /\ \A x \in Events : Waits(t, x) /\ ~IsAudio(x) => Waits(u, x)

LEMMA OfferTaking ==
  ASSUME NEW t, NEW r, Taking(t, r), NEW e, Joins(t, r, e), NEW holdback \in BOOLEAN,
         holdback \/ ~Marked(e)
  PROVE  Taking(Offer(t, e, holdback), r) /\ Offered(t, Offer(t, e, holdback), e)
<1>. PICK room : room = IF Trims(t, e) THEN DropOldestAudio(t) ELSE t
  OBVIOUS
<1>0. t \in Turns /\ e \in Events /\ r \in Relays
  BY DEF Taking, Joins
<1>1. Taking(room, r) /\ Dropped(t, room)
  <2>1. CASE Trims(t, e)
    BY <2>1, DropTaking DEF Trims
  <2>2. CASE ~Trims(t, e)
    BY <2>2, <1>0 DEF Dropped
  <2>. QED  BY <2>1, <2>2
<1>2. Joins(room, r, e)
  <2>1. \A k \in Nat, f \in BOOLEAN : Waits(t, Target(k, f)) => Waits(room, Target(k, f))
    BY <1>1, Kinds, Shapes DEF Dropped
  <2>2. Follows(room, r, e)
    BY <2>1, <1>0, <1>1, FollowsKept DEF Joins, Dropped
  <2>. QED  BY <1>1, <2>2 DEF Joins, Dropped
<1>3. PICK u : u = Offer(t, e, holdback)
  OBVIOUS
<1>4. Taking(u, r) /\ Added(room, u, e)
  <2>1. CASE holdback /\ Held
    <3>1. u = [room EXCEPT !.delayed = Append(@, e)]
      BY <1>3, <2>1 DEF Offer
    <3>. QED  BY <3>1, <2>1, <1>1, <1>2, DelayTaking
  <2>2. CASE ~(holdback /\ Held)
    <3>1. u = Enqueue(room, e)
      BY <1>3, <2>2 DEF Offer
    <3>. QED  BY <3>1, <2>2, <1>1, <1>2, EnqueueTaking
  <2>. QED  BY <2>1, <2>2
<1>. QED  BY <1>0, <1>1, <1>3, <1>4 DEF Offered, Added, Dropped

\* Fields that no operation of the queue changes, but for the terminal event.
Apart(t, u) ==
  /\ u.life = t.life /\ u.suppressed = t.suppressed /\ u.terminal = t.terminal
  /\ u.reported = t.reported /\ u.current = t.current /\ u.rev = t.rev

LEMMA ValuesEdit ==
  ASSUME NEW t \in Turns, NEW v \in Seq(Events), NEW u, u = [t EXCEPT !.values = v]
  PROVE  /\ u \in Turns /\ u.values = v /\ Apart(t, u)
         /\ u.reader = t.reader /\ u.hand = t.hand
         /\ u.accepting = t.accepting /\ u.delayed = t.delayed /\ u.ended = t.ended
BY DEF Turns, Apart

LEMMA EndedEdit ==
  ASSUME NEW t \in Turns, NEW u, u = [t EXCEPT !.ended = TRUE]
  PROVE  /\ u \in Turns /\ u.ended /\ Apart(t, u)
         /\ u.reader = t.reader /\ u.hand = t.hand
         /\ u.accepting = t.accepting /\ u.delayed = t.delayed /\ u.values = t.values
BY DEF Turns, Apart

LEMMA StopInputIs == ASSUME NEW t \in Turns PROVE StopInput(t) \in Turns /\ Agree(t, StopInput(t))
BY DEF Turns, StopInput, Agree

\* The queue gives way to what ends the turn, or to nothing.
LEMMA DiscardIs ==
  ASSUME NEW t \in Turns, ~t.ended, NEW e \in {None, Error},
         NEW u, u = Discard(t, e)
  PROVE  /\ u \in Turns /\ u.ended /\ ~u.accepting /\ u.delayed = <<>>
         /\ u.values = IF e # None /\ t.reader # "waiting" THEN <<e>> ELSE <<>>
         /\ u.hand = IF t.reader # "waiting" THEN t.hand ELSE IF e = None THEN Ended ELSE e
         /\ u.reader = IF t.reader = "waiting" THEN "handed" ELSE t.reader
         /\ u.life = t.life /\ u.suppressed = t.suppressed /\ u.terminal = t.terminal
         /\ u.reported = t.reported /\ u.current = t.current /\ u.rev = t.rev
<1>a. PICK c : c = [t EXCEPT !.accepting = FALSE, !.delayed = <<>>, !.values = <<>>]
  OBVIOUS
<1>1. <<>> \in Seq(Events) /\ Error \in Events /\ <<Error>> \in Seq(Events) /\ <<Error>> # <<>>
      /\ Append(<<>>, Error) = <<Error>>
  BY Kinds
<1>2. /\ c \in Turns /\ ~c.ended /\ ~c.accepting /\ c.delayed = <<>> /\ c.values = <<>>
      /\ c.hand = t.hand /\ c.reader = t.reader
      /\ c.life = t.life /\ c.suppressed = t.suppressed /\ c.terminal = t.terminal
      /\ c.reported = t.reported /\ c.current = t.current /\ c.rev = t.rev
  BY <1>1, <1>a DEF Turns
<1>b. PICK d : d = IF e = None THEN c ELSE Enqueue(c, e)
  OBVIOUS
<1>3. /\ d \in Turns /\ ~d.accepting /\ d.delayed = <<>>
      /\ d.values = IF e # None /\ t.reader # "waiting" THEN <<e>> ELSE <<>>
      /\ d.hand = IF e # None /\ t.reader = "waiting" THEN e ELSE t.hand
      /\ d.reader = IF e # None /\ t.reader = "waiting" THEN "handed" ELSE t.reader
      /\ d.life = t.life /\ d.suppressed = t.suppressed /\ d.terminal = t.terminal
      /\ d.reported = t.reported /\ d.current = t.current /\ d.rev = t.rev
  <2>1. CASE e = None
    BY <2>1, <1>2, <1>b
  <2>2. CASE e = Error /\ t.reader = "waiting"
    <3>1. d = [c EXCEPT !.reader = "handed", !.hand = Error]
      BY <2>2, <1>2, <1>b, Kinds DEF Enqueue
    <3>2. d \in Turns /\ d.reader = "handed" /\ d.hand = Error /\ Apart(c, d)
            /\ d.values = c.values /\ d.accepting = c.accepting /\ d.delayed = c.delayed
      <4>1. c \in Turns /\ Error \in Events \cup {None, Ended}
        BY <1>1, <1>2
      <4>. QED  BY <3>1, <4>1 DEF Turns, Apart
    <3>. QED  BY <3>2, <2>2, <1>2, Kinds DEF Apart
  <2>3. CASE e = Error /\ t.reader # "waiting"
    <3>1. d = [c EXCEPT !.values = <<Error>>]
      BY <2>3, <1>1, <1>2, <1>b, Kinds DEF Enqueue
    <3>2. d \in Turns /\ d.values = <<Error>> /\ Apart(c, d)
            /\ d.reader = c.reader /\ d.hand = c.hand
            /\ d.accepting = c.accepting /\ d.delayed = c.delayed
      <4>1. c \in Turns /\ <<Error>> \in Seq(Events)
        BY <1>1, <1>2
      <4>. QED  BY <3>1, <4>1 DEF Turns, Apart
    <3>. QED  BY <3>2, <2>3, <1>2, Kinds DEF Apart
  <2>. QED  BY <2>1, <2>2, <2>3
<1>c. PICK x : x = [d EXCEPT !.ended = TRUE]
  OBVIOUS
<1>4. /\ x \in Turns /\ x.ended /\ ~x.accepting /\ x.delayed = <<>>
      /\ x.values = d.values /\ x.hand = d.hand /\ x.reader = d.reader
      /\ Apart(t, x)
  <2>1. d \in Turns
    BY <1>3
  <2>2. /\ x \in Turns /\ x.ended /\ x.accepting = d.accepting /\ x.delayed = d.delayed
        /\ x.values = d.values /\ x.hand = d.hand /\ x.reader = d.reader
        /\ Apart(d, x)
    BY <2>1, <1>c, EndedEdit
  <2>. QED  BY <2>2, <1>3 DEF Apart
<1>5. u = WakeEnded(x)
  BY <1>a, <1>b, <1>c DEF Discard
<1>6. CASE x.values = <<>> /\ x.reader = "waiting"
  <2>1. u = [x EXCEPT !.reader = "handed", !.hand = Ended]
    BY <1>5, <1>6 DEF WakeEnded
  <2>2. e = None /\ t.reader = "waiting"
    BY <1>3, <1>4, <1>6
  <2>3. x \in Turns
    BY <1>4
  <2>4. /\ u \in Turns /\ u.reader = "handed" /\ u.hand = Ended
        /\ u.ended = x.ended /\ u.accepting = x.accepting /\ u.delayed = x.delayed
        /\ u.values = x.values /\ Apart(x, u)
    <3>1. Ended \in Events \cup {None, Ended}
      OBVIOUS
    <3>. QED  BY <2>1, <2>3, <3>1 DEF Turns, Apart
  <2>. QED  BY <2>2, <2>4, <1>4, <1>6 DEF Apart
<1>7. CASE ~(x.values = <<>> /\ x.reader = "waiting")
  <2>1. u = x
    BY <1>5, <1>7 DEF WakeEnded
  <2>2. ~(e = None /\ t.reader = "waiting")
    BY <1>3, <1>4, <1>7
  <2>3. e # None /\ t.reader = "waiting" => d.hand = e /\ d.reader = "handed"
    BY <1>3
  <2>. QED  BY <2>1, <2>2, <2>3, <1>3, <1>4 DEF Apart
<1>. QED  BY <1>6, <1>7

\* A frame in the relay's hands has its text before it.
LEMMA HandIsShown ==
  ASSUME NEW t, NEW r, Ordered(t), Follows(t, r, t.hand), Whole(t.hand), t \in Turns
  PROVE  t.hand.rev <= r.last
<1>1. t.hand \in Events \cup {None, Ended} /\ Marked(t.hand)
  BY DEF Turns, Marked
<1>2. t.hand.rev \in Nat
  BY <1>1, MarkedRev
<1>3. ASSUME NEW f \in BOOLEAN, Waits(t, Target(t.hand.rev, f)) PROVE FALSE
  <2>1. ~Fits(t.hand, Target(t.hand.rev, f))
    BY <1>1, <1>2, Shapes DEF Fits, Target
  <2>2. t.hand # Target(t.hand.rev, f)
    BY Shapes
  <2>. QED  BY <1>3, <2>1, <2>2 DEF Waits, Ordered
<1>. QED  BY <1>3 DEF Follows, Shown

LEMMA FailInv ==
  ASSUME NEW t, NEW r, Taking(t, r), NEW u, u = Fail(t)
  PROVE  /\ TurnInv(u, r, FALSE) /\ Told(u, r) /\ u.life = "failed"
         /\ t.reader # "waiting" => u.reader = t.reader
<1>1. PICK s : s = [StopInput(t) EXCEPT !.life = "failed"]
  OBVIOUS
<1>2. /\ s \in Turns /\ ~s.ended /\ s.reader = t.reader /\ s.hand = t.hand /\ s.life = "failed"
      /\ s.suppressed = t.suppressed /\ s.terminal = t.terminal
      /\ s.reported = t.reported /\ s.current = t.current /\ s.rev = t.rev
  <2>1. PICK q \in Turns : q = StopInput(t) /\ Agree(t, q)
    BY StopInputIs DEF Taking
  <2>2. ~t.ended
    BY DEF Taking, QueueInv
  <2>3. s = [q EXCEPT !.life = "failed"]
    BY <1>1, <2>1
  <2>4. /\ s \in Turns /\ s.ended = q.ended /\ s.reader = q.reader /\ s.hand = q.hand
        /\ s.life = "failed" /\ s.suppressed = q.suppressed /\ s.terminal = q.terminal
        /\ s.reported = q.reported /\ s.current = q.current /\ s.rev = q.rev
    BY <2>1, <2>3 DEF Turns, Lives
  <2>. QED  BY <2>1, <2>2, <2>4 DEF Agree
<1>3. u = Discard(s, Error)
  BY <1>1 DEF Fail, Taking
<1>4. /\ u \in Turns /\ u.ended /\ ~u.accepting /\ u.delayed = <<>>
      /\ u.values = IF t.reader # "waiting" THEN <<Error>> ELSE <<>>
      /\ u.hand = IF t.reader # "waiting" THEN t.hand ELSE Error
      /\ u.reader = IF t.reader = "waiting" THEN "handed" ELSE t.reader
      /\ u.life = "failed" /\ ~u.suppressed /\ u.terminal = None
      /\ u.reported = t.reported /\ u.current = t.current /\ u.rev = t.rev
  <2>1. Error # None /\ Error \in {None, Error}
    BY Kinds
  <2>2. ~t.suppressed /\ t.terminal = None
    BY DEF Taking, QueueInv
  <2>. QED  BY <1>2, <1>3, <2>1, <2>2, DiscardIs
<1>5. t.hand # Ended /\ t.hand # Completed /\ t \in Turns /\ r \in Relays
      /\ (t.reader = "handed" <=> t.hand # None)
  BY DEF Taking, QueueInv
<1>6. /\ Len(u.delayed) = 0 /\ Len(u.values) \in 0..1
      /\ \A i \in 1..Len(u.values) : i = 1 /\ u.values[i] = Error
  BY <1>4
<1>7. Waits(u, Error)
  BY <1>4 DEF Waits
<1>8. QueueInv(u)
  BY <1>4, <1>5, <1>6, Kinds DEF QueueInv
<1>9. LifeInv(u, FALSE)
  BY <1>4 DEF LifeInv
<1>10. EndInv(u, r, FALSE)
  BY <1>4, <1>7, Kinds DEF Taking, EndInv, Told
<1>11. Ordered(u)
  BY <1>4, <1>6, Kinds DEF Ordered, Fits
<1>12. Follows(u, r, Error)
  BY Kinds DEF Follows, Within, Marked
<1>13. Follows(u, r, u.hand)
  <2>1. CASE u.hand = Error
    BY <2>1, <1>12
  <2>2. CASE u.hand = t.hand
    <3>1. Within(u, r, u.hand)
      BY <2>2, <1>4 DEF Taking, Follows, Within
    <3>2. Whole(u.hand) => Shown(u, r, u.hand.rev)
      BY <2>2, <1>5, HandIsShown DEF Taking, Shown
    <3>. QED  BY <3>1, <3>2 DEF Follows
  <2>. QED  BY <2>1, <2>2, <1>4
<1>14. FrameInv(u, r)
  BY <1>4, <1>6, <1>11, <1>12, <1>13 DEF Taking, FrameInv
<1>. QED  BY <1>4, <1>5, <1>7, <1>8, <1>9, <1>10, <1>14 DEF TurnInv, LooseInv, Drained, Told

LEMMA StopInv ==
  ASSUME NEW t, NEW r, Taking(t, r), NEW u, u = Stop(t), NEW cut \in BOOLEAN
  PROVE  TurnInv(u, r, cut) /\ u.life = "cancelled"
<1>1. PICK s : s = [StopInput(t) EXCEPT !.life = "cancelled", !.suppressed = TRUE, !.closeSent = TRUE]
  OBVIOUS
<1>2. /\ s \in Turns /\ ~s.ended /\ s.reader = t.reader /\ s.hand = t.hand
      /\ s.life = "cancelled" /\ s.suppressed /\ s.terminal = t.terminal
      /\ s.reported = t.reported /\ s.current = t.current /\ s.rev = t.rev
  <2>1. PICK q \in Turns : q = StopInput(t) /\ Agree(t, q)
    BY StopInputIs DEF Taking
  <2>2. ~t.ended
    BY DEF Taking, QueueInv
  <2>3. s = [q EXCEPT !.life = "cancelled", !.suppressed = TRUE, !.closeSent = TRUE]
    BY <1>1, <2>1
  <2>4. /\ s \in Turns /\ s.ended = q.ended /\ s.reader = q.reader /\ s.hand = q.hand
        /\ s.life = "cancelled" /\ s.suppressed /\ s.terminal = q.terminal
        /\ s.reported = q.reported /\ s.current = q.current /\ s.rev = q.rev
    BY <2>1, <2>3, ZenonT(60) DEF Turns, Lives
  <2>. QED  BY <2>1, <2>2, <2>4 DEF Agree
<1>3. u = Discard(s, None)
  BY <1>1 DEF Stop, Taking
<1>4. /\ u \in Turns /\ u.ended /\ ~u.accepting /\ u.delayed = <<>> /\ u.values = <<>>
      /\ u.hand = IF t.reader # "waiting" THEN t.hand ELSE Ended
      /\ u.reader = IF t.reader = "waiting" THEN "handed" ELSE t.reader
      /\ u.life = "cancelled" /\ u.suppressed /\ u.terminal = None
  <2>2. t.terminal = None
    BY DEF Taking, QueueInv
  <2>. QED  BY <1>2, <1>3, <2>2, DiscardIs
<1>5. t.hand # Ended /\ t.hand # Completed /\ t \in Turns /\ r \in Relays
      /\ (t.reader = "handed" <=> t.hand # None)
  BY DEF Taking, QueueInv
<1>6. Len(u.delayed) = 0 /\ Len(u.values) = 0
  BY <1>4
<1>8. QueueInv(u)
  BY <1>4, <1>5, <1>6, Kinds DEF QueueInv
<1>9. LifeInv(u, cut)
  BY <1>4 DEF LifeInv
<1>10. EndInv(u, r, cut)
  BY <1>4 DEF Taking, EndInv
<1>. QED  BY <1>4, <1>5, <1>8, <1>9, <1>10 DEF TurnInv, LooseInv, Drained

\* A turn that takes events or has failed.
Sound(t, r) == TurnInv(t, r, FALSE) /\ t.life \in {"active", "failed"}

LEMMA SoundIs ==
  ASSUME NEW t, NEW r
  PROVE  /\ Taking(t, r) /\ Tells(t, r) /\ Shown(t, r, t.current) => Sound(t, r)
         /\ Sound(t, r) /\ t.life = "active"
              => Taking(t, r) /\ Tells(t, r) /\ Shown(t, r, t.current)
BY TakingIs DEF Sound, Taking

LEMMA AgreeSound ==
  ASSUME NEW t, NEW u \in Turns, NEW r, Agree(t, u), Sound(t, r)
  PROVE  Sound(u, r)
BY AgreeInv DEF Sound, TurnInv, Agree

LEMMA WaitsEvents ==
  ASSUME NEW t \in Turns, NEW r, Taking(t, r), NEW x \in Events, Waits(t, x)
  PROVE  Follows(t, r, x)
BY DEF Taking, Waits

LEMMA QueueOtherInv ==
  ASSUME NEW t, NEW r, Taking(t, r), NEW e, Joins(t, r, e), NEW holdback \in BOOLEAN,
         holdback \/ ~Marked(e), ~IsAudio(e), NEW u, u = QueueOther(t, e, holdback)
  PROVE  \/ TurnInv(u, r, FALSE) /\ Told(u, r) /\ u.life = "failed"
         \/ Taking(u, r) /\ Offered(t, u, e)
<1>1. t.life = "active"
  BY DEF Taking
<1>2. CASE t.counted >= EventLimit
  <2>1. u = Fail(t)
    BY <1>1, <1>2 DEF QueueOther
  <2>. QED  BY <2>1, FailInv
<1>3. CASE ~(t.counted >= EventLimit)
  <2>1. PICK o : o = Offer(t, e, holdback)
    OBVIOUS
  <2>2. Taking(o, r) /\ Offered(t, o, e) /\ o \in Turns
    BY <2>1, OfferTaking DEF Offered
  <2>3. u = [o EXCEPT !.counted = @ + 1]
    BY <1>1, <1>3, <2>1 DEF QueueOther, Count
  <2>4. u \in Turns /\ Agree(o, u)
    BY <2>2, <2>3 DEF Turns, Agree
  <2>5. Taking(u, r)
    BY <2>2, <2>4, AgreeTaking
  <2>6. Offered(t, u, e)
    BY <2>2, <2>4 DEF Offered, Agree, Waits
  <2>. QED  BY <2>5, <2>6
<1>. QED  BY <1>2, <1>3

LEMMA ErrorJoins == ASSUME NEW t, NEW r PROVE Joins(t, r, Error)
BY Kinds DEF Joins, Follows, Within, Fits, Marked

LEMMA ErrorInv ==
  ASSUME NEW t, NEW r, Taking(t, r), Shown(t, r, t.current),
         NEW u, u = QueueOther(t, Error, FALSE)
  PROVE  Sound(u, r) /\ Told(u, r)
<1>1. \/ TurnInv(u, r, FALSE) /\ Told(u, r) /\ u.life = "failed"
      \/ Taking(u, r) /\ Offered(t, u, Error)
  BY ErrorJoins, QueueOtherInv, Kinds, Shapes
<1>2. CASE TurnInv(u, r, FALSE) /\ Told(u, r) /\ u.life = "failed"
  BY <1>2 DEF Sound
<1>3. CASE Taking(u, r) /\ Offered(t, u, Error)
  <2>1. t.current \in Nat /\ u.current = t.current
    BY <1>3 DEF Taking, Turns, Offered
  <2>2. \A f \in BOOLEAN : Waits(t, Target(t.current, f)) => Waits(u, Target(t.current, f))
    BY <1>3, <2>1, Kinds, Shapes DEF Offered
  <2>3. Shown(u, r, u.current)
    BY <2>1, <2>2 DEF Shown
  <2>. QED  BY <1>3, <2>3, SoundIs DEF Told, Tells, Offered
<1>. QED  BY <1>1, <1>2, <1>3

LEMMA ReviseInv ==
  ASSUME NEW t, NEW r, Taking(t, r), NEW f \in BOOLEAN, NEW u, u = Revise(t, f)
  PROVE  Sound(u, r)
<1>1. PICK k : k = t.rev + 1
  OBVIOUS
<1>2. PICK s : s = [t EXCEPT !.rev = @ + 1, !.final = @ \/ f, !.current = t.rev + 1,
                             !.reported = FALSE, !.valid = TRUE]
  OBVIOUS
<1>3. t \in Turns /\ r \in Relays /\ t.rev \in Nat /\ k \in Nat /\ t.current = t.rev /\ r.last \in Nat
      /\ r.last <= t.current
  BY <1>1 DEF Taking, Turns, Relays
<1>4. /\ s \in Turns /\ s.rev = k /\ s.current = k /\ s.reported = FALSE
      /\ s.life = t.life /\ s.suppressed = t.suppressed /\ s.accepting = t.accepting
      /\ s.ended = t.ended /\ s.terminal = t.terminal /\ s.values = t.values
      /\ s.delayed = t.delayed /\ s.reader = t.reader /\ s.hand = t.hand
  BY <1>1, <1>2, <1>3, ZenonT(60) DEF Turns
<1>5. \A x : Waits(s, x) <=> Waits(t, x)
  BY <1>4 DEF Waits
<1>6. \A x \in Events \cup {None, Ended} : Follows(t, r, x) => Follows(s, r, x)
  <2>1. ASSUME NEW x \in Events \cup {None, Ended}, Follows(t, r, x) PROVE Follows(s, r, x)
    <3>1. Whole(x) => Shown(s, r, x.rev)
      BY <1>5, <2>1 DEF Follows, Shown
    <3>2. Marked(x) => x.rev \in Nat
      BY MarkedRev
    <3>3. Within(s, r, x)
      BY <1>1, <1>3, <1>4, <2>1, <3>2 DEF Follows, Within
    <3>. QED  BY <3>1, <3>3 DEF Follows
  <2>. QED  BY <2>1
<1>7. Taking(s, r)
  <2>1. QueueInv(s) /\ Ordered(s)
    BY <1>4 DEF Taking, QueueInv, Ordered
  <2>2. /\ t.hand \in Events \cup {None, Ended}
        /\ \A i \in 1..Len(t.values) : t.values[i] \in Events
        /\ \A i \in 1..Len(t.delayed) : t.delayed[i] \in Events
    BY <1>3 DEF Turns
  <2>3. /\ Follows(s, r, s.hand)
        /\ \A i \in 1..Len(s.values) : Follows(s, r, s.values[i])
        /\ \A i \in 1..Len(s.delayed) : Follows(s, r, s.delayed[i])
    BY <1>4, <1>6, <2>2 DEF Taking
  <2>4. s.current = s.rev /\ r.last <= s.current
    BY <1>1, <1>3, <1>4
  <2>. QED  BY <1>4, <2>1, <2>3, <2>4 DEF Taking
<1>8. Joins(s, r, Target(k, f))
  <2>1. Follows(s, r, Target(k, f))
    BY <1>1, <1>3, <1>4, Shapes DEF Follows, Within
  <2>2. ASSUME NEW x \in Events, Waits(s, x) PROVE Fits(x, Target(k, f))
    <3>1. Follows(t, r, x)
      BY <1>3, <1>5, <2>2, WaitsEvents
    <3>2. Marked(x) => x.rev \in Nat /\ x.rev <= t.current
      BY <3>1, MarkedRev DEF Follows, Within
    <3>3. Marked(x) => x.rev < k
      BY <3>2, <1>1, <1>3
    <3>. QED  BY <3>2, <3>3, <1>3, Shapes DEF Fits
  <2>. QED  BY <1>3, <2>1, <2>2, Kinds DEF Joins
<1>9. u = QueueOther(s, Target(k, f), TRUE)
  BY <1>1, <1>2 DEF Revise
<1>10. \/ TurnInv(u, r, FALSE) /\ Told(u, r) /\ u.life = "failed"
       \/ Taking(u, r) /\ Offered(s, u, Target(k, f))
  BY <1>7, <1>8, <1>9, QueueOtherInv, Shapes
<1>11. CASE TurnInv(u, r, FALSE) /\ Told(u, r) /\ u.life = "failed"
  BY <1>11 DEF Sound
<1>12. CASE Taking(u, r) /\ Offered(s, u, Target(k, f))
  <2>1. Shown(u, r, u.current)
    BY <1>4, <1>12 DEF Shown, Offered
  <2>2. Tells(u, r)
    BY <1>4, <1>12 DEF Tells, Offered
  <2>. QED  BY <1>12, <2>1, <2>2, SoundIs
<1>. QED  BY <1>10, <1>11, <1>12

LEMMA QueueAudioInv ==
  ASSUME NEW t, NEW r, Taking(t, r), Tells(t, r), Shown(t, r, t.current),
         NEW k \in Nat, NEW tail \in BOOLEAN,
         ~tail => k = t.current, NEW u, u = QueueAudio(t, Audio(k, tail))
  PROVE  Sound(u, r)
<1>1. PICK e : e = Audio(k, tail)
  OBVIOUS
<1>2. /\ e \in Events /\ e # Completed /\ e.rev = k /\ e.kind # "target"
      /\ (Marked(e) <=> ~tail) /\ (Whole(e) <=> ~tail)
  BY <1>1, Kinds, Shapes
<1>3. t \in Turns /\ r \in Relays /\ t.current \in Nat /\ r.last <= t.current /\ t.life = "active"
  BY DEF Taking, Turns
<1>4. Joins(t, r, e)
  <2>1. Follows(t, r, e)
    BY <1>2, <1>3 DEF Follows, Within
  <2>2. ASSUME NEW x \in Events, Waits(t, x) PROVE Fits(x, e)
    <3>1. Follows(t, r, x)
      BY <1>3, <2>2, WaitsEvents
    <3>. QED  BY <1>2, <3>1 DEF Fits, Follows, Within
  <2>. QED  BY <1>2, <2>1, <2>2 DEF Joins
<1>5. PICK o : o = Offer(t, e, TRUE)
  OBVIOUS
<1>6. Taking(o, r) /\ Offered(t, o, e)
  BY <1>4, <1>5, OfferTaking
<1>7. Shown(o, r, o.current)
  <2>1. \A f \in BOOLEAN : Waits(t, Target(t.current, f)) => Waits(o, Target(t.current, f))
    BY <1>3, <1>6, Kinds, Shapes DEF Offered
  <2>. QED  BY <2>1, <1>6 DEF Shown, Offered
<1>8. CASE Trims(t, e)
  <2>1. u = QueueOther(o, Error, FALSE)
    BY <1>1, <1>3, <1>5, <1>8 DEF QueueAudio
  <2>. QED  BY <2>1, <1>6, <1>7, ErrorInv
<1>9. CASE ~Trims(t, e)
  <2>1. u = o
    BY <1>1, <1>3, <1>5, <1>9 DEF QueueAudio
  <2>2. Tells(o, r)
    BY <1>6, Kinds, Shapes DEF Tells, Told, Offered
  <2>. QED  BY <2>1, <2>2, <1>6, <1>7, SoundIs
<1>. QED  BY <1>8, <1>9

LEMMA EmitInv ==
  ASSUME NEW t, NEW r, Sound(t, r), NEW k \in Nat, NEW tail \in BOOLEAN,
         t.life = "active" /\ ~tail => k = t.current, NEW u, u = EmitAudioFrame(t, k, tail)
  PROVE  Sound(u, r)
<1>1. PICK s : s = [t EXCEPT !.valid = TRUE]
  OBVIOUS
<1>2. t \in Turns
  BY DEF Sound, TurnInv, LooseInv
<1>3. s \in Turns /\ Agree(t, s)
  BY <1>1, <1>2 DEF Turns, Agree
<1>4. Sound(s, r) /\ s.life = t.life /\ s.current = t.current
  BY <1>3, AgreeSound DEF Agree
<1>5. u = QueueAudio(s, Audio(k, tail))
  BY <1>1 DEF EmitAudioFrame
<1>6. CASE s.life = "active"
  BY <1>4, <1>5, <1>6, SoundIs, QueueAudioInv
<1>7. CASE s.life # "active"
  <2>1. u = s
    BY <1>5, <1>7 DEF QueueAudio
  <2>. QED  BY <1>4, <2>1
<1>. QED  BY <1>6, <1>7

\* Output without a text to name: the turn reports it, once until a text comes.
LEMMA TargetUnknownInv ==
  ASSUME NEW t, NEW r, Sound(t, r), t.life = "active", NEW u, u = TargetUnknown(t)
  PROVE  Sound(u, r)
<1>1. PICK s : s = [t EXCEPT !.part = 0, !.reported = TRUE]
  OBVIOUS
<1>2. t \in Turns /\ Taking(t, r) /\ Tells(t, r) /\ Shown(t, r, t.current)
  BY SoundIs DEF Taking
<1>3. /\ s \in Turns /\ s.reported = TRUE
      /\ s.life = t.life /\ s.suppressed = t.suppressed /\ s.accepting = t.accepting
      /\ s.ended = t.ended /\ s.terminal = t.terminal /\ s.values = t.values
      /\ s.delayed = t.delayed /\ s.reader = t.reader /\ s.hand = t.hand
      /\ s.current = t.current /\ s.rev = t.rev
  BY <1>1, <1>2 DEF Turns
<1>4. \A x : Waits(s, x) <=> Waits(t, x)
  BY <1>3 DEF Waits
<1>5. Taking(s, r) /\ Shown(s, r, s.current)
  <2>1. QueueInv(s) /\ Ordered(s)
    BY <1>2, <1>3 DEF Taking, QueueInv, Ordered
  <2>2. \A x : Follows(s, r, x) <=> Follows(t, r, x)
    BY <1>3, <1>4 DEF Follows, Within, Shown
  <2>3. Shown(s, r, s.current)
    BY <1>2, <1>3, <1>4 DEF Shown
  <2>. QED  BY <1>2, <1>3, <2>1, <2>2, <2>3 DEF Taking
<1>6. CASE t.reported
  <2>1. u = s
    BY <1>1, <1>6 DEF TargetUnknown
  <2>2. Tells(s, r)
    BY <1>2, <1>4, <1>6 DEF Tells, Told
  <2>. QED  BY <2>1, <2>2, <1>5, SoundIs
<1>7. CASE ~t.reported
  <2>1. u = QueueOther(s, Error, FALSE)
    BY <1>1, <1>7 DEF TargetUnknown
  <2>. QED  BY <2>1, <1>5, ErrorInv
<1>. QED  BY <1>6, <1>7

LEMMA AcceptOutputAudioInv ==
  ASSUME NEW t, NEW r, Sound(t, r), t.life = "active", NEW whole \in BOOLEAN,
         NEW fragment \in BOOLEAN, NEW u, u = AcceptOutputAudio(t, whole, fragment)
  PROVE  Sound(u, r)
<1>1. t \in Turns /\ Taking(t, r) /\ Shown(t, r, t.current) /\ t.current \in Nat
  BY SoundIs DEF Taking, Turns
<1>2. CASE t.current = 0 \/ (t.part # 0 /\ t.part # t.current)
  <2>1. u = TargetUnknown(t)
    BY <1>2 DEF AcceptOutputAudio
  <2>. QED  BY <2>1, TargetUnknownInv
<1>3. CASE ~(t.current = 0 \/ (t.part # 0 /\ t.part # t.current))
  <2>1. PICK s : s = [t EXCEPT !.reported = FALSE]
    OBVIOUS
  <2>2. /\ s \in Turns /\ s.reported = FALSE
        /\ s.life = t.life /\ s.suppressed = t.suppressed /\ s.accepting = t.accepting
        /\ s.ended = t.ended /\ s.terminal = t.terminal /\ s.values = t.values
        /\ s.delayed = t.delayed /\ s.reader = t.reader /\ s.hand = t.hand
        /\ s.current = t.current /\ s.rev = t.rev
    BY <1>1, <2>1 DEF Turns
  <2>3. \A x : Waits(s, x) <=> Waits(t, x)
    BY <2>2 DEF Waits
  <2>4. Sound(s, r)
    <3>1. QueueInv(s) /\ Ordered(s)
      BY <1>1, <2>2 DEF Taking, QueueInv, Ordered
    <3>2. \A x : Follows(s, r, x) <=> Follows(t, r, x)
      BY <2>2, <2>3 DEF Follows, Within, Shown
    <3>3. Shown(s, r, s.current)
      BY <1>1, <2>2, <2>3 DEF Shown
    <3>4. Taking(s, r)
      BY <1>1, <2>2, <3>1, <3>2 DEF Taking
    <3>. QED  BY <2>2, <3>3, <3>4, SoundIs DEF Tells
  <2>5. PICK p : p = IF whole THEN EmitAudioFrame(s, t.current, FALSE) ELSE s
    OBVIOUS
  <2>6. Sound(p, r)
    <3>1. CASE whole
      <4>1. p = EmitAudioFrame(s, t.current, FALSE)
        BY <2>5, <3>1
      <4>. QED  BY <4>1, <1>1, <2>2, <2>4, EmitInv
    <3>2. CASE ~whole
      BY <2>4, <2>5, <3>2
    <3>. QED  BY <3>1, <3>2
  <2>7. PICK k \in Nat : k = IF fragment THEN t.current ELSE 0
    BY <1>1
  <2>8. u = [p EXCEPT !.part = k]
    BY <1>3, <2>1, <2>5, <2>7 DEF AcceptOutputAudio
  <2>9. u \in Turns /\ Agree(p, u)
    <3>1. p \in Turns
      BY <2>6 DEF Sound, TurnInv, LooseInv
    <3>. QED  BY <2>8, <3>1 DEF Turns, Agree
  <2>. QED  BY <2>6, <2>9, AgreeSound
<1>. QED  BY <1>2, <1>3

LEMMA FinishOutputAudioInv ==
  ASSUME NEW t, NEW r, Sound(t, r), NEW u, u = FinishOutputAudio(t)
  PROVE  Sound(u, r)
<1>1. t \in Turns /\ t.part \in Nat
  BY DEF Sound, TurnInv, LooseInv, Turns
<1>2. CASE t.part = 0
  BY <1>2 DEF FinishOutputAudio
<1>3. CASE t.part # 0
  <2>1. PICK s : s = [t EXCEPT !.part = 0]
    OBVIOUS
  <2>2. s \in Turns /\ Agree(t, s)
    BY <1>1, <2>1 DEF Turns, Agree
  <2>3. Sound(s, r)
    BY <2>2, AgreeSound
  <2>4. u = EmitAudioFrame(s, t.part, TRUE)
    BY <1>3, <2>1 DEF FinishOutputAudio
  <2>. QED  BY <1>1, <2>3, <2>4, EmitInv
<1>. QED  BY <1>2, <1>3

LEMMA FinalizeTranscriptsInv ==
  ASSUME NEW t, NEW r, Sound(t, r), t.life = "active", NEW u, u = FinalizeTranscripts(t)
  PROVE  Sound(u, r)
BY SoundIs, ReviseInv DEF FinalizeTranscripts

LEMMA PublishTranscriptInv ==
  ASSUME NEW t, NEW r, Sound(t, r), t.life = "active", NEW final \in BOOLEAN,
         NEW u, u = PublishTranscript(t, final)
  PROVE  Sound(u, r)
<1>1. PICK s : s = [t EXCEPT !.text = TRUE]
  OBVIOUS
<1>2. t \in Turns
  BY DEF Sound, TurnInv, LooseInv
<1>3. s \in Turns /\ Agree(t, s)
  BY <1>1, <1>2 DEF Turns, Agree
<1>4. Sound(s, r) /\ s.life = "active"
  BY <1>3, AgreeSound DEF Agree
<1>5. u = s \/ u = Revise(s, final)
  BY <1>1 DEF PublishTranscript
<1>. QED  BY <1>4, <1>5, SoundIs, ReviseInv

\* The queue ends when nothing is held back any more: its terminal event comes last.
LEMMA DrainIs ==
  ASSUME NEW t \in Turns, ~t.accepting, ~t.ended, t.delayed = <<>>,
         t.reader = "waiting" => t.values = <<>>,
         NEW u, u = FinishWhenDrained(t)
  PROVE  /\ u \in Turns /\ u.ended /\ ~u.accepting /\ u.delayed = <<>> /\ u.terminal = None
         /\ u.values = IF t.terminal = Completed /\ t.reader # "waiting"
                       THEN Append(t.values, Completed) ELSE t.values
         /\ u.hand = IF t.reader # "waiting" THEN t.hand
                     ELSE IF t.terminal = None THEN Ended ELSE Completed
         /\ u.reader = IF t.reader = "waiting" THEN "handed" ELSE t.reader
         /\ u.life = t.life /\ u.suppressed = t.suppressed
         /\ u.reported = t.reported /\ u.current = t.current /\ u.rev = t.rev
<1>1. PICK d : d = IF t.terminal = None THEN t ELSE Enqueue(t, t.terminal)
  OBVIOUS
<1>2. t.terminal \in {None, Completed} /\ t.values \in Seq(Events) /\ t.reader \in {"opening", "reading", "waiting", "handed", "done"}
  BY DEF Turns
<1>3. /\ d \in Turns /\ ~d.accepting /\ d.delayed = <<>>
      /\ d.values = IF t.terminal = Completed /\ t.reader # "waiting"
                    THEN Append(t.values, Completed) ELSE t.values
      /\ d.hand = IF t.terminal = Completed /\ t.reader = "waiting" THEN Completed ELSE t.hand
      /\ d.reader = IF t.terminal = Completed /\ t.reader = "waiting" THEN "handed" ELSE t.reader
      /\ Apart(t, d)
  <2>1. CASE t.terminal = None
    BY <2>1, <1>1, Kinds DEF Apart
  <2>2. CASE t.terminal = Completed /\ t.reader = "waiting"
    <3>1. d = [t EXCEPT !.reader = "handed", !.hand = Completed]
      BY <2>2, <1>1, Kinds DEF Enqueue
    <3>2. Completed \in Events \cup {None, Ended}
      BY Kinds
    <3>3. d \in Turns /\ d.reader = "handed" /\ d.hand = Completed /\ Apart(t, d)
            /\ d.values = t.values /\ d.accepting = t.accepting /\ d.delayed = t.delayed
      BY <3>1, <3>2 DEF Turns, Apart
    <3>. QED  BY <3>3, <2>2
  <2>3. CASE t.terminal = Completed /\ t.reader # "waiting"
    <3>0. Append(t.values, Completed) \in Seq(Events)
      BY <1>2, Kinds
    <3>1. PICK v \in Seq(Events) : v = Append(t.values, Completed)
      BY <3>0
    <3>2. d = [t EXCEPT !.values = v]
      BY <2>3, <3>1, <1>1, Kinds DEF Enqueue
    <3>3. d \in Turns /\ d.values = v /\ Apart(t, d)
            /\ d.reader = t.reader /\ d.hand = t.hand
            /\ d.accepting = t.accepting /\ d.delayed = t.delayed
      BY <3>2, ValuesEdit
    <3>. QED  BY <3>1, <3>3, <2>3
  <2>. QED  BY <2>1, <2>2, <2>3, <1>2
<1>4. PICK x : x = [d EXCEPT !.terminal = None, !.ended = TRUE]
  OBVIOUS
<1>5. /\ x \in Turns /\ x.ended /\ x.terminal = None /\ x.accepting = d.accepting
      /\ x.delayed = d.delayed /\ x.values = d.values /\ x.hand = d.hand /\ x.reader = d.reader
      /\ x.life = d.life /\ x.suppressed = d.suppressed
      /\ x.reported = d.reported /\ x.current = d.current /\ x.rev = d.rev
  <2>1. d \in Turns
    BY <1>3
  <2>. QED  BY <2>1, <1>4 DEF Turns
<1>6. u = WakeEnded(x)
  BY <1>1, <1>4 DEF FinishWhenDrained
<1>7. CASE x.values = <<>> /\ x.reader = "waiting"
  <2>1. u = [x EXCEPT !.reader = "handed", !.hand = Ended]
    BY <1>6, <1>7 DEF WakeEnded
  <2>2. t.reader = "waiting" /\ t.terminal = None /\ None # Completed
    BY <1>2, <1>3, <1>5, <1>7, Kinds
  <2>3. x \in Turns /\ Ended \in Events \cup {None, Ended}
    BY <1>5
  <2>4. /\ u \in Turns /\ u.reader = "handed" /\ u.hand = Ended /\ Apart(x, u)
        /\ u.values = x.values /\ u.accepting = x.accepting /\ u.delayed = x.delayed
        /\ u.ended = x.ended
    BY <2>1, <2>3 DEF Turns, Apart
  <2>. QED  BY <2>2, <2>4, <1>3, <1>5 DEF Apart
<1>8. CASE ~(x.values = <<>> /\ x.reader = "waiting")
  <2>1. u = x
    BY <1>6, <1>8 DEF WakeEnded
  <2>2. t.reader = "waiting" => t.terminal = Completed
    BY <1>2, <1>3, <1>5, <1>8
  <2>. QED  BY <2>1, <2>2, <1>2, <1>3, <1>5, Kinds DEF Apart
<1>. QED  BY <1>7, <1>8

LEMMA DrainInv ==
  ASSUME NEW t, NEW r, NEW cut, LooseInv(t, r, cut), ~t.accepting, NEW u, u = FinishWhenDrained(t)
  PROVE  TurnInv(u, r, cut)
<1>1. CASE t.delayed # <<>> \/ t.ended
  <2>1. u = t
    BY <1>1 DEF FinishWhenDrained
  <2>. QED  BY <2>1, <1>1 DEF TurnInv, Drained
<1>2. CASE t.delayed = <<>> /\ ~t.ended
  <2>0. t \in Turns /\ r \in Relays /\ t.values \in Seq(Events)
        /\ t.hand \in Events \cup {None, Ended} /\ t.terminal \in {None, Completed}
    BY DEF LooseInv, Turns
  <2>1. QueueInv(t) /\ LifeInv(t, cut) /\ EndInv(t, r, cut)
    BY DEF LooseInv
  <2>2. /\ t.reader = "waiting" => t.values = <<>> /\ t.hand = None
        /\ t.hand # Ended /\ t.hand # Completed
    BY <1>2, <2>1 DEF QueueInv
  <2>3. /\ u \in Turns /\ u.ended /\ ~u.accepting /\ u.delayed = <<>> /\ u.terminal = None
        /\ u.values = IF t.terminal = Completed /\ t.reader # "waiting"
                      THEN Append(t.values, Completed) ELSE t.values
        /\ u.hand = IF t.reader # "waiting" THEN t.hand
                    ELSE IF t.terminal = None THEN Ended ELSE Completed
        /\ u.reader = IF t.reader = "waiting" THEN "handed" ELSE t.reader
        /\ u.life = t.life /\ u.suppressed = t.suppressed
        /\ u.reported = t.reported /\ u.current = t.current /\ u.rev = t.rev
    BY <1>2, <2>0, <2>2, DrainIs
  <2>4. PICK n \in Nat : n = Len(t.values)
    BY <2>0
  <2>5. /\ \/ Len(u.values) = n /\ \A i \in 1..n : u.values[i] = t.values[i]
           \/ /\ t.terminal = Completed /\ t.reader # "waiting" /\ Len(u.values) = n + 1
              /\ u.values[n + 1] = Completed /\ \A i \in 1..n : u.values[i] = t.values[i]
    BY <2>0, <2>3, <2>4, Kinds
  <2>5a. /\ Len(u.values) \in {n, n + 1} /\ \A i \in 1..n : u.values[i] = t.values[i]
         /\ Len(u.values) = n + 1 => u.values[n + 1] = Completed
    BY <2>4, <2>5
  <2>6. Len(t.delayed) = 0 /\ Len(u.delayed) = 0
    BY <1>2, <2>3
  <2>7. \A x \in Events : Waits(t, x) => Waits(u, x)
    <3>1. ASSUME NEW x \in Events, t.hand = x PROVE u.hand = x
      BY <2>2, <2>3, <3>1, Kinds
    <3>2. ASSUME NEW x \in Events, NEW i \in 1..Len(t.values), t.values[i] = x
          PROVE  i \in 1..Len(u.values) /\ u.values[i] = x
      BY <3>2, <2>4, <2>5a
    <3>. QED  BY <3>1, <3>2, <2>6 DEF Waits
  <2>8. t.terminal = Completed => Waits(u, Completed)
    <3>1. CASE t.reader = "waiting"
      BY <3>1, <2>3, Kinds DEF Waits
    <3>2. CASE t.reader # "waiting" /\ t.terminal = Completed
      <4>1. n + 1 \in 1..Len(u.values) /\ u.values[n + 1] = Completed
        BY <3>2, <2>0, <2>3, <2>4, Kinds
      <4>. QED  BY <4>1 DEF Waits
    <3>. QED  BY <3>1, <3>2
  <2>9. QueueInv(u)
    <3>1. ASSUME NEW i \in 1..Len(u.values), u.values[i] = Completed PROVE i = Len(u.values)
      <4>1. \A j \in 1..n : t.values[j] # Completed
        BY <1>2, <2>1, <2>4 DEF QueueInv
      <4>. QED  BY <3>1, <4>1, <2>4, <2>5a
    <3>2. u.hand = Completed \/ u.hand = Ended => u.values = <<>>
      BY <2>2, <2>3
    <3>3. u.reader = "handed" <=> u.hand # None
      BY <2>1, <2>3, Kinds DEF QueueInv
    <3>. QED  BY <3>1, <3>2, <3>3, <2>3, <2>6 DEF QueueInv
  <2>10. LifeInv(u, cut)
    BY <2>1, <2>3 DEF LifeInv
  <2>11. EndInv(u, r, cut)
    <3>1. Told(t, r) => Told(u, r)
      BY <2>7, Kinds DEF Told
    <3>2. Waits(t, Completed) => Waits(u, Completed)
      BY <2>7, Kinds
    <3>3. r.verdict = "none"
      BY <1>2, <2>1 DEF EndInv
    <3>4. u.reader = "done" => cut \/ u.life = "cancelled"
      BY <1>2, <2>1, <2>3 DEF EndInv
    <3>. QED  BY <2>1, <2>3, <2>8, <3>1, <3>2, <3>3, <3>4 DEF EndInv
  <2>12. ASSUME ~cut, u.life # "cancelled" PROVE FrameInv(u, r)
    <3>1. FrameInv(t, r)
      BY <2>3, <2>12 DEF LooseInv
    <3>2. \A x \in Events \cup {None, Ended} : Follows(t, r, x) => Follows(u, r, x)
      BY <2>3, <2>7, Kinds, FollowsKept
    <3>3. Follows(u, r, Completed) /\ Follows(u, r, Ended)
      BY Kinds DEF Follows, Within, Marked
    <3>4. Follows(u, r, u.hand)
      BY <2>0, <2>3, <3>1, <3>2, <3>3 DEF FrameInv
    <3>5. \A i \in 1..n : u.values[i] \in Events /\ Follows(u, r, u.values[i])
      BY <2>0, <2>4, <2>5a, <3>1, <3>2 DEF FrameInv
    <3>6. \A i \in 1..Len(u.values) : Follows(u, r, u.values[i])
      BY <2>5a, <3>3, <3>5
    <3>7. \A x : Fits(x, Completed) /\ Fits(Completed, x) /\ Fits(Ended, x)
      BY Kinds DEF Fits
    <3>8. Ordered(u)
      <4>1. ASSUME NEW i \in 1..Len(u.values), NEW j \in 1..Len(u.values), i < j
            PROVE  Fits(u.values[i], u.values[j])
        <5>1. CASE j \in 1..n
          <6>1. i \in 1..n
            BY <4>1, <5>1, <2>5a
          <6>. QED  BY <3>1, <4>1, <5>1, <6>1, <2>4, <2>5a DEF FrameInv, Ordered
        <5>2. CASE j = n + 1
          <6>1. Len(u.values) = n + 1
            BY <5>2, <2>5a
          <6>. QED  BY <5>2, <6>1, <2>5a, <3>7
        <5>. QED  BY <5>1, <5>2, <2>5a
      <4>2. ASSUME NEW i \in 1..Len(u.values) PROVE Fits(u.hand, u.values[i])
        <5>1. CASE u.hand = t.hand /\ i \in 1..n
          BY <5>1, <3>1, <2>4, <2>5a DEF FrameInv, Ordered
        <5>2. CASE i \notin 1..n
          <6>1. i = n + 1 /\ Len(u.values) = n + 1
            BY <5>2, <2>5a
          <6>. QED  BY <6>1, <2>5a, <3>7
        <5>. QED  BY <5>1, <5>2, <2>3, <3>7
      <4>. QED  BY <4>1, <4>2, <2>3, <2>6 DEF Ordered
    <3>9. u.life # "active"
      BY <2>3, <2>10 DEF LifeInv
    <3>. QED  BY <2>3, <2>6, <3>1, <3>4, <3>6, <3>8, <3>9 DEF FrameInv
  <2>13. cut \in BOOLEAN /\ Drained(u)
    BY <2>3 DEF LooseInv, Drained
  <2>. QED  BY <2>0, <2>3, <2>9, <2>10, <2>11, <2>12, <2>13 DEF TurnInv, LooseInv
<1>. QED  BY <1>1, <1>2

\* A turn that takes no more from the provider and ends as its queue drains.
LEMMA CloseInv ==
  ASSUME NEW f, NEW r, Sound(f, r), NEW l \in {"failed", "completed"},
         NEW term \in {None, Completed},
         term = Completed \/ f.life = "failed" \/ Told(f, r),
         NEW u, u = CloseAfterDrain([f EXCEPT !.life = l], term)
  PROVE  TurnInv(u, r, FALSE)
<1>1. f \in Turns /\ r \in Relays /\ LooseInv(f, r, FALSE) /\ Drained(f)
  BY DEF Sound, TurnInv, LooseInv
<1>2. PICK c : c = [f EXCEPT !.life = l]
  OBVIOUS
<1>3. /\ c \in Turns /\ c.life = l /\ c.suppressed = f.suppressed /\ c.accepting = f.accepting
      /\ c.ended = f.ended /\ c.terminal = f.terminal /\ c.values = f.values
      /\ c.delayed = f.delayed /\ c.reader = f.reader /\ c.hand = f.hand
      /\ c.reported = f.reported /\ c.current = f.current /\ c.rev = f.rev
  <2>1. l \in Lives
    BY DEF Lives
  <2>. QED  BY <1>1, <1>2, <2>1 DEF Turns
<1>4. PICK z : z = [c EXCEPT !.accepting = FALSE, !.terminal = term]
  OBVIOUS
<1>5. /\ z \in Turns /\ z.life = l /\ z.suppressed = f.suppressed /\ z.accepting = FALSE
      /\ z.ended = f.ended /\ z.terminal = term /\ z.values = f.values
      /\ z.delayed = f.delayed /\ z.reader = f.reader /\ z.hand = f.hand
      /\ z.reported = f.reported /\ z.current = f.current /\ z.rev = f.rev
  BY <1>3, <1>4 DEF Turns
<1>6. f.life \in {"active", "failed"} /\ FrameInv(f, r)
  BY <1>1 DEF Sound, LooseInv
<1>7. ASSUME NEW x, x.values = f.values, x.delayed = f.delayed, x.hand = f.hand,
             x.current = f.current, x.rev = f.rev, x.life = l
      PROVE  FrameInv(x, r) /\ \A e : Waits(x, e) <=> Waits(f, e)
  <2>1. \A e : Waits(x, e) <=> Waits(f, e)
    BY <1>7 DEF Waits
  <2>2. \A e : Follows(x, r, e) <=> Follows(f, r, e)
    BY <1>7, <2>1 DEF Follows, Within, Shown
  <2>3. Ordered(x)
    BY <1>6, <1>7 DEF FrameInv, Ordered
  <2>. QED  BY <1>6, <1>7, <2>1, <2>2, <2>3 DEF FrameInv
<1>8. CASE f.life = "active"
  <2>1. f.accepting /\ ~f.suppressed /\ ~f.ended
    BY <1>1, <1>8 DEF LooseInv, LifeInv, QueueInv
  <2>2. u = FinishWhenDrained(z)
    BY <1>2, <1>3, <1>4, <2>1 DEF CloseAfterDrain
  <2>3. QueueInv(z)
    BY <1>1, <1>5, <2>1 DEF LooseInv, QueueInv
  <2>4. LifeInv(z, FALSE)
    BY <1>5, <2>1 DEF LifeInv
  <2>5. FrameInv(z, r) /\ \A e : Waits(z, e) <=> Waits(f, e)
    BY <1>5, <1>7
  <2>6. Told(f, r) => Told(z, r)
    BY <2>5 DEF Told
  <2>7. EndInv(f, r, FALSE)
    BY <1>1 DEF LooseInv
  <2>8. r.verdict = "none" /\ z.reader # "done"
    BY <1>1, <1>5, <1>8, <2>1, <2>7 DEF EndInv, Relays
  <2>9. EndInv(z, r, FALSE)
    BY <1>5, <1>8, <2>6, <2>7, <2>8 DEF EndInv
  <2>10. LooseInv(z, r, FALSE)
    BY <1>1, <1>5, <2>3, <2>4, <2>5, <2>9 DEF LooseInv
  <2>. QED  BY <1>5, <2>2, <2>10, DrainInv
<1>9. CASE f.life = "failed"
  <2>1. ~f.accepting /\ ~f.suppressed
    BY <1>1, <1>9 DEF LooseInv, LifeInv
  <2>2. u = c
    BY <1>2, <1>3, <2>1 DEF CloseAfterDrain
  <2>3. QueueInv(c)
    BY <1>1, <1>3 DEF LooseInv, QueueInv
  <2>4. LifeInv(c, FALSE)
    BY <1>3, <2>1 DEF LifeInv
  <2>5. FrameInv(c, r) /\ \A e : Waits(c, e) <=> Waits(f, e)
    BY <1>3, <1>7
  <2>6. EndInv(c, r, FALSE)
    <3>1. EndInv(f, r, FALSE)
      BY <1>1 DEF LooseInv
    <3>2. Told(f, r) <=> Told(c, r)
      BY <2>5 DEF Told
    <3>. QED  BY <1>3, <1>9, <2>5, <3>1, <3>2 DEF EndInv
  <2>7. Drained(c)
    BY <1>1, <1>3 DEF Drained
  <2>. QED  BY <1>1, <1>3, <2>2, <2>3, <2>4, <2>5, <2>6, <2>7 DEF TurnInv, LooseInv
<1>. QED  BY <1>6, <1>8, <1>9

LEMMA CompleteInv ==
  ASSUME NEW t, NEW r, Sound(t, r), t.life = "active", NEW u, u = Complete(t)
  PROVE  TurnInv(u, r, FALSE)
<1>1. PICK s : s = StopInput(t)
  OBVIOUS
<1>2. Sound(s, r) /\ s.life = "active"
  <2>1. t \in Turns
    BY DEF Sound, TurnInv, LooseInv
  <2>. QED  BY <1>1, <2>1, StopInputIs, AgreeSound DEF Agree
<1>3. PICK p : p = FinalizeTranscripts(s)
  OBVIOUS
<1>4. Sound(p, r)
  BY <1>2, <1>3, FinalizeTranscriptsInv
<1>5. PICK f : f = FinishOutputAudio(p)
  OBVIOUS
<1>6. Sound(f, r)
  BY <1>4, <1>5, FinishOutputAudioInv
<1>7. CASE f.valid
  <2>1. u = CloseAfterDrain([f EXCEPT !.life = "completed"], Completed)
    BY <1>1, <1>3, <1>5, <1>7 DEF Complete
  <2>. QED  BY <2>1, <1>6, CloseInv
<1>8. CASE ~f.valid /\ f.reported
  <2>1. u = CloseAfterDrain([f EXCEPT !.life = "failed"], None)
    BY <1>1, <1>3, <1>5, <1>8 DEF Complete
  <2>2. f.life = "failed" \/ Told(f, r)
    BY <1>6, <1>8, SoundIs DEF Sound, Tells
  <2>. QED  BY <2>1, <2>2, <1>6, CloseInv
<1>9. CASE ~f.valid /\ ~f.reported
  <2>1. u = Fail(f)
    BY <1>1, <1>3, <1>5, <1>9 DEF Complete
  <2>2. CASE f.life = "active"
    BY <2>1, <2>2, <1>6, SoundIs, FailInv
  <2>3. CASE f.life = "failed"
    BY <2>1, <2>3, <1>6 DEF Fail, Sound
  <2>. QED  BY <1>6, <2>2, <2>3 DEF Sound
<1>. QED  BY <1>7, <1>8, <1>9

\* The holdback of the oldest event is over.
LEMMA ReleaseInv ==
  ASSUME NEW t, NEW r, NEW cut, TurnInv(t, r, cut), t.delayed # <<>>, ~t.ended,
         NEW u, u = FinishWhenDrained(Enqueue([t EXCEPT !.delayed = Tail(@)], Head(t.delayed)))
  PROVE  TurnInv(u, r, cut)
<1>1. /\ t \in Turns /\ r \in Relays /\ t.values \in Seq(Events) /\ t.delayed \in Seq(Events)
      /\ QueueInv(t) /\ LifeInv(t, cut) /\ EndInv(t, r, cut) /\ cut \in BOOLEAN
      /\ t.hand \in Events \cup {None, Ended}
  BY DEF TurnInv, LooseInv, Turns
<1>0. Head(t.delayed) \in Events /\ Tail(t.delayed) \in Seq(Events)
  BY <1>1, HeadTailProperties
<1>2. PICK e \in Events : e = Head(t.delayed)
  BY <1>0
<1>3. PICK q \in Seq(Events) : q = Tail(t.delayed)
  BY <1>0
<1>4. PICK n \in Nat : n = Len(t.values)
  BY <1>1, LenProperties
<1>5. PICK m \in Nat : m = Len(q)
  OBVIOUS
<1>6. /\ Len(t.delayed) = m + 1 /\ t.delayed[1] = e
      /\ \A i \in 1..m : q[i] = t.delayed[i + 1] /\ i + 1 \in 1..Len(t.delayed)
      /\ 1 \in 1..Len(t.delayed)
  BY <1>1, <1>2, <1>3, <1>5
<1>7. e # None /\ e # Ended /\ e # Completed
  BY <1>1, <1>2, <1>6, Kinds DEF QueueInv
<1>8. PICK s : s = [t EXCEPT !.delayed = q]
  OBVIOUS
<1>9. s \in Turns /\ s.delayed = q /\ Beside(t, s) /\ s.values = t.values
      /\ s.hand = t.hand /\ s.reader = t.reader
  BY <1>1, <1>8 DEF Turns, Beside
<1>10. PICK w : w = Enqueue(s, e)
  OBVIOUS
<1>11. /\ w \in Turns /\ Beside(t, w) /\ w.delayed = q
       /\ \/ /\ t.reader = "waiting" /\ w.reader = "handed" /\ w.hand = e
             /\ w.values = t.values
          \/ /\ t.reader # "waiting" /\ w.reader = t.reader /\ w.hand = t.hand
             /\ w.values = Append(t.values, e)
  <2>1. CASE t.reader = "waiting"
    <3>1. w = [s EXCEPT !.reader = "handed", !.hand = e]
      BY <2>1, <1>9, <1>10 DEF Enqueue, Beside
    <3>2. w \in Turns /\ w.reader = "handed" /\ w.hand = e /\ Beside(s, w)
          /\ w.values = s.values /\ w.delayed = s.delayed
      BY <3>1, <1>9 DEF Turns, Beside
    <3>. QED  BY <3>2, <2>1, <1>9 DEF Beside
  <2>2. CASE t.reader # "waiting"
    <3>1. Append(t.values, e) \in Seq(Events)
      BY <1>1
    <3>2. PICK v \in Seq(Events) : v = Append(t.values, e)
      BY <3>1
    <3>3. w = [s EXCEPT !.values = v]
      BY <2>2, <3>2, <1>9, <1>10 DEF Enqueue, Beside
    <3>4. w \in Turns /\ w.values = v /\ Beside(s, w)
          /\ w.reader = s.reader /\ w.hand = s.hand /\ w.delayed = s.delayed
      BY <3>3, <1>9 DEF Turns, Beside
    <3>. QED  BY <3>2, <3>4, <2>2, <1>9 DEF Beside
  <2>. QED  BY <2>1, <2>2
<1>12. /\ t.reader = "waiting" => n = 0 /\ t.hand = None
       /\ t.hand # Ended /\ t.hand # Completed /\ \A i \in 1..n : t.values[i] # Completed
  BY <1>1, <1>4 DEF QueueInv
<1>13. \/ /\ t.reader = "waiting" /\ w.reader = "handed" /\ w.hand = e /\ Len(w.values) = 0
       \/ /\ t.reader # "waiting" /\ w.reader = t.reader /\ w.hand = t.hand
          /\ Len(w.values) = n + 1 /\ w.values[n + 1] = e
          /\ \A i \in 1..n : w.values[i] = t.values[i]
  BY <1>1, <1>4, <1>11, <1>12
<1>13a. \A i \in 1..Len(w.values) : (i \in 1..n /\ w.values[i] = t.values[i]) \/ (i = n + 1 /\ w.values[i] = e)
  BY <1>13, SMTT(60)
<1>14. \A x \in Events : Waits(w, x) <=> Waits(t, x)
  <2>1. ASSUME NEW x \in Events, Waits(t, x) PROVE Waits(w, x)
    <3>0. Waits(w, e)
      BY <1>13, SMTT(60) DEF Waits
    <3>1. CASE t.hand = x
      BY <3>1, <1>12, <1>13, Kinds DEF Waits
    <3>2. ASSUME NEW i \in 1..n, t.values[i] = x PROVE Waits(w, x)
      BY <3>2, <1>12, <1>13 DEF Waits
    <3>3. ASSUME NEW i \in 1..Len(t.delayed), t.delayed[i] = x PROVE Waits(w, x)
      <4>1. CASE i = 1
        BY <4>1, <3>0, <3>3, <1>6
      <4>2. CASE i # 1
        <5>1. i - 1 \in 1..m /\ q[i - 1] = x
          BY <4>2, <3>3, <1>6, SMTT(60)
        <5>. QED  BY <5>1, <1>5, <1>11 DEF Waits
      <4>. QED  BY <4>1, <4>2
    <3>. QED  BY <2>1, <3>1, <3>2, <3>3, <1>4 DEF Waits
  <2>2. ASSUME NEW x \in Events, Waits(w, x) PROVE Waits(t, x)
    <3>0. Waits(t, e)
      BY <1>6 DEF Waits
    <3>1. CASE w.hand = x
      BY <3>0, <3>1, <1>13 DEF Waits
    <3>2. ASSUME NEW i \in 1..Len(w.values), w.values[i] = x PROVE Waits(t, x)
      BY <3>0, <3>2, <1>4, <1>13a DEF Waits
    <3>3. ASSUME NEW i \in 1..Len(w.delayed), w.delayed[i] = x PROVE Waits(t, x)
      BY <3>3, <1>5, <1>6, <1>11 DEF Waits
    <3>. QED  BY <2>2, <3>1, <3>2, <3>3 DEF Waits
  <2>. QED  BY <2>1, <2>2
<1>15. QueueInv(w)
  <2>1. \A i \in 1..Len(w.values) : w.values[i] # Completed
    BY <1>7, <1>12, <1>13a
  <2>2. \A i \in 1..Len(w.delayed) : w.delayed[i] # Completed
    BY <1>1, <1>5, <1>6, <1>11 DEF QueueInv
  <2>3. w.reader # "waiting" /\ (w.reader = "handed" <=> w.hand # None)
    BY <1>1, <1>7, <1>13 DEF QueueInv
  <2>4. w.hand # Ended /\ w.hand # Completed
    BY <1>7, <1>12, <1>13
  <2>5. ~w.ended /\ (w.accepting => w.terminal = None)
    BY <1>1, <1>11 DEF QueueInv, Beside
  <2>. QED  BY <2>1, <2>2, <2>3, <2>4, <2>5 DEF QueueInv
<1>16. LifeInv(w, cut)
  BY <1>1, <1>11 DEF LifeInv, Beside
<1>17. EndInv(w, r, cut)
  <2>1. (Told(t, r) <=> Told(w, r)) /\ (Waits(t, Completed) <=> Waits(w, Completed))
    BY <1>14, Kinds DEF Told
  <2>2. r.verdict = "none" /\ (w.reader = "done" => t.reader = "done")
    BY <1>1, <1>13 DEF EndInv
  <2>. QED  BY <2>1, <2>2, <1>1, <1>11 DEF EndInv, Beside
<1>18. ASSUME ~cut, w.life # "cancelled" PROVE FrameInv(w, r)
  <2>1. FrameInv(t, r)
    BY <1>11, <1>18 DEF TurnInv, LooseInv, Beside
  <2>2. \A k \in Nat, f \in BOOLEAN : Waits(t, Target(k, f)) => Waits(w, Target(k, f))
    BY <1>14, Kinds
  <2>3. \A x \in Events \cup {None, Ended} : Follows(t, r, x) => Follows(w, r, x)
    BY <2>2, <1>11, FollowsKept DEF Beside
  <2>4. Follows(w, r, e)
    BY <1>6, <2>1, <2>3 DEF FrameInv
  <2>5. Follows(w, r, w.hand)
    BY <1>1, <1>13, <2>1, <2>3, <2>4 DEF FrameInv
  <2>6. \A i \in 1..Len(w.values) : Follows(w, r, w.values[i])
    <3>1. \A i \in 1..n : t.values[i] \in Events
      BY <1>1, <1>4
    <3>. QED  BY <3>1, <1>4, <1>13a, <2>1, <2>3, <2>4 DEF FrameInv
  <2>7. \A i \in 1..Len(w.delayed) : Follows(w, r, w.delayed[i])
    <3>1. \A i \in 1..Len(t.delayed) : t.delayed[i] \in Events
      BY <1>1
    <3>. QED  BY <3>1, <1>5, <1>6, <1>11, <2>1, <2>3 DEF FrameInv
  <2>8. Ordered(w)
    <3>0. Ordered(t)
      BY <2>1 DEF FrameInv
    <3>1. ASSUME NEW i \in 1..Len(w.values), NEW j \in 1..Len(w.values), i < j
          PROVE  Fits(w.values[i], w.values[j])
      <4>1. i \in 1..n /\ w.values[i] = t.values[i]
        BY <3>1, <1>13, <1>13a
      <4>2. CASE j \in 1..n /\ w.values[j] = t.values[j]
        BY <3>0, <3>1, <4>1, <4>2, <1>4 DEF Ordered
      <4>3. CASE w.values[j] = e
        BY <3>0, <4>1, <4>3, <1>4, <1>6 DEF Ordered
      <4>. QED  BY <4>2, <4>3, <1>13a
    <3>2. ASSUME NEW i \in 1..m, NEW j \in 1..m, i < j PROVE Fits(q[i], q[j])
      <4>1. i + 1 \in 1..Len(t.delayed) /\ j + 1 \in 1..Len(t.delayed) /\ i + 1 < j + 1
        BY <3>2, <1>6
      <4>2. Fits(t.delayed[i + 1], t.delayed[j + 1])
        BY <3>0, <4>1 DEF Ordered
      <4>. QED  BY <4>2, <1>6
    <3>3. ASSUME NEW j \in 1..m PROVE Fits(e, q[j])
      <4>1. j + 1 \in 1..Len(t.delayed) /\ 1 \in 1..Len(t.delayed) /\ 1 < j + 1
        BY <1>6
      <4>2. Fits(t.delayed[1], t.delayed[j + 1])
        BY <3>0, <4>1 DEF Ordered
      <4>. QED  BY <4>2, <1>6
    <3>4. ASSUME NEW i \in 1..Len(w.values), NEW j \in 1..m PROVE Fits(w.values[i], q[j])
      BY <3>0, <3>3, <1>4, <1>6, <1>13a DEF Ordered
    <3>5. ASSUME NEW i \in 1..Len(w.values) PROVE Fits(w.hand, w.values[i])
      <4>1. w.hand = t.hand
        BY <1>13
      <4>. QED  BY <3>0, <4>1, <1>4, <1>6, <1>13a DEF Ordered
    <3>6. ASSUME NEW j \in 1..m PROVE Fits(w.hand, q[j])
      <4>1. CASE w.hand = t.hand
        BY <3>0, <4>1, <1>6 DEF Ordered
      <4>2. CASE w.hand = e
        BY <3>3, <4>2
      <4>. QED  BY <4>1, <4>2, <1>13
    <3>7. Held
      BY <3>0 DEF Ordered
    <3>. QED  BY <1>5, <1>11, <3>1, <3>2, <3>4, <3>5, <3>6, <3>7 DEF Ordered
  <2>9. w.life = "active" => Shown(w, r, w.current)
    <3>1. t.current \in Nat /\ w.current = t.current /\ w.life = t.life
      BY <1>1, <1>11 DEF Turns, Beside
    <3>. QED  BY <3>1, <2>1, <2>2 DEF FrameInv, Shown
  <2>. QED  BY <1>11, <2>1, <2>5, <2>6, <2>7, <2>8, <2>9 DEF FrameInv, Beside
<1>19. LooseInv(w, r, cut)
  BY <1>1, <1>11, <1>15, <1>16, <1>17, <1>18 DEF LooseInv
<1>20. u = FinishWhenDrained(w)
  BY <1>2, <1>3, <1>8, <1>10
<1>21. CASE w.accepting
  BY <1>19, <1>20, <1>21 DEF FinishWhenDrained, TurnInv, Drained
<1>22. CASE ~w.accepting
  BY <1>19, <1>20, <1>22, DrainInv
<1>. QED  BY <1>21, <1>22

\* The relay asks for the next event.
LEMMA NextEventInv ==
  ASSUME NEW t, NEW r, NEW cut, TurnInv(t, r, cut), t.reader = "reading",
         NEW u, u = IF t.values # <<>>
                    THEN [t EXCEPT !.reader = "handed", !.hand = Head(t.values),
                                   !.values = Tail(@)]
                    ELSE IF t.ended
                    THEN [t EXCEPT !.reader = "handed", !.hand = Ended]
                    ELSE [t EXCEPT !.reader = "waiting"]
  PROVE  TurnInv(u, r, cut)
<1>1. /\ t \in Turns /\ r \in Relays /\ t.values \in Seq(Events) /\ t.delayed \in Seq(Events)
      /\ QueueInv(t) /\ LifeInv(t, cut) /\ EndInv(t, r, cut) /\ cut \in BOOLEAN
      /\ Drained(t) /\ t.hand = None
  BY DEF TurnInv, LooseInv, Turns, QueueInv
<1>2. ASSUME ~cut, t.life # "cancelled" PROVE FrameInv(t, r)
  BY <1>2 DEF TurnInv, LooseInv
<1>3. CASE t.values # <<>>
  <2>0. Head(t.values) \in Events /\ Tail(t.values) \in Seq(Events)
    BY <1>1, <1>3, HeadTailProperties
  <2>1. PICK e \in Events : e = Head(t.values)
    BY <2>0
  <2>2. PICK q \in Seq(Events) : q = Tail(t.values)
    BY <2>0
  <2>3. PICK m \in Nat : m = Len(q)
    OBVIOUS
  <2>4. /\ Len(t.values) = m + 1 /\ t.values[1] = e /\ 1 \in 1..Len(t.values)
        /\ \A i \in 1..m : q[i] = t.values[i + 1] /\ i + 1 \in 1..Len(t.values)
    BY <1>1, <1>3, <2>1, <2>2, <2>3
  <2>5. u = [t EXCEPT !.reader = "handed", !.hand = e, !.values = q]
    BY <1>3, <2>1, <2>2
  <2>6. /\ u \in Turns /\ u.reader = "handed" /\ u.hand = e /\ u.values = q /\ Beside(t, u)
        /\ u.delayed = t.delayed
    <3>1. t \in Turns
      BY <1>1
    <3>2. u \in Turns
      BY <3>1, <2>5, ZenonT(60) DEF Turns
    <3>3. u.reader = "handed" /\ u.hand = e /\ u.values = q
      BY <3>1, <2>5, ZenonT(60) DEF Turns
    <3>4. Beside(t, u) /\ u.delayed = t.delayed
      BY <3>1, <2>5, SMTT(60) DEF Turns, Beside
    <3>. QED  BY <3>2, <3>3, <3>4
  <2>7. \A x \in Events : Waits(u, x) <=> Waits(t, x)
    <3>1. ASSUME NEW x \in Events, Waits(t, x) PROVE Waits(u, x)
      <4>1. ASSUME NEW i \in 1..m + 1, t.values[i] = x PROVE Waits(u, x)
        <5>1. CASE i = 1
          BY <4>1, <5>1, <2>4, <2>6 DEF Waits
        <5>2. CASE i # 1
          <6>0. i \in Nat /\ i - 1 \in 1..m /\ (i - 1) + 1 = i
            BY <4>1, <5>2
          <6>1. PICK j \in 1..m : j + 1 = i
            BY <6>0, ZenonT(60)
          <6>2. q[j] = x
            BY <4>1, <6>1, <2>4
          <6>. QED  BY <6>2, <2>3, <2>6 DEF Waits
        <5>. QED  BY <5>1, <5>2
      <4>2. (\E i \in 1..Len(t.delayed) : t.delayed[i] = x) => Waits(u, x)
        BY <2>6 DEF Waits
      <4>. QED  BY <1>1, <2>4, <3>1, <4>1, <4>2, Kinds DEF Waits
    <3>2. ASSUME NEW x \in Events, Waits(u, x) PROVE Waits(t, x)
      BY <3>2, <2>3, <2>4, <2>6 DEF Waits
    <3>. QED  BY <3>1, <3>2
  <2>8. e # None /\ e # Ended
    BY Kinds
  <2>9. QueueInv(u)
    <3>0. \A i \in 1..Len(t.values) : t.values[i] = Completed => i = Len(t.values) /\ t.ended
      BY <1>1 DEF QueueInv
    <3>1. ASSUME e = Completed PROVE u.values = <<>> /\ u.ended
      <4>1. 1 = m + 1 /\ t.ended
        BY <3>0, <3>1, <2>4
      <4>2. Len(q) = 0
        BY <4>1, <2>3
      <4>3. q = <<>>
        BY <4>2
      <4>. QED  BY <4>1, <4>3, <2>6 DEF Beside
    <3>2. ASSUME NEW i \in 1..m, q[i] = Completed PROVE i = m /\ t.ended
      <4>1. t.values[i + 1] = Completed /\ i + 1 \in 1..Len(t.values)
        BY <3>2, <2>4
      <4>2. i + 1 = m + 1 /\ t.ended
        BY <3>0, <4>1, <2>4
      <4>. QED  BY <4>2
    <3>. QED  BY <1>1, <2>3, <2>6, <2>8, <3>1, <3>2 DEF QueueInv, Beside
  <2>10. LifeInv(u, cut)
    BY <1>1, <2>6 DEF LifeInv, Beside
  <2>11. EndInv(u, r, cut)
    <3>1. (Told(t, r) <=> Told(u, r)) /\ (Waits(t, Completed) <=> Waits(u, Completed))
      BY <2>7, Kinds DEF Told
    <3>2. r.verdict = "none"
      BY <1>1, <1>3 DEF EndInv
    <3>. QED  BY <1>1, <2>6, <3>1, <3>2 DEF EndInv, Beside
  <2>12. ASSUME ~cut, u.life # "cancelled" PROVE FrameInv(u, r)
    <3>1. FrameInv(t, r)
      BY <1>2, <2>6, <2>12 DEF Beside
    <3>2. \A k \in Nat, f \in BOOLEAN : Waits(t, Target(k, f)) => Waits(u, Target(k, f))
      BY <2>7, Kinds
    <3>3. \A x \in Events : Follows(t, r, x) => Follows(u, r, x)
      BY <3>2, <2>6, FollowsKept DEF Beside
    <3>4. /\ \A i \in 1..Len(t.values) : t.values[i] \in Events
          /\ \A i \in 1..Len(t.delayed) : t.delayed[i] \in Events
      BY <1>1
    <3>5. Follows(u, r, u.hand)
      BY <2>4, <2>6, <3>1, <3>3, <3>4 DEF FrameInv
    <3>6. \A i \in 1..Len(u.values) : Follows(u, r, u.values[i])
      BY <2>3, <2>4, <2>6, <3>1, <3>3, <3>4 DEF FrameInv
    <3>7. \A i \in 1..Len(u.delayed) : Follows(u, r, u.delayed[i])
      BY <2>6, <3>1, <3>3, <3>4 DEF FrameInv
    <3>8. Ordered(u)
      <4>0. Ordered(t)
        BY <3>1 DEF FrameInv
      <4>1. ASSUME NEW i \in 1..m, NEW j \in 1..m, i < j PROVE Fits(q[i], q[j])
        <5>1. i + 1 < j + 1
          BY <4>1
        <5>2. Fits(t.values[i + 1], t.values[j + 1])
          BY <4>0, <5>1, <2>4 DEF Ordered
        <5>. QED  BY <5>2, <2>4
      <4>2. ASSUME NEW j \in 1..m PROVE Fits(e, q[j])
        <5>1. 1 < j + 1
          OBVIOUS
        <5>2. Fits(t.values[1], t.values[j + 1])
          BY <4>0, <5>1, <2>4 DEF Ordered
        <5>. QED  BY <5>2, <2>4
      <4>3. ASSUME NEW j \in 1..Len(t.delayed) PROVE Fits(e, t.delayed[j])
        BY <4>0, <2>4 DEF Ordered
      <4>4. ASSUME NEW i \in 1..m, NEW j \in 1..Len(t.delayed) PROVE Fits(q[i], t.delayed[j])
        BY <4>0, <2>4 DEF Ordered
      <4>. QED  BY <2>3, <2>6, <4>0, <4>1, <4>2, <4>3, <4>4 DEF Ordered
    <3>9. u.life = "active" => Shown(u, r, u.current)
      <4>1. t.current \in Nat /\ u.current = t.current /\ u.life = t.life
        BY <1>1, <2>6 DEF Turns, Beside
      <4>. QED  BY <4>1, <3>1, <3>2 DEF FrameInv, Shown
    <3>. QED  BY <2>6, <3>1, <3>5, <3>6, <3>7, <3>8, <3>9 DEF FrameInv, Beside
  <2>13. Drained(u)
    BY <1>1, <2>6 DEF Drained, Beside
  <2>. QED  BY <1>1, <2>6, <2>9, <2>10, <2>11, <2>12, <2>13 DEF TurnInv, LooseInv
<1>4. CASE t.values = <<>>
  <2>2. PICK rd \in {"handed", "waiting"}, h \in {None, Ended} :
          /\ u = [t EXCEPT !.reader = rd, !.hand = h]
          /\ \/ rd = "handed" /\ h = Ended /\ t.ended
             \/ rd = "waiting" /\ h = None /\ ~t.ended
    <3>1. CASE t.ended
      <4>1. u = [t EXCEPT !.reader = "handed", !.hand = Ended]
        BY <1>4, <3>1
      <4>. QED  BY <4>1, <3>1
    <3>2. CASE ~t.ended
      <4>1. u = [t EXCEPT !.reader = "waiting"]
        BY <1>4, <3>2
      <4>2. u = [t EXCEPT !.reader = "waiting", !.hand = None]
        BY <4>1, <1>1 DEF Turns
      <4>. QED  BY <4>2, <3>2
    <3>. QED  BY <3>1, <3>2
  <2>3. /\ u \in Turns /\ u.reader = rd /\ u.hand = h /\ u.values = t.values /\ Beside(t, u)
        /\ u.delayed = t.delayed
    <3>1. t \in Turns
      BY <1>1
    <3>2. u \in Turns
      BY <3>1, <2>2, ZenonT(60) DEF Turns
    <3>3. u.reader = rd /\ u.hand = h /\ u.values = t.values
      BY <3>1, <2>2, ZenonT(60) DEF Turns
    <3>4. Beside(t, u) /\ u.delayed = t.delayed
      BY <3>1, <2>2, SMTT(60) DEF Turns, Beside
    <3>. QED  BY <3>2, <3>3, <3>4
  <2>4. \A x \in Events : Waits(u, x) <=> Waits(t, x)
    BY <1>1, <2>3, Kinds DEF Waits
  <2>5. QueueInv(u)
    BY <1>1, <1>4, <2>2, <2>3, Kinds DEF QueueInv, Beside
  <2>6. LifeInv(u, cut)
    BY <1>1, <2>3 DEF LifeInv, Beside
  <2>7. EndInv(u, r, cut)
    <3>1. (Told(t, r) <=> Told(u, r)) /\ (Waits(t, Completed) <=> Waits(u, Completed))
      BY <2>4, Kinds DEF Told
    <3>2. u.reader # "done" /\ u.hand \in {None, Ended}
      BY <2>2, <2>3
    <3>. QED  BY <1>1, <2>3, <3>1, <3>2 DEF EndInv, Beside
  <2>8. ASSUME ~cut, u.life # "cancelled" PROVE FrameInv(u, r)
    <3>1. FrameInv(t, r)
      BY <1>2, <2>3, <2>8 DEF Beside
    <3>2. \A k \in Nat, f \in BOOLEAN : Waits(t, Target(k, f)) => Waits(u, Target(k, f))
      BY <2>4, Kinds
    <3>3. \A x \in Events : Follows(t, r, x) => Follows(u, r, x)
      BY <3>2, <2>3, FollowsKept, ZenonT(60) DEF Beside
    <3>4. \A i \in 1..Len(t.delayed) : t.delayed[i] \in Events
      BY <1>1
    <3>5. Len(t.values) = 0
      BY <1>4
    <3>6. ~Marked(u.hand)
      BY <2>3, Kinds
    <3>7. Ordered(u)
      <4>1. \A x : Fits(u.hand, x)
        BY <3>6 DEF Fits
      <4>. QED  BY <4>1, <2>3, <3>1 DEF FrameInv, Ordered
    <3>8. Follows(u, r, u.hand)
      BY <3>6 DEF Follows, Within, Marked
    <3>9. u.life = "active" => Shown(u, r, u.current)
      <4>1. t.current \in Nat /\ u.current = t.current /\ u.life = t.life
        BY <1>1, <2>3 DEF Turns, Beside
      <4>. QED  BY <4>1, <3>1, <3>2 DEF FrameInv, Shown
    <3>. QED  BY <2>3, <3>1, <3>3, <3>4, <3>5, <3>7, <3>8, <3>9 DEF FrameInv, Beside
  <2>9. Drained(u)
    BY <1>1, <2>3 DEF Drained, Beside
  <2>. QED  BY <1>1, <2>3, <2>5, <2>6, <2>7, <2>8, <2>9 DEF TurnInv, LooseInv
<1>. QED  BY <1>3, <1>4

\* The turn was stopped, or its queue has ended.
LEMMA DoneInv ==
  ASSUME NEW t, NEW r, NEW cut, TurnInv(t, r, cut), t.reader = "handed",
         t.hand = Ended \/ t.suppressed \/ cut, NEW n \in Nat,
         NEW u, u = [t EXCEPT !.hand = None, !.counted = n, !.reader = "done"]
  PROVE  TurnInv(u, r, cut)
<1>1. /\ t \in Turns /\ r \in Relays /\ QueueInv(t) /\ LifeInv(t, cut) /\ EndInv(t, r, cut)
      /\ cut \in BOOLEAN /\ Drained(t)
  BY DEF TurnInv, LooseInv
<1>2. /\ u \in Turns /\ u.reader = "done" /\ u.hand = None /\ Beside(t, u)
      /\ u.values = t.values /\ u.delayed = t.delayed
  BY <1>1 DEF Turns, Beside
<1>3. CASE t.hand = Ended
  <2>1. t.ended /\ t.values = <<>> /\ t.delayed = <<>>
    BY <1>1, <1>3 DEF QueueInv
  <2>2. \A x \in Events : Waits(u, x) <=> Waits(t, x)
    BY <1>2, <1>3, Kinds DEF Waits
  <2>3. QueueInv(u) /\ LifeInv(u, cut) /\ Drained(u)
    BY <1>1, <1>2, <2>1, Kinds DEF QueueInv, LifeInv, Drained, Beside
  <2>4. (Told(t, r) <=> Told(u, r)) /\ (Waits(t, Completed) <=> Waits(u, Completed))
    BY <2>2, Kinds DEF Told
  <2>5. EndInv(u, r, cut)
    BY <1>1, <1>2, <2>1, <2>4 DEF EndInv, Beside
  <2>6. ASSUME ~cut, u.life # "cancelled" PROVE FrameInv(u, r)
    <3>1. FrameInv(t, r)
      BY <1>2, <2>6 DEF TurnInv, LooseInv, Beside
    <3>2. \A k \in Nat, f \in BOOLEAN : Waits(t, Target(k, f)) => Waits(u, Target(k, f))
      BY <2>2, Kinds
    <3>3. Len(u.values) = 0 /\ Len(u.delayed) = 0 /\ (~Held => u.delayed = <<>>)
      BY <1>2, <2>1
    <3>4. ~Marked(u.hand)
      BY <1>2, Kinds
    <3>5. Ordered(u)
      BY <3>3 DEF Ordered
    <3>6. Follows(u, r, u.hand)
      BY <3>4 DEF Follows, Within, Marked
    <3>7. u.life # "active"
      BY <1>1, <1>2, <2>1 DEF QueueInv, LifeInv, Beside
    <3>. QED  BY <1>2, <3>1, <3>3, <3>5, <3>6, <3>7 DEF FrameInv, Beside
  <2>. QED  BY <1>1, <1>2, <2>3, <2>5, <2>6 DEF TurnInv, LooseInv
<1>4. CASE t.suppressed \/ cut
  <2>1. t.life # "active" /\ (t.life = "cancelled" \/ cut)
    BY <1>1, <1>4 DEF LifeInv
  <2>2. QueueInv(u) /\ LifeInv(u, cut) /\ Drained(u)
    BY <1>1, <1>2, Kinds DEF QueueInv, LifeInv, Drained, Beside
  <2>3. EndInv(u, r, cut)
    BY <1>1, <1>2, <2>1 DEF EndInv, Beside
  <2>. QED  BY <1>1, <1>2, <2>1, <2>2, <2>3 DEF TurnInv, LooseInv, Beside
<1>. QED  BY <1>3, <1>4

\* What the relay holds after an event of a turn that it has not stopped.
Heard(r, e, q) ==
  q = [r EXCEPT
     !.rev = IF e.kind = "target" /\ ~r.final THEN e.rev ELSE @,
     !.final = @ \/ (e.kind = "target" /\ e.final),
     !.last = IF e.kind = "target" THEN e.rev ELSE @,
     !.refused = IF IsAudio(e) /\ e.rev # r.rev
                 THEN @ \cup {IF e.tail THEN "tail" ELSE "frame"} ELSE @,
     !.errors = @ \/ e.kind = "error",
     !.verdict = IF e.kind = "completed" THEN "completed" ELSE @,
     !.after = @ \/ r.verdict # "none"]

LEMMA TargetFields ==
  ASSUME NEW e \in Events, e.kind = "target" PROVE e.rev \in Nat /\ e.final \in BOOLEAN
<1>1. \E k \in Nat, f \in BOOLEAN : e = Target(k, f)
  <2>1. \A k, f : Audio(k, f).kind = "audio"
    BY DEF Audio
  <2>2. e # Error /\ e # Completed
    BY DEF Error, Completed
  <2>. QED  BY <2>1, <2>2 DEF Events
<1>. QED  BY <1>1 DEF Target

LEMMA HeardIs ==
  ASSUME NEW r \in Relays, NEW e \in Events, NEW q, Heard(r, e, q)
  PROVE  /\ q \in Relays /\ q.last = (IF e.kind = "target" THEN e.rev ELSE r.last)
         /\ (r.errors \/ e.kind = "error" => q.errors)
         /\ q.verdict = (IF e.kind = "completed" THEN "completed" ELSE r.verdict)
         /\ (q.after <=> r.after \/ r.verdict # "none")
<1>1. PICK v \in Nat : v = IF e.kind = "target" /\ ~r.final THEN e.rev ELSE r.rev
  BY TargetFields DEF Relays
<1>2. PICK l \in Nat : l = IF e.kind = "target" THEN e.rev ELSE r.last
  BY TargetFields DEF Relays
<1>3. PICK f \in BOOLEAN : f = (r.final \/ (e.kind = "target" /\ e.final))
  BY DEF Relays
<1>4. PICK s \in SUBSET {"tail", "frame"} :
        s = IF IsAudio(e) /\ e.rev # r.rev
            THEN r.refused \cup {IF e.tail THEN "tail" ELSE "frame"} ELSE r.refused
  <2>1. r.refused \in SUBSET {"tail", "frame"}
    BY DEF Relays
  <2>2. (IF e.tail THEN "tail" ELSE "frame") \in {"tail", "frame"}
    OBVIOUS
  <2>. QED  BY <2>1, <2>2
<1>5. PICK x \in BOOLEAN : x = (r.errors \/ e.kind = "error")
  BY DEF Relays
<1>6. PICK d \in {"none", "completed"} : d = IF e.kind = "completed" THEN "completed" ELSE r.verdict
  BY DEF Relays
<1>7. PICK a \in BOOLEAN : a = (r.after \/ r.verdict # "none")
  BY DEF Relays
<1>8. q = [r EXCEPT !.rev = v, !.final = f, !.last = l, !.refused = s, !.errors = x,
                    !.verdict = d, !.after = a]
  BY <1>1, <1>2, <1>3, <1>4, <1>5, <1>6, <1>7 DEF Heard
<1>9. /\ q \in Relays /\ q.last = l /\ q.errors = x /\ q.verdict = d /\ q.after = a
  BY <1>8 DEF Relays
<1>. QED  BY <1>2, <1>5, <1>6, <1>7, <1>9

LEMMA HearInv ==
  ASSUME NEW t, NEW r, TurnInv(t, r, FALSE), t.reader = "handed",
         t.hand # Ended, ~t.suppressed, NEW n \in Nat, NEW q, Heard(r, t.hand, q),
         NEW u, u = [t EXCEPT !.hand = None, !.counted = n, !.reader = "reading"]
  PROVE  TurnInv(u, q, FALSE)
<1>1. /\ t \in Turns /\ r \in Relays /\ QueueInv(t) /\ LifeInv(t, FALSE) /\ EndInv(t, r, FALSE)
      /\ Drained(t) /\ t.life # "cancelled" /\ FrameInv(t, r)
  BY DEF TurnInv, LooseInv, LifeInv
<1>2. /\ u \in Turns /\ u.reader = "reading" /\ u.hand = None /\ Beside(t, u)
      /\ u.values = t.values /\ u.delayed = t.delayed
  BY <1>1 DEF Turns, Beside
<1>3. PICK e \in Events : e = t.hand
  BY <1>1 DEF Turns, QueueInv
<1>4. r.verdict = "none" /\ ~r.after
  BY <1>1, <1>3, Kinds DEF EndInv, Relays
<1>5. /\ q \in Relays /\ q.last = (IF e.kind = "target" THEN e.rev ELSE r.last)
      /\ (r.errors \/ e.kind = "error" => q.errors)
      /\ q.verdict = (IF e.kind = "completed" THEN "completed" ELSE "none")
      /\ ~q.after
  BY <1>1, <1>3, <1>4, HeardIs
<1>6. Error.kind = "error" /\ Completed.kind = "completed" /\ (e.kind = "completed" => e = Completed)
  BY DEF Error, Completed, Events, Target, Audio
<1>7. \A x \in Events : Waits(t, x) => x = e \/ Waits(u, x)
  BY <1>2, <1>3 DEF Waits
<1>8. \A x \in Events : Waits(u, x) => Waits(t, x)
  BY <1>2, <1>3, Kinds DEF Waits
<1>9. QueueInv(u) /\ LifeInv(u, FALSE) /\ Drained(u)
  BY <1>1, <1>2, Kinds DEF QueueInv, LifeInv, Drained, Beside
<1>10. EndInv(u, q, FALSE)
  <2>1. Told(t, r) => Told(u, q)
    BY <1>5, <1>6, <1>7, Kinds DEF Told
  <2>2. Waits(t, Completed) => Waits(u, Completed) \/ q.verdict = "completed"
    BY <1>5, <1>6, <1>7, Kinds
  <2>3. q.verdict # "none" => u.values = <<>> /\ u.ended
    <3>1. e = Completed => t.values = <<>> /\ t.ended
      BY <1>1, <1>3 DEF QueueInv
    <3>. QED  BY <3>1, <1>2, <1>5, <1>6 DEF Beside
  <2>. QED  BY <1>1, <1>2, <1>4, <1>5, <2>1, <2>2, <2>3 DEF EndInv, Beside
<1>11. FrameInv(u, q)
  <2>1. /\ Ordered(t) /\ Follows(t, r, e) /\ t.current = t.rev /\ r.last <= t.current
        /\ \A i \in 1..Len(t.values) : Follows(t, r, t.values[i]) /\ t.values[i] \in Events
        /\ \A i \in 1..Len(t.delayed) : Follows(t, r, t.delayed[i]) /\ t.delayed[i] \in Events
    BY <1>1, <1>3 DEF FrameInv, Turns
  <2>2. t.current \in Nat /\ r.last \in Nat /\ u.current = t.current /\ u.rev = t.rev /\ u.life = t.life
    BY <1>1, <1>2 DEF Turns, Relays, Beside
  <2>3. e.kind = "target" => e.rev \in Nat /\ r.last < e.rev /\ e.rev <= t.current
    BY <2>1, TargetFields DEF Follows, Within, Marked
  <2>4. q.last \in Nat /\ r.last <= q.last /\ q.last <= t.current
    BY <1>5, <2>1, <2>2, <2>3
  <2>5. ASSUME NEW k \in Nat, Shown(t, r, k) PROVE Shown(u, q, k)
    <3>1. CASE k <= r.last
      BY <3>1, <2>2, <2>4 DEF Shown
    <3>2. ASSUME NEW f \in BOOLEAN, Waits(t, Target(k, f)) PROVE Shown(u, q, k)
      <4>1. CASE e = Target(k, f)
        <5>1. q.last = k
          BY <4>1, <1>5, Shapes DEF Target
        <5>. QED  BY <5>1 DEF Shown
      <4>2. CASE e # Target(k, f)
        <5>1. Waits(u, Target(k, f))
          BY <3>2, <4>2, <1>7, Kinds
        <5>. QED  BY <5>1 DEF Shown
      <4>. QED  BY <4>1, <4>2
    <3>. QED  BY <2>5, <3>1, <3>2 DEF Shown
  <2>6. ASSUME NEW x \in Events, Follows(t, r, x), Fits(e, x) PROVE Follows(u, q, x)
    <3>1. Marked(x) => x.rev \in Nat
      BY MarkedRev
    <3>2. Within(u, q, x)
      <4>1. CASE e.kind = "target"
        BY <2>2, <2>3, <2>6, <3>1, <4>1, <1>5 DEF Follows, Within, Fits, Marked
      <4>2. CASE e.kind # "target"
        BY <2>2, <2>6, <4>2, <1>5 DEF Follows, Within
      <4>. QED  BY <4>1, <4>2
    <3>3. Whole(x) => Shown(u, q, x.rev)
      BY <2>5, <2>6, <3>1 DEF Follows, Marked
    <3>. QED  BY <3>2, <3>3 DEF Follows
  <2>7. /\ \A i \in 1..Len(u.values) : Follows(u, q, u.values[i])
        /\ \A i \in 1..Len(u.delayed) : Follows(u, q, u.delayed[i])
    BY <1>2, <1>3, <2>1, <2>6 DEF Ordered
  <2>8. ~Marked(u.hand)
    BY <1>2, Kinds
  <2>9. Ordered(u)
    <3>1. \A x : Fits(u.hand, x)
      BY <2>8 DEF Fits
    <3>. QED  BY <3>1, <1>2, <2>1 DEF Ordered
  <2>10. Follows(u, q, u.hand)
    BY <2>8 DEF Follows, Within, Marked
  <2>11. u.life = "active" => Shown(u, q, u.current)
    BY <1>1, <2>2, <2>5 DEF FrameInv
  <2>. QED  BY <2>1, <2>2, <2>4, <2>7, <2>9, <2>10, <2>11 DEF FrameInv
<1>. QED  BY <1>2, <1>5, <1>9, <1>10, <1>11 DEF TurnInv, LooseInv

-----------------------------------------------------------------------------
(***************************************************************************)
(* A native turn: the steps.                                               *)
(***************************************************************************)
LEMMA NativeStart == Init => NativeInv
<1>. SUFFICES ASSUME Init PROVE NativeInv
  OBVIOUS
<1>1. /\ turn.life = "active" /\ turn.accepting = TRUE /\ turn.ended = FALSE /\ turn.suppressed = FALSE
      /\ turn.terminal = None /\ turn.values = <<>> /\ turn.delayed = <<>>
      /\ turn.reader = "opening" /\ turn.hand = None /\ turn.reported = FALSE
      /\ turn.current = 0 /\ turn.rev = 0
  BY DEF Init
<1>2. /\ relay.last = 0 /\ relay.verdict = "none" /\ relay.after = FALSE
  BY DEF Init
<1>3. relay \in Relays
  BY DEF Init, Relays
<1>4. turn \in Turns
  <2>1. <<>> \in Seq(Events)
    OBVIOUS
  <2>. QED  BY <2>1 DEF Init, Turns, Lives
<1>5. Len(turn.values) = 0 /\ Len(turn.delayed) = 0
  BY <1>1
<1>6. QueueInv(turn) /\ Ordered(turn)
  BY <1>1, <1>5, Kinds DEF QueueInv, Ordered
<1>7. Follows(turn, relay, turn.hand)
  BY <1>1, Kinds DEF Follows, Within, Marked
<1>8. Taking(turn, relay)
  BY <1>1, <1>2, <1>3, <1>4, <1>5, <1>6, <1>7 DEF Taking
<1>9. Tells(turn, relay) /\ Shown(turn, relay, turn.current)
  BY <1>1, <1>2 DEF Tells, Shown
<1>10. TurnInv(turn, relay, FALSE)
  BY <1>1, <1>8, <1>9, TakingIs
<1>. QED  BY <1>10 DEF Init, NativeInv

\* The invariant reads the mode, which no step changes.
LEMMA Primes ==
  ASSUME mode' = mode, mode \in {"fast", "balanced"}, TurnInv(turn', relay', aborted')
  PROVE  NativeInv'
BY DEF NativeInv, TurnInv, LooseInv, Drained, QueueInv, LifeInv, EndInv, Told, Waits, FrameInv,
       Ordered, Fits, Follows, Within, Shown, Held, Marked, Whole

LEMMA StillSound ==
  ASSUME mode' = mode, mode \in {"fast", "balanced"}, UNCHANGED <<relay, aborted>>,
         aborted = FALSE, TurnInv(turn', relay, FALSE)
  PROVE  NativeInv'
BY Primes, ZenonT(60)

\* A turn that was not stopped may be aborted by the relay at any time.
LEMMA CutInv ==
  ASSUME NEW t, NEW r, NEW cut, TurnInv(t, r, cut), t.life # "active"
  PROVE  TurnInv(t, r, TRUE)
BY DEF TurnInv, LooseInv, LifeInv, EndInv

\* The generator of translate goes from its opening to the events of the queue.
LEMMA OpenedInv ==
  ASSUME NEW t, NEW r, NEW cut, TurnInv(t, r, cut), t.reader = "opening",
         NEW rd \in {"reading", "done"}, rd = "done" => cut,
         NEW u, u = [t EXCEPT !.reader = rd]
  PROVE  TurnInv(u, r, cut)
<1>1. /\ t \in Turns /\ r \in Relays /\ QueueInv(t) /\ LifeInv(t, cut) /\ EndInv(t, r, cut)
      /\ cut \in BOOLEAN /\ Drained(t)
  BY DEF TurnInv, LooseInv
<1>2. /\ u \in Turns /\ u.reader = rd /\ Beside(t, u) /\ u.hand = t.hand
      /\ u.values = t.values /\ u.delayed = t.delayed
  BY <1>1 DEF Turns, Beside
<1>3. \A x : Waits(u, x) <=> Waits(t, x)
  BY <1>2 DEF Waits
<1>4. QueueInv(u)
  BY <1>1, <1>2 DEF QueueInv, Beside
<1>5. LifeInv(u, cut) /\ Drained(u)
  BY <1>1, <1>2 DEF LifeInv, Drained, Beside
<1>6. EndInv(u, r, cut)
  BY <1>1, <1>2, <1>3 DEF EndInv, Told, Beside
<1>7. ASSUME ~cut, u.life # "cancelled" PROVE FrameInv(u, r)
  <2>1. FrameInv(t, r)
    BY <1>2, <1>7 DEF TurnInv, LooseInv, Beside
  <2>2. \A x : Follows(u, r, x) <=> Follows(t, r, x)
    BY <1>2, <1>3 DEF Follows, Within, Shown, Beside
  <2>3. Ordered(u)
    BY <1>2, <2>1 DEF FrameInv, Ordered
  <2>. QED  BY <1>2, <1>3, <2>1, <2>2, <2>3 DEF FrameInv, Shown, Beside
<1>. QED  BY <1>1, <1>2, <1>4, <1>5, <1>6, <1>7 DEF TurnInv, LooseInv

LEMMA AgreeTurn ==
  ASSUME NEW t, NEW u \in Turns, NEW r, NEW cut, Agree(t, u), TurnInv(t, r, cut)
  PROVE  TurnInv(u, r, cut)
BY AgreeInv DEF TurnInv

LEMMA NativeStep ==
  ASSUME NativeInv, [Next]_vars
  PROVE  NativeInv'
<1>1. mode \in {"fast", "balanced"} /\ TurnInv(turn, relay, aborted)
  BY DEF NativeInv
<1>2. turn \in Turns /\ relay \in Relays /\ aborted \in BOOLEAN
  BY <1>1 DEF TurnInv, LooseInv
<1>3. turn.life = "active" => /\ aborted = FALSE /\ Sound(turn, relay) /\ Taking(turn, relay)
                              /\ Shown(turn, relay, turn.current)
  BY <1>1, TakingIs DEF Sound
<1>4. CASE Open
  <2>1. turn' = [turn EXCEPT !.ready = TRUE, !.reader = "reading"]
        /\ UNCHANGED <<mode, relay, aborted>> /\ turn.reader = "opening"
    BY <1>4 DEF Open, Quiet
  <2>2. PICK s : s = [turn EXCEPT !.ready = TRUE]
    OBVIOUS
  <2>3. s \in Turns /\ Agree(turn, s)
    BY <1>2, <2>2 DEF Turns, Agree
  <2>4. TurnInv(s, relay, aborted) /\ s.reader = "opening"
    BY <1>1, <2>1, <2>3, AgreeTurn DEF Agree
  <2>5. turn' = [s EXCEPT !.reader = "reading"]
    BY <1>2, <2>1, <2>2
  <2>6. TurnInv(turn', relay, aborted)
    BY <2>4, <2>5, OpenedInv
  <2>. QED  BY <1>1, <2>1, <2>6, Primes
<1>5. CASE OpenFails
  <2>1. /\ turn' = [Fail(turn) EXCEPT !.reader = "reading"] /\ UNCHANGED <<mode, relay, aborted>>
        /\ turn.reader = "opening" /\ turn.life = "active"
    BY <1>5 DEF OpenFails, Quiet, Becomes
  <2>2. PICK s : s = Fail(turn)
    OBVIOUS
  <2>3. TurnInv(s, relay, FALSE) /\ s.reader = "opening"
    BY <1>3, <2>1, <2>2, FailInv
  <2>4. turn' = [s EXCEPT !.reader = "reading"]
    BY <2>1, <2>2
  <2>5. TurnInv(turn', relay, FALSE)
    BY <2>3, <2>4, OpenedInv
  <2>. QED  BY <1>1, <1>3, <2>1, <2>5, StillSound
<1>6. CASE OpenStopped
  <2>1. /\ turn' = [turn EXCEPT !.reader = IF aborted THEN "done" ELSE "reading"]
        /\ UNCHANGED <<mode, relay, aborted>> /\ turn.reader = "opening"
    BY <1>6 DEF OpenStopped, Quiet
  <2>2. PICK rd \in {"reading", "done"} : rd = IF aborted THEN "done" ELSE "reading"
    OBVIOUS
  <2>3. turn' = [turn EXCEPT !.reader = rd] /\ (rd = "done" => aborted)
    BY <2>1, <2>2
  <2>4. TurnInv(turn', relay, aborted)
    BY <1>1, <2>1, <2>3, OpenedInv
  <2>. QED  BY <1>1, <2>1, <2>4, Primes
<1>7. CASE Capture
  <2>1. /\ turn' = (IF turn.windows < Backlog THEN [turn EXCEPT !.windows = @ + 1]
                    ELSE QueueOther(turn, Error, FALSE))
        /\ UNCHANGED <<mode, relay, aborted>> /\ turn.life = "active"
    BY <1>7 DEF Capture, Flowing, Becomes
  <2>2. CASE turn.windows < Backlog
    <3>0. PICK k \in Nat : k = turn.windows + 1
      BY <1>2 DEF Turns
    <3>1. PICK s : s = [turn EXCEPT !.windows = k]
      OBVIOUS
    <3>2. s \in Turns /\ Agree(turn, s) /\ turn' = s
      <4>1. turn' = s
        BY <2>1, <2>2, <3>0, <3>1
      <4>. QED  BY <1>2, <3>1, <4>1 DEF Turns, Agree
    <3>3. TurnInv(turn', relay, aborted)
      BY <1>1, <3>2, AgreeTurn
    <3>. QED  BY <1>1, <2>1, <3>3, Primes
  <2>3. CASE ~(turn.windows < Backlog)
    <3>1. turn' = QueueOther(turn, Error, FALSE)
      BY <2>1, <2>3
    <3>2. TurnInv(turn', relay, FALSE)
      BY <1>3, <2>1, <3>1, ErrorInv DEF Sound
    <3>. QED  BY <1>1, <1>3, <2>1, <3>2, StillSound
  <2>. QED  BY <2>2, <2>3
<1>a. ASSUME NEW s, s \in Turns, Agree(turn, s), turn.life = "active",
             turn' = s \/ turn' = Fail(s), UNCHANGED <<mode, relay, aborted>>
      PROVE  NativeInv'
  <2>1. Sound(s, relay) /\ s.life = "active"
    BY <1>3, <1>a, AgreeSound DEF Agree
  <2>2. Taking(s, relay)
    BY <2>1, SoundIs
  <2>3. TurnInv(turn', relay, FALSE)
    BY <1>a, <2>1, <2>2, FailInv DEF Sound
  <2>. QED  BY <1>1, <1>3, <1>a, <2>3, StillSound
<1>8. CASE AppendWindow
  <2>1. PICK sent \in BOOLEAN : turn' = (IF sent THEN [turn EXCEPT !.windows = @ - 1] ELSE Fail(turn))
    BY <1>8 DEF AppendWindow, Becomes
  <2>2. turn.life = "active" /\ turn.windows > 0 /\ UNCHANGED <<mode, relay, aborted>>
    BY <1>8 DEF AppendWindow, Quiet
  <2>3. PICK k \in Nat : k = turn.windows - 1
    BY <1>2, <2>2 DEF Turns
  <2>4. PICK s : s = [turn EXCEPT !.windows = k]
    OBVIOUS
  <2>5. s \in Turns /\ Agree(turn, s)
    BY <1>2, <2>4 DEF Turns, Agree
  <2>6. turn' = s \/ turn' = Fail(turn)
    BY <2>1, <2>3, <2>4
  <2>7. Agree(turn, turn)
    BY DEF Agree
  <2>. QED  BY <1>2, <1>a, <2>2, <2>5, <2>6, <2>7
<1>9. CASE InputEnds
  <2>1. PICK whole \in BOOLEAN : turn' = (IF whole THEN [turn EXCEPT !.input = "ended"] ELSE Fail(turn))
    BY <1>9 DEF InputEnds, Becomes
  <2>2. turn.life = "active" /\ UNCHANGED <<mode, relay, aborted>>
    BY <1>9 DEF InputEnds, Quiet, Flowing
  <2>4. PICK s : s = [turn EXCEPT !.input = "ended"]
    OBVIOUS
  <2>5. s \in Turns /\ Agree(turn, s)
    BY <1>2, <2>4 DEF Turns, Agree
  <2>6. turn' = s \/ turn' = Fail(turn)
    BY <2>1, <2>4
  <2>7. Agree(turn, turn)
    BY DEF Agree
  <2>. QED  BY <1>2, <1>a, <2>2, <2>5, <2>6, <2>7
<1>10. CASE RequestSessionClose
  <2>1. PICK sent \in BOOLEAN :
          turn' = (IF sent THEN [turn EXCEPT !.closeSent = TRUE, !.deadline = TRUE]
                   ELSE Fail([turn EXCEPT !.closeSent = TRUE]))
    BY <1>10 DEF RequestSessionClose, Becomes
  <2>2. turn.life = "active" /\ UNCHANGED <<mode, relay, aborted>>
    BY <1>10 DEF RequestSessionClose, Quiet
  <2>3. PICK s : s = [turn EXCEPT !.closeSent = TRUE, !.deadline = TRUE]
    OBVIOUS
  <2>4. s \in Turns /\ Agree(turn, s)
    BY <1>2, <2>3 DEF Turns, Agree
  <2>5. PICK z : z = [turn EXCEPT !.closeSent = TRUE]
    OBVIOUS
  <2>6. z \in Turns /\ Agree(turn, z)
    BY <1>2, <2>5 DEF Turns, Agree
  <2>7. turn' = s \/ turn' = Fail(z)
    BY <2>1, <2>3, <2>5
  <2>. QED  BY <1>a, <2>2, <2>4, <2>6, <2>7
<1>b. ASSUME turn' = turn \/ (turn.life = "active" /\ turn' = Fail(turn)), UNCHANGED <<mode, relay, aborted>>
      PROVE  NativeInv'
  <2>1. CASE turn' = turn
    BY <1>1, <1>b, <2>1, Primes
  <2>2. CASE turn.life = "active" /\ turn' = Fail(turn)
    <3>1. Agree(turn, turn)
      BY DEF Agree
    <3>. QED  BY <1>2, <1>a, <1>b, <2>2, <3>1
  <2>. QED  BY <1>b, <2>1, <2>2
<1>11. CASE CloseTimeout
  BY <1>11, <1>b DEF CloseTimeout, Becomes, Quiet, Fail
<1>12. CASE OutputTranscript
  <2>1. PICK final \in BOOLEAN : Message(PublishTranscript(turn, final))
    BY <1>12 DEF OutputTranscript
  <2>2. turn' = PublishTranscript(turn, final) /\ turn.life = "active" /\ UNCHANGED <<mode, relay, aborted>>
    BY <2>1 DEF Message, Becomes
  <2>3. TurnInv(turn', relay, FALSE)
    BY <1>3, <2>2, PublishTranscriptInv DEF Sound
  <2>. QED  BY <1>1, <1>3, <2>2, <2>3, StillSound
<1>13. CASE OutputAudio
  <2>1. PICK whole, fragment \in BOOLEAN : Message(AcceptOutputAudio(turn, whole, fragment))
    BY <1>13 DEF OutputAudio
  <2>2. turn' = AcceptOutputAudio(turn, whole, fragment) /\ turn.life = "active" /\ UNCHANGED <<mode, relay, aborted>>
    BY <2>1 DEF Message, Becomes
  <2>3. TurnInv(turn', relay, FALSE)
    BY <1>3, <2>2, AcceptOutputAudioInv DEF Sound
  <2>. QED  BY <1>1, <1>3, <2>2, <2>3, StillSound
<1>14. CASE InvalidAudio
  <2>1. turn' = QueueOther(turn, Error, FALSE) /\ turn.life = "active" /\ UNCHANGED <<mode, relay, aborted>>
    BY <1>14 DEF InvalidAudio, Message, Becomes
  <2>2. TurnInv(turn', relay, FALSE)
    BY <1>3, <2>1, ErrorInv DEF Sound
  <2>. QED  BY <1>1, <1>3, <2>1, <2>2, StillSound
<1>15. CASE SessionClosed
  <2>1. turn' = Complete(turn) /\ turn.life = "active" /\ UNCHANGED <<mode, relay, aborted>>
    BY <1>15 DEF SessionClosed, Message, Becomes
  <2>2. TurnInv(turn', relay, FALSE)
    BY <1>3, <2>1, CompleteInv
  <2>. QED  BY <1>1, <1>3, <2>1, <2>2, StillSound
<1>16. CASE ProviderFails
  BY <1>16, <1>b DEF ProviderFails, Becomes, Quiet
<1>17. CASE ReleaseDelayed
  <2>1. /\ turn' = FinishWhenDrained(Enqueue([turn EXCEPT !.delayed = Tail(@)], Head(turn.delayed)))
        /\ turn.delayed # <<>> /\ ~turn.ended /\ UNCHANGED <<mode, relay, aborted>>
    BY <1>17 DEF ReleaseDelayed, Quiet
  <2>2. TurnInv(turn', relay, aborted)
    BY <1>1, <2>1, ReleaseInv
  <2>. QED  BY <1>1, <2>1, <2>2, Primes
<1>18. CASE NextEvent
  <2>1. turn.reader = "reading" /\ UNCHANGED <<mode, relay, aborted>>
    BY <1>18 DEF NextEvent, Quiet
  <2>2. TurnInv(turn', relay, aborted)
    BY <1>1, <1>18, <2>1, NextEventInv, ZenonT(60) DEF NextEvent
  <2>. QED  BY <1>1, <2>1, <2>2, Primes
<1>19. CASE Deliver
  <2>1. PICK e : e = turn.hand
    OBVIOUS
  <2>2. PICK n \in Nat : n = IF e.kind \in {"audio", "ended"} \/ turn.counted = 0 THEN turn.counted
                             ELSE turn.counted - 1
    BY <1>2 DEF Turns
  <2>3. PICK taken : taken = [turn EXCEPT !.hand = None, !.counted = n]
    OBVIOUS
  <2>4. /\ turn.reader = "handed" /\ UNCHANGED <<mode, aborted>>
        /\ IF e = Ended \/ turn.suppressed \/ aborted
           THEN turn' = [taken EXCEPT !.reader = "done"] /\ UNCHANGED relay
           ELSE turn' = [taken EXCEPT !.reader = "reading"] /\ relay' = Hear(e)
    BY <1>19, <2>1, <2>2, <2>3 DEF Deliver
  <2>5. CASE e = Ended \/ turn.suppressed \/ aborted
    <3>1. turn' = [turn EXCEPT !.hand = None, !.counted = n, !.reader = "done"] /\ UNCHANGED relay
      BY <2>3, <2>4, <2>5
    <3>2. TurnInv(turn', relay, aborted)
      BY <1>1, <2>1, <2>4, <2>5, <3>1, DoneInv, ZenonT(60)
    <3>. QED  BY <1>1, <2>4, <3>1, <3>2, Primes
  <2>6. CASE ~(e = Ended \/ turn.suppressed \/ aborted)
    <3>1. turn' = [turn EXCEPT !.hand = None, !.counted = n, !.reader = "reading"] /\ relay' = Hear(e)
      BY <2>3, <2>4, <2>6
    <3>2. Heard(relay, turn.hand, relay')
      BY <2>1, <3>1 DEF Heard, Hear
    <3>3. aborted = FALSE /\ aborted' = FALSE
      BY <1>2, <2>4, <2>6
    <3>4. TurnInv(turn', relay', FALSE)
      BY <1>1, <2>1, <2>4, <2>6, <3>1, <3>2, <3>3, HearInv, ZenonT(60)
    <3>. QED  BY <1>1, <2>4, <3>3, <3>4, Primes
  <2>. QED  BY <2>5, <2>6
<1>20. CASE Abort
  <2>1. turn' = Stop(turn) /\ aborted' = TRUE /\ UNCHANGED <<mode, relay>>
    BY <1>20 DEF Abort, Becomes
  <2>2. CASE turn.life = "active"
    <3>1. TurnInv(turn', relay, TRUE)
      BY <1>3, <2>1, <2>2, StopInv
    <3>. QED  BY <1>1, <2>1, <3>1, Primes
  <2>3. CASE turn.life # "active"
    <3>1. turn' = turn
      BY <2>1, <2>3 DEF Stop
    <3>2. TurnInv(turn', relay, TRUE)
      BY <1>1, <2>3, <3>1, CutInv
    <3>. QED  BY <1>1, <2>1, <3>2, Primes
  <2>. QED  BY <2>2, <2>3
<1>21. CASE Cancel
  <2>1. turn' = Stop(turn) /\ turn.life = "active" /\ UNCHANGED <<mode, relay, aborted>>
    BY <1>21 DEF Cancel, Becomes, Quiet
  <2>2. TurnInv(turn', relay, FALSE)
    BY <1>3, <2>1, StopInv
  <2>. QED  BY <1>1, <1>3, <2>1, <2>2, StillSound
<1>22. CASE UNCHANGED vars
  BY <1>22, <1>b DEF vars
<1>. QED
  BY <1>4, <1>5, <1>6, <1>7, <1>8, <1>9, <1>10, <1>11, <1>12, <1>13, <1>14, <1>15, <1>16, <1>17,
     <1>18, <1>19, <1>20, <1>21, <1>22 DEF Next, ProviderNext

LEMMA NativeKept == MCSpec => []NativeInv
<1>1. MCInit => NativeInv
  BY NativeStart DEF MCInit
<1>2. NativeInv /\ [MCNext]_allVars => NativeInv'
  <2>. SUFFICES ASSUME NativeInv, [MCNext]_allVars PROVE [Next]_vars
    BY NativeStep
  <2>. QED  BY DEF MCNext, InNative, InPalabra, allVars
<1>. QED  BY <1>1, <1>2, PTL DEF MCSpec

\* A native turn that ends by itself ends with a completion or after an error, and
\* nothing follows its completion.
THEOREM EndsAreHeard == MCSpec => []NoSilentEnd
<1>1. NativeInv => NoSilentEnd
  <2>. SUFFICES ASSUME NativeInv PROVE NoSilentEnd
    OBVIOUS
  <2>1. QueueInv(turn) /\ EndInv(turn, relay, aborted)
    BY DEF NativeInv, TurnInv, LooseInv
  <2>2. ASSUME turn.reader = "done", turn.life \notin {"active", "cancelled"}, ~aborted
        PROVE  relay.verdict = "completed" \/ relay.errors
    <3>1. turn.life \in {"failed", "completed"}
      BY <2>2 DEF NativeInv, TurnInv, LooseInv, Turns, Lives
    <3>2. turn.ended /\ turn.values = <<>> /\ turn.delayed = <<>> /\ turn.terminal = None /\ turn.hand = None
      BY <2>1, <2>2 DEF QueueInv, EndInv
    <3>3. ~Waits(turn, Error) /\ ~Waits(turn, Completed)
      BY <3>2, Kinds DEF Waits
    <3>. QED  BY <2>1, <2>2, <3>1, <3>2, <3>3, Kinds DEF EndInv, Told
  <2>. QED  BY <2>1, <2>2 DEF NoSilentEnd, EndInv
<1>. QED  BY <1>1, NativeKept, PTL

\* An event more in the queue leaves the hand of the relay alone.
LEMMA HandedStays ==
  ASSUME NEW t \in Turns, t.reader = "handed"
  PROVE  /\ \A e \in Events : Enqueue(t, e) \in Turns /\ Enqueue(t, e).reader = "handed"
         /\ FinishWhenDrained(t).reader = "handed"
<1>1. ASSUME NEW e \in Events PROVE Enqueue(t, e) \in Turns /\ Enqueue(t, e).reader = "handed"
  <2>1. Append(t.values, e) \in Seq(Events)
    BY DEF Turns
  <2>2. PICK v \in Seq(Events) : v = Append(t.values, e)
    BY <2>1
  <2>3. Enqueue(t, e) = t \/ Enqueue(t, e) = [t EXCEPT !.values = v]
    BY <2>2 DEF Enqueue
  <2>. QED  BY <2>3 DEF Turns
<1>2. PICK d : d = IF t.terminal = None THEN t ELSE Enqueue(t, t.terminal)
  OBVIOUS
<1>3. d \in Turns /\ d.reader = "handed"
  BY <1>1, <1>2, Kinds DEF Turns
<1>4. PICK x : x = [d EXCEPT !.terminal = None, !.ended = TRUE]
  OBVIOUS
<1>5. x.reader = "handed"
  BY <1>3, <1>4 DEF Turns
<1>6. FinishWhenDrained(t) = t \/ FinishWhenDrained(t) = WakeEnded(x)
  BY <1>2, <1>4 DEF FinishWhenDrained
<1>7. WakeEnded(x) = x
  BY <1>5 DEF WakeEnded
<1>. QED  BY <1>1, <1>5, <1>6, <1>7

\* A relay that was handed an event of a turn that it has stopped reads no more.
LEMMA StoppedReader ==
  ASSUME NativeInv, [Next]_vars, turn.reader = "handed", aborted \/ turn.life = "cancelled"
  PROVE  turn'.reader # "reading"
<1>1. turn \in Turns /\ turn.life # "active" /\ (turn.suppressed \/ aborted)
  BY DEF NativeInv, TurnInv, LooseInv, LifeInv
<1>2. CASE turn' = turn
  BY <1>2
<1>3. CASE ReleaseDelayed
  <2>0. Head(turn.delayed) \in Events /\ Tail(turn.delayed) \in Seq(Events)
    BY <1>1, <1>3, HeadTailProperties DEF ReleaseDelayed, Turns
  <2>1. PICK q \in Seq(Events) : q = Tail(turn.delayed)
    BY <2>0
  <2>2. PICK s : s = [turn EXCEPT !.delayed = q]
    OBVIOUS
  <2>3. s \in Turns /\ s.reader = "handed"
    BY <1>1, <2>2 DEF Turns
  <2>4. turn' = FinishWhenDrained(Enqueue(s, Head(turn.delayed)))
    BY <1>3, <2>1, <2>2 DEF ReleaseDelayed
  <2>. QED  BY <2>0, <2>3, <2>4, HandedStays
<1>4. CASE Deliver
  <2>1. turn'.reader = "done"
    BY <1>1, <1>4 DEF Deliver, Turns
  <2>. QED  BY <2>1
<1>5. CASE CloseTimeout
  BY <1>1, <1>2, <1>5 DEF CloseTimeout, Becomes, Fail
<1>6. CASE Abort
  BY <1>1, <1>2, <1>6 DEF Abort, Becomes, Stop
<1>7. CASE UNCHANGED vars
  BY <1>2, <1>7 DEF vars
<1>8. ~Open /\ ~OpenFails /\ ~OpenStopped /\ ~NextEvent
  BY DEF Open, OpenFails, OpenStopped, NextEvent
<1>9. ~Capture /\ ~AppendWindow /\ ~InputEnds /\ ~RequestSessionClose
  BY <1>1 DEF Capture, Flowing, AppendWindow, InputEnds, RequestSessionClose
<1>10. ~ProviderNext /\ ~Cancel
  BY <1>1 DEF ProviderNext, OutputTranscript, OutputAudio, InvalidAudio, SessionClosed,
              ProviderFails, Message, Cancel
<1>. QED  BY <1>3, <1>4, <1>5, <1>6, <1>7, <1>8, <1>9, <1>10 DEF Next

\* Every whole frame reaches the relay after the transcript revision that it names
\* and before the next one.
THEOREM FramesFollow == MCSpec => FrameFollowsTarget
<1> DEFINE A == LET e == turn.hand
                IN IsAudio(e) /\ ~e.tail /\ turn'.reader = "reading" => e.rev = relay.last
<1>1. ASSUME NativeInv, [MCNext]_allVars PROVE [A]_vars
  <2>. SUFFICES ASSUME Whole(turn.hand), turn'.reader = "reading" PROVE turn.hand.rev = relay.last
    BY DEF Whole, IsAudio
  <2>1. turn \in Turns /\ relay \in Relays /\ QueueInv(turn)
    BY <1>1 DEF NativeInv, TurnInv, LooseInv
  <2>2. turn.reader = "handed"
    BY <2>1, Kinds DEF QueueInv, Marked
  <2>3. [Next]_vars
    BY <1>1 DEF MCNext, InNative, InPalabra, allVars
  <2>4. ~aborted /\ turn.life # "cancelled"
    BY <1>1, <2>2, <2>3, StoppedReader
  <2>5. Ordered(turn) /\ Follows(turn, relay, turn.hand)
    BY <1>1, <2>4 DEF NativeInv, TurnInv, LooseInv, FrameInv
  <2>6. turn.hand.rev <= relay.last
    BY <2>1, <2>5, HandIsShown
  <2>7. relay.last <= turn.hand.rev
    BY <2>5 DEF Follows, Within, Marked
  <2>8. turn.hand.rev \in Nat /\ relay.last \in Nat
    BY <2>1, MarkedRev DEF Turns, Marked, Relays
  <2>. QED  BY <2>6, <2>7, <2>8
<1>2. MCSpec => [][A]_vars
  BY <1>1, NativeKept, PTL DEF MCSpec
<1>. QED  BY <1>2 DEF FrameFollowsTarget

-----------------------------------------------------------------------------
(***************************************************************************)
(* A Palabra lane (PalabraLane): the ids that a lane remembers, as the end *)
(* of a sequence of distinct ids.                                          *)
(***************************************************************************)
\* The same thing is at two places of a sequence only if they are one place.
Distinct(q) == \A a, b \in 1..Len(q) : q[a] = q[b] => a = b

\* The instance counts as this module does.
LEMMA SameCardinality == \A X : Palabra!Cardinality(X) = Cardinality(X)
BY ZenonT(60) DEF Palabra!Cardinality, Cardinality

\* SetToSeq lists the elements of a finite set, each once.
LEMMA Listing ==
  ASSUME NEW X, IsFiniteSet(X)
  PROVE  LET q == Palabra!SetToSeq(X)
         IN q \in Seq(X) /\ Distinct(q) /\ \A x \in X : \E a \in 1..Len(q) : q[a] = x
<1> DEFINE n == Cardinality(X)
           Lists(f) == f \in [1..n -> X] /\ Palabra!IsInjective(f)
<1>1. n \in Nat
  BY FS_CardinalityType
<1>2. IsFiniteSet(1..n) /\ Cardinality(1..n) = n
  BY <1>1, FS_Interval
<1>3. ExistsBijection(1..n, X)
  BY <1>2, FS_SameCardinalityBij
<1>4. \E f : Lists(f)
  <2>1. PICK f : f \in Bijection(1..n, X)
    BY <1>3 DEF ExistsBijection
  <2>. QED  BY <2>1 DEF Bijection, Injection, IsInjective, Palabra!IsInjective
<1>5. PICK q : q = Palabra!SetToSeq(X)
  OBVIOUS
<1>6. q \in [1..n -> X] /\ Palabra!IsInjective(q)
  <2>1. q = CHOOSE f \in [1..n -> X] : Palabra!IsInjective(f)
    BY <1>5, SameCardinality DEF Palabra!SetToSeq
  <2>2. \E f \in [1..n -> X] : Palabra!IsInjective(f)
    BY <1>4
  <2>. HIDE <1>5 DEF n
  <2>. QED  BY <2>1, <2>2
<1>7. q \in Seq(X) /\ Len(q) = n
  BY <1>1, <1>6, SeqDef, LenProperties
<1>8. Distinct(q)
  BY <1>6, <1>7 DEF Palabra!IsInjective, Distinct
<1>9. q \in Injection(1..n, X)
  BY <1>6 DEF Palabra!IsInjective, IsInjective, Injection
<1>10. q \in Surjection(1..n, X)
  BY <1>2, <1>9, FS_Injection
<1>11. \A x \in X : \E a \in 1..Len(q) : q[a] = x
  BY <1>7, <1>10 DEF Surjection
<1>. QED  BY <1>5, <1>7, <1>8, <1>11

\* What a lane remembers after it retires the ids of a turn is the end of a
\* sequence: the ids known before and then those that were not known.
Chain(known, ids, all) ==
  /\ all \in Seq(Ids) /\ Distinct(all) /\ Len(all) >= Len(known)
  /\ \A j \in 1..Len(known) : all[j] = known[j]
  /\ \A j \in 1..Len(all) : j > Len(known) => all[j] \in ids
  /\ \A y \in ids : \E j \in 1..Len(all) : all[j] = y

EndOf(all, r) ==
  /\ r \in Seq(Ids) /\ Distinct(r) /\ Len(r) <= MaxRetired
  /\ Len(r) <= Len(all) /\ (Len(r) < Len(all) => Len(r) = MaxRetired)
  /\ \A j \in 1..Len(r) : r[j] = all[j + (Len(all) - Len(r))]

LEMMA Retired ==
  ASSUME NEW known \in Seq(Ids), Distinct(known), NEW ids \in SUBSET Ids, IsFiniteSet(ids)
  PROVE  \E all : Chain(known, ids, all) /\ EndOf(all, Palabra!Retire(known, ids))
<1>1. PICK fresh : fresh = ids \ Palabra!ToSet(known)
  OBVIOUS
<1>2. IsFiniteSet(fresh) /\ fresh \subseteq ids
  BY <1>1, FS_Subset
<1>3. PICK q : q = Palabra!SetToSeq(fresh)
  OBVIOUS
<1>4. q \in Seq(fresh) /\ Distinct(q) /\ \A x \in fresh : \E a \in 1..Len(q) : q[a] = x
  BY <1>2, <1>3, Listing
<1>5. q \in Seq(Ids) /\ \A a \in 1..Len(q) : q[a] \in fresh
  BY <1>2, <1>4, SeqMonotonic, ElementOfSeq
<1>6. PICK all : all = known \o q
  OBVIOUS
<1>7. /\ all \in Seq(Ids) /\ Len(all) = Len(known) + Len(q)
      /\ \A j \in 1..Len(all) : all[j] = IF j <= Len(known) THEN known[j] ELSE q[j - Len(known)]
  BY <1>5, <1>6, ConcatProperties
<1>8. Len(known) \in Nat /\ Len(q) \in Nat
  BY <1>5
<1>9. \A j \in 1..Len(known) : known[j] \notin fresh
  BY <1>1 DEF Palabra!ToSet
<1>10. Distinct(all)
  <2>. SUFFICES ASSUME NEW a \in 1..Len(all), NEW b \in 1..Len(all), all[a] = all[b] PROVE a = b
    BY DEF Distinct
  <2>1. CASE a <= Len(known) /\ b <= Len(known)
    BY <2>1, <1>7, <1>8 DEF Distinct
  <2>2. CASE a > Len(known) /\ b > Len(known)
    <3>1. a - Len(known) \in 1..Len(q) /\ b - Len(known) \in 1..Len(q)
      BY <2>2, <1>7, <1>8
    <3>2. q[a - Len(known)] = q[b - Len(known)]
      BY <2>2, <1>7, <1>8
    <3>3. a - Len(known) = b - Len(known)
      BY <3>1, <3>2, <1>4 DEF Distinct
    <3>. QED  BY <3>3, <1>7, <1>8
  <2>3. CASE a <= Len(known) /\ b > Len(known)
    <3>1. b - Len(known) \in 1..Len(q) /\ a \in 1..Len(known)
      BY <2>3, <1>7, <1>8
    <3>2. all[a] = known[a] /\ all[b] = q[b - Len(known)]
      BY <2>3, <1>7, <1>8
    <3>. QED  BY <3>1, <3>2, <1>5, <1>9
  <2>4. CASE a > Len(known) /\ b <= Len(known)
    <3>1. a - Len(known) \in 1..Len(q) /\ b \in 1..Len(known)
      BY <2>4, <1>7, <1>8
    <3>2. all[b] = known[b] /\ all[a] = q[a - Len(known)]
      BY <2>4, <1>7, <1>8
    <3>. QED  BY <3>1, <3>2, <1>5, <1>9
  <2>. QED  BY <2>1, <2>2, <2>3, <2>4, <1>8
<1>11. \A j \in 1..Len(all) : j > Len(known) => all[j] \in ids
  <2>. TAKE j \in 1..Len(all)
  <2>. HAVE j > Len(known)
  <2>1. j - Len(known) \in 1..Len(q)
    BY <1>7, <1>8
  <2>. QED  BY <2>1, <1>2, <1>5, <1>7, <1>8
<1>12. \A y \in ids : \E j \in 1..Len(all) : all[j] = y
  <2>. TAKE y \in ids
  <2>1. CASE y \in fresh
    <3>1. PICK a \in 1..Len(q) : q[a] = y
      BY <2>1, <1>4
    <3>2. a + Len(known) \in 1..Len(all) /\ ~(a + Len(known) <= Len(known))
          /\ (a + Len(known)) - Len(known) = a
      BY <1>7, <1>8
    <3>. QED  BY <3>1, <3>2, <1>7
  <2>2. CASE y \notin fresh
    <3>1. PICK a \in 1..Len(known) : known[a] = y
      BY <2>2, <1>1 DEF Palabra!ToSet
    <3>. QED  BY <3>1, <1>7, <1>8
  <2>. QED  BY <2>1, <2>2
<1>13. Chain(known, ids, all)
  BY <1>7, <1>8, <1>10, <1>11, <1>12 DEF Chain
<1>14. PICK k : k = IF Len(all) > MaxRetired THEN Len(all) - MaxRetired ELSE 0
  OBVIOUS
<1>15. k \in Nat /\ k <= Len(all) /\ MaxRetired \in Nat
       /\ Len(all) - k <= MaxRetired /\ (k > 0 => Len(all) - k = MaxRetired)
  BY <1>7, <1>8, <1>14, ProvidersAssumption DEF Palabra!RetiredAssumption
<1>16. Palabra!Retire(known, ids) = SubSeq(all, 1 + k, Len(all))
  BY <1>1, <1>3, <1>6, <1>14 DEF Palabra!Retire
<1>17. PICK r : r = Palabra!Retire(known, ids)
  OBVIOUS
<1>18. r \in Seq(Ids) /\ Len(r) = Len(all) - k /\ \A j \in 1..Len(r) : r[j] = all[j + k]
  BY <1>7, <1>8, <1>15, <1>16, <1>17, SubSeqProperties
<1>19. Distinct(r)
  <2>. SUFFICES ASSUME NEW a \in 1..Len(r), NEW b \in 1..Len(r), r[a] = r[b] PROVE a = b
    BY DEF Distinct
  <2>1. a + k \in 1..Len(all) /\ b + k \in 1..Len(all)
    BY <1>7, <1>8, <1>15, <1>18
  <2>. QED  BY <2>1, <1>10, <1>15, <1>18, SMTT(30) DEF Distinct
<1>20. EndOf(all, r)
  BY <1>7, <1>8, <1>15, <1>18, <1>19 DEF EndOf
<1>. QED  BY <1>13, <1>17, <1>20

-----------------------------------------------------------------------------
(***************************************************************************)
(* A Palabra lane (PalabraLane): the invariant, of the record of its state *)
(* that the steps build.                                                   *)
(***************************************************************************)
LaneRecs == [socket : {"none", "connecting", "open", "closed"}, closed : BOOLEAN,
             prepared : BOOLEAN, prep : {"none", "connecting", "set", "asking", "polling"},
             turn : Nat, retired : Seq(Ids), closing : BOOLEAN]
Waiting == {"preparing", "prepared"}
Past == {"failed", "cancelled", "completed"}
TurnRecs == [lane : Nat, life : Waiting \cup {"active"} \cup Past, aborted : BOOLEAN,
             ids : SUBSET Ids, heard : SUBSET {"open", "finished", "target", "audio"}]
States == [lanes : Seq(LaneRecs), at : Nat, turns : Seq(TurnRecs), call : Nat,
           strays : SUBSET Nat, orphan : BOOLEAN, over : BOOLEAN]

LanesOf(s) == 1..Len(s.lanes)
TurnsOf(s) == 1..Len(s.turns)
Done(s, t) == s.turns[t].life \in Past

\* More elements than a lane remembers.
Many(X) == \E f \in [1..(MaxRetired + 1) -> X] : \A a, b \in 1..(MaxRetired + 1) : f[a] = f[b] => a = b

\* The ids used on a lane by the turns from a on and before b, and by those that are
\* past.
UsedBy(s, l, a, b) ==
  {y \in Ids : \E v \in TurnsOf(s) : a <= v /\ v < b /\ s.turns[v].lane = l /\ y \in s.turns[v].ids}
PastUse(s, l, a) ==
  {y \in Ids : \E v \in TurnsOf(s) : a <= v /\ Done(s, v) /\ s.turns[v].lane = l /\ y \in s.turns[v].ids}

\* The turn of a lane was started on it.
HoldsTurn(s) ==
  \A i \in LanesOf(s) : s.lanes[i].turn # 0 =>
    /\ s.lanes[i].turn \in TurnsOf(s)
    /\ s.turns[s.lanes[i].turn].lane = i
    /\ s.turns[s.lanes[i].turn].life \notin Waiting
Placed(s) == s.at <= Len(s.lanes) /\ \A t \in TurnsOf(s) : s.turns[t].lane \in LanesOf(s)

\* A turn that has not been started has used nothing.
Unused(s) ==
  \A t \in TurnsOf(s) :
    /\ IsFiniteSet(s.turns[t].ids)
    /\ s.turns[t].life \in Waiting => s.turns[t].ids = {} /\ s.turns[t].heard = {}

\* Only the last turn uses ids.  One that was aborted before it began takes no input,
\* so the provider's events are not let in; x is a turn whose abort is under way.
LastSpeaks(s, x) ==
  \A t \in TurnsOf(s) : ~Done(s, t) =>
    /\ ~s.turns[t].aborted => t = Len(s.turns)
    /\ s.turns[t].ids # {} => t = Len(s.turns)
    /\ s.turns[t].aborted /\ t # x => s.turns[t].ids = {} /\ "open" \notin s.turns[t].heard

\* What a lane remembers, and that the turns that go on use none of it.
Memory(s) ==
  \A i \in LanesOf(s) : Len(s.lanes[i].retired) <= MaxRetired /\ Distinct(s.lanes[i].retired)
Remembers(s, l, y) == \E p \in 1..Len(s.lanes[l].retired) : s.lanes[l].retired[p] = y
KeptOut(s) ==
  \A t \in TurnsOf(s), y \in Ids :
    ~Done(s, t) /\ y \in s.turns[t].ids => ~Remembers(s, s.turns[t].lane, y)

\* After an id of a past turn, a lane remembers ids of that turn and of later ones.
InOrder(s) ==
  \A t \in TurnsOf(s) : Done(s, t) =>
    LET q == s.lanes[s.turns[t].lane].retired
    IN \A a, b \in 1..Len(q) :
         a <= b /\ q[a] \in s.turns[t].ids => q[b] \in PastUse(s, s.turns[t].lane, t)

\* What a lane has forgotten, or used again, has many ids after it.
Forgets(s) ==
  \A t \in TurnsOf(s), y \in Ids :
    Done(s, t) /\ y \in s.turns[t].ids =>
      \/ Remembers(s, s.turns[t].lane, y)
      \/ Many(PastUse(s, s.turns[t].lane, t))
Reuse(s) ==
  \A t, u \in TurnsOf(s), y \in Ids :
    t < u /\ s.turns[t].lane = s.turns[u].lane /\ y \in s.turns[t].ids /\ y \in s.turns[u].ids
      => Many(UsedBy(s, s.turns[t].lane, t, u))

PalabraInv(s, x) ==
  /\ s \in States /\ HoldsTurn(s) /\ Placed(s) /\ Unused(s) /\ LastSpeaks(s, x)
  /\ Memory(s) /\ KeptOut(s) /\ InOrder(s) /\ Forgets(s) /\ Reuse(s)

LEMMA ManyMore ==
  ASSUME NEW X, NEW Y, X \subseteq Y, Many(X)
  PROVE  Many(Y)
<1>1. PICK f \in [1..(MaxRetired + 1) -> X] : \A a, b \in 1..(MaxRetired + 1) : f[a] = f[b] => a = b
  BY DEF Many
<1>2. f \in [1..(MaxRetired + 1) -> Y]
  BY <1>1
<1>. QED  BY <1>1, <1>2 DEF Many

\* A step that ends no turn that was started, starts none and uses no id; and one that
\* leaves their aborts and what they heard alone too.
Mild(s, u) ==
  /\ u \in States
  /\ Len(u.turns) = Len(s.turns) /\ Len(s.lanes) <= Len(u.lanes) /\ u.at <= Len(u.lanes)
  /\ \A t \in TurnsOf(s) :
       /\ u.turns[t].ids = s.turns[t].ids /\ u.turns[t].lane = s.turns[t].lane
       /\ u.turns[t].heard = s.turns[t].heard \/ s.turns[t].life \notin Waiting
       /\ \/ u.turns[t].life = s.turns[t].life
          \/ s.turns[t].life \in Waiting /\ u.turns[t].life # "active"
  /\ \A i \in LanesOf(s) : u.lanes[i].retired = s.lanes[i].retired
                           /\ u.lanes[i].turn \in {0, s.lanes[i].turn}
  /\ \A i \in LanesOf(u) : i > Len(s.lanes) => u.lanes[i].turn = 0 /\ u.lanes[i].retired = <<>>
Calm(s, u) ==
  /\ Mild(s, u)
  /\ \A t \in TurnsOf(s) : u.turns[t].aborted = s.turns[t].aborted
                            /\ u.turns[t].heard = s.turns[t].heard

LEMMA Counts ==
  ASSUME NEW s \in States
  PROVE  /\ Len(s.lanes) \in Nat /\ Len(s.turns) \in Nat /\ s.at \in Nat
         /\ \A i \in LanesOf(s) : s.lanes[i] \in LaneRecs /\ Len(s.lanes[i].retired) \in Nat
         /\ \A t \in TurnsOf(s) : s.turns[t] \in TurnRecs
<1>1. s.lanes \in Seq(LaneRecs) /\ s.turns \in Seq(TurnRecs) /\ s.at \in Nat
  BY DEF States
<1>2. \A i \in LanesOf(s) : s.lanes[i] \in LaneRecs
  BY <1>1, ElementOfSeq DEF LanesOf
<1>3. \A i \in LanesOf(s) : Len(s.lanes[i].retired) \in Nat
  BY <1>2 DEF LaneRecs
<1>. QED  BY <1>1, <1>2, <1>3, ElementOfSeq DEF TurnsOf

LEMMA MildStays ==
  ASSUME NEW s, NEW x, NEW z, PalabraInv(s, x), NEW u, Mild(s, u), LastSpeaks(u, z)
  PROVE  PalabraInv(u, z)
<1>0. s \in States /\ u \in States
  BY DEF PalabraInv, Mild
<1>1. /\ TurnsOf(u) = TurnsOf(s)
      /\ \A i \in LanesOf(s) : i \in LanesOf(u)
      /\ \A i \in LanesOf(u) : i \notin LanesOf(s) => i > Len(s.lanes)
  BY <1>0, Counts DEF Mild, TurnsOf, LanesOf
<1>2. \A t \in TurnsOf(s) : s.turns[t].lane \in LanesOf(s)
  BY DEF PalabraInv, Placed
<1>3. \A t \in TurnsOf(s) : Done(s, t) => Done(u, t)
  BY DEF Mild, Done, Past, Waiting
<1>4. \A t \in TurnsOf(s) : ~Done(s, t) /\ Done(u, t) => u.turns[t].ids = {}
  BY DEF Mild, Done, Unused, PalabraInv
<1>6. \A l \in LanesOf(s), y \in Ids : Remembers(u, l, y) <=> Remembers(s, l, y)
  BY DEF Mild, Remembers
<1>7. \A l, a : PastUse(s, l, a) \subseteq PastUse(u, l, a)
  BY <1>1, <1>3 DEF Mild, PastUse
<1>8. \A l, a, b : UsedBy(s, l, a, b) \subseteq UsedBy(u, l, a, b)
  BY <1>1 DEF Mild, UsedBy
<1>9. HoldsTurn(u)
  <2>. SUFFICES ASSUME NEW i \in LanesOf(u), u.lanes[i].turn # 0
                PROVE  /\ u.lanes[i].turn \in TurnsOf(u)
                       /\ u.turns[u.lanes[i].turn].lane = i
                       /\ u.turns[u.lanes[i].turn].life \notin Waiting
    BY DEF HoldsTurn
  <2>1. i \in LanesOf(s) /\ u.lanes[i].turn = s.lanes[i].turn
    BY <1>1 DEF Mild
  <2>2. PICK t : t = s.lanes[i].turn
    OBVIOUS
  <2>3. t \in TurnsOf(s) /\ s.turns[t].lane = i /\ s.turns[t].life \notin Waiting
    BY <2>1, <2>2 DEF PalabraInv, HoldsTurn
  <2>. QED  BY <1>1, <2>1, <2>2, <2>3 DEF Mild
<1>10. Placed(u)
  BY <1>1, <1>2 DEF Mild, Placed
<1>11. Unused(u)
  BY <1>1 DEF PalabraInv, Mild, Unused, Waiting
<1>12. Memory(u)
  <2>. SUFFICES ASSUME NEW i \in LanesOf(u)
                PROVE  Len(u.lanes[i].retired) <= MaxRetired /\ Distinct(u.lanes[i].retired)
    BY DEF Memory
  <2>1. CASE i \in LanesOf(s)
    BY <2>1 DEF PalabraInv, Memory, Mild
  <2>2. CASE i \notin LanesOf(s)
    BY <2>2, <1>1, ProvidersAssumption DEF Mild, Distinct, Palabra!RetiredAssumption
  <2>. QED  BY <2>1, <2>2
<1>13. KeptOut(u)
  BY <1>1, <1>2, <1>3, <1>6 DEF PalabraInv, Mild, KeptOut
<1>14. InOrder(u)
  <2>. SUFFICES ASSUME NEW t \in TurnsOf(s), Done(u, t), NEW l, l = u.turns[t].lane,
                       NEW q, q = u.lanes[l].retired,
                       NEW a \in 1..Len(q), NEW b \in 1..Len(q), a <= b, q[a] \in u.turns[t].ids
                PROVE  q[b] \in PastUse(u, l, t)
    BY <1>1 DEF InOrder
  <2>1. Done(s, t) /\ q[a] \in s.turns[t].ids
    BY <1>4 DEF Mild
  <2>2. l = s.turns[t].lane /\ q = s.lanes[l].retired
    BY <1>2, ZenonT(60) DEF Mild
  <2>3. q[b] \in PastUse(s, l, t)
    BY <2>1, <2>2, ZenonT(60) DEF PalabraInv, InOrder
  <2>. QED  BY <2>3, <1>7
<1>15. Forgets(u)
  <2>. SUFFICES ASSUME NEW t \in TurnsOf(s), NEW y \in Ids, Done(u, t), y \in u.turns[t].ids,
                       ~Remembers(u, u.turns[t].lane, y)
                PROVE  Many(PastUse(u, u.turns[t].lane, t))
    BY <1>1 DEF Forgets
  <2>1. Done(s, t) /\ y \in s.turns[t].ids /\ u.turns[t].lane = s.turns[t].lane
    BY <1>4 DEF Mild
  <2>2. ~Remembers(s, s.turns[t].lane, y)
    BY <1>2, <1>6, <2>1
  <2>3. Many(PastUse(s, s.turns[t].lane, t))
    BY <2>1, <2>2 DEF PalabraInv, Forgets
  <2>. QED  BY <2>1, <2>3, <1>7, ManyMore
<1>16. Reuse(u)
  <2>. SUFFICES ASSUME NEW t \in TurnsOf(s), NEW w \in TurnsOf(s), NEW y \in Ids, t < w,
                       u.turns[t].lane = u.turns[w].lane, y \in u.turns[t].ids, y \in u.turns[w].ids
                PROVE  Many(UsedBy(u, u.turns[t].lane, t, w))
    BY <1>1 DEF Reuse
  <2>1. Many(UsedBy(s, s.turns[t].lane, t, w))
    BY DEF PalabraInv, Reuse, Mild
  <2>. QED  BY <2>1, <1>8, ManyMore DEF Mild
<1>. QED  BY <1>0, <1>9, <1>10, <1>11, <1>12, <1>13, <1>14, <1>15, <1>16 DEF PalabraInv

LEMMA CalmStays ==
  ASSUME NEW s, NEW x, PalabraInv(s, x), NEW u, Calm(s, u)
  PROVE  PalabraInv(u, x)
<1>1. Len(u.turns) = Len(s.turns) /\ TurnsOf(u) = TurnsOf(s)
  BY DEF Calm, Mild, TurnsOf
<1>2. \A t \in TurnsOf(s) : Done(s, t) => Done(u, t)
  BY DEF Calm, Mild, Done, Past, Waiting
<1>3. LastSpeaks(u, x)
  BY <1>1, <1>2 DEF PalabraInv, Calm, Mild, LastSpeaks
<1>. QED  BY <1>3, MildStays DEF Calm

-----------------------------------------------------------------------------
(* Edits of the record.                                                     *)

LEMMA EditSeq ==
  ASSUME NEW X, NEW q \in Seq(X), NEW i \in 1..Len(q), NEW x \in X,
         NEW r, r = [q EXCEPT ![i] = x]
  PROVE  /\ r \in Seq(X) /\ Len(r) = Len(q)
         /\ \A j \in 1..Len(q) : r[j] = IF j = i THEN x ELSE q[j]
<1>1. PICK n \in Nat : n = Len(q) /\ DOMAIN q = 1..n /\ q \in [1..n -> X]
  BY LenProperties
<1>2. r \in [1..n -> X] /\ \A j \in 1..n : r[j] = IF j = i THEN x ELSE q[j]
  BY <1>1
<1>3. r \in Seq(X) /\ Len(r) = n
  BY <1>1, <1>2, SeqDef, LenProperties
<1>. QED  BY <1>1, <1>2, <1>3

\* A lane of a state, or a turn, is another.
LaneIs(s, u, i, l) ==
  /\ Len(u.lanes) = Len(s.lanes)
  /\ \A j \in LanesOf(s) : u.lanes[j] = IF j = i THEN l ELSE s.lanes[j]
TurnIs(s, u, t, n) ==
  /\ Len(u.turns) = Len(s.turns)
  /\ \A v \in TurnsOf(s) : u.turns[v] = IF v = t THEN n ELSE s.turns[v]
OthersAs(s, u) == u.call = s.call /\ u.strays = s.strays /\ u.orphan = s.orphan /\ u.over = s.over

LEMMA EditLane ==
  ASSUME NEW s \in States, NEW i \in LanesOf(s), NEW l \in LaneRecs,
         NEW u, u = [s EXCEPT !.lanes = [s.lanes EXCEPT ![i] = l]]
  PROVE  u \in States /\ LaneIs(s, u, i, l) /\ u.turns = s.turns /\ u.at = s.at
<1>1. s.lanes \in Seq(LaneRecs) /\ i \in 1..Len(s.lanes)
  BY DEF States, LanesOf
<1>2. PICK r : r = [s.lanes EXCEPT ![i] = l]
  OBVIOUS
<1>3. r \in Seq(LaneRecs) /\ Len(r) = Len(s.lanes)
      /\ \A j \in 1..Len(s.lanes) : r[j] = IF j = i THEN l ELSE s.lanes[j]
  BY <1>1, <1>2, EditSeq
<1>4. u = [s EXCEPT !.lanes = r]
  BY <1>2
<1>. QED  BY <1>3, <1>4 DEF States, LaneIs, LanesOf

LEMMA EditTurn ==
  ASSUME NEW s \in States, NEW t \in TurnsOf(s), NEW n \in TurnRecs,
         NEW u, u = [s EXCEPT !.turns = [s.turns EXCEPT ![t] = n]]
  PROVE  u \in States /\ TurnIs(s, u, t, n) /\ u.lanes = s.lanes /\ u.at = s.at
<1>1. s.turns \in Seq(TurnRecs) /\ t \in 1..Len(s.turns)
  BY DEF States, TurnsOf
<1>2. PICK r : r = [s.turns EXCEPT ![t] = n]
  OBVIOUS
<1>3. r \in Seq(TurnRecs) /\ Len(r) = Len(s.turns)
      /\ \A v \in 1..Len(s.turns) : r[v] = IF v = t THEN n ELSE s.turns[v]
  BY <1>1, <1>2, EditSeq
<1>4. u = [s EXCEPT !.turns = r]
  BY <1>2
<1>. QED  BY <1>3, <1>4 DEF States, TurnIs, TurnsOf

LEMMA EditCalm ==
  ASSUME NEW s, NEW x, PalabraInv(s, x), NEW i \in LanesOf(s), NEW l \in LaneRecs,
         l.retired = s.lanes[i].retired, l.turn = s.lanes[i].turn,
         NEW u, u = [s EXCEPT !.lanes = [s.lanes EXCEPT ![i] = l]]
  PROVE  Calm(s, u)
<1>1. s \in States /\ s.at <= Len(s.lanes)
  BY DEF PalabraInv, Placed
<1>2. u \in States /\ LaneIs(s, u, i, l) /\ u.turns = s.turns /\ u.at = s.at
  BY <1>1, EditLane
<1>. QED  BY <1>1, <1>2, Counts DEF Calm, Mild, LaneIs, LanesOf

\* Steps that touch neither a lane nor a turn.
LEMMA OtherCalm ==
  ASSUME NEW s, NEW x, PalabraInv(s, x),
         NEW u \in States, u.lanes = s.lanes, u.turns = s.turns, u.at <= Len(s.lanes)
  PROVE  Calm(s, u)
BY Counts DEF Calm, Mild, LanesOf, PalabraInv

\* What every step keeps of the turns.
Kept(s, u) ==
  /\ Len(u.turns) = Len(s.turns) /\ Len(s.lanes) <= Len(u.lanes)
  /\ \A t \in TurnsOf(s) : (Done(s, t) => Done(u, t)) /\ u.turns[t].aborted = s.turns[t].aborted

LEMMA KeptTwice ==
  ASSUME NEW s \in States, NEW v \in States, NEW u \in States, Kept(s, v), Kept(v, u)
  PROVE  Kept(s, u)
<1>1. TurnsOf(v) = TurnsOf(s)
  BY DEF Kept, TurnsOf
<1>. QED  BY <1>1, Counts DEF Kept
LEMMA KeptSame ==
  ASSUME NEW s \in States
  PROVE  Kept(s, s)
BY Counts DEF Kept

LEMMA CalmKept ==
  ASSUME NEW s, NEW x, PalabraInv(s, x), NEW u, Calm(s, u)
  PROVE  PalabraInv(u, x) /\ Kept(s, u)
<1>1. Kept(s, u)
  BY DEF Calm, Mild, Kept, Done, Waiting, Past
<1>. QED  BY <1>1, CalmStays

-----------------------------------------------------------------------------
(* A turn that was started ends and leaves its ids with its lane.           *)

\* What EndTurn changes.
Ends(s, u, t, life, i, all) ==
  /\ u \in States /\ u.at = s.at /\ OthersAs(s, u)
  /\ TurnIs(s, u, t, [s.turns[t] EXCEPT !.life = life, !.heard = {}])
  /\ Len(u.lanes) = Len(s.lanes)
  /\ \A j \in LanesOf(s) :
       /\ j # i => u.lanes[j] = s.lanes[j]
       /\ u.lanes[j].turn \in {0, s.lanes[j].turn}
       /\ u.lanes[j].turn # t
  /\ Chain(s.lanes[i].retired, s.turns[t].ids, all)
  /\ EndOf(all, u.lanes[i].retired)

LEMMA EndTurnEnds ==
  ASSUME NEW s, NEW x, PalabraInv(s, x), NEW t \in TurnsOf(s), NEW life \in Past,
         NEW i, i = s.turns[t].lane
  PROVE  \E all : Ends(s, Palabra!EndTurn(s, t, life), t, life, i, all)
<1>0. /\ s \in States /\ i \in LanesOf(s) /\ i \in Nat /\ t \in Nat \ {0}
      /\ s.lanes[i] \in LaneRecs /\ s.turns[t] \in TurnRecs
      /\ IsFiniteSet(s.turns[t].ids) /\ Distinct(s.lanes[i].retired)
  <2>1. s \in States /\ Placed(s) /\ Unused(s) /\ Memory(s)
    BY DEF PalabraInv
  <2>2. /\ Len(s.lanes) \in Nat /\ Len(s.turns) \in Nat /\ s.turns[t] \in TurnRecs
        /\ \A j \in LanesOf(s) : s.lanes[j] \in LaneRecs
    BY <2>1, Counts
  <2>3. i \in LanesOf(s)
    BY <2>1 DEF Placed
  <2>4. i \in Nat /\ t \in Nat \ {0}
    BY <2>2, <2>3 DEF LanesOf, TurnsOf
  <2>5. IsFiniteSet(s.turns[t].ids)
    BY <2>1 DEF Unused
  <2>6. Distinct(s.lanes[i].retired)
    BY <2>1, <2>3 DEF Memory
  <2>. QED  BY <2>1, <2>2, <2>3, <2>4, <2>5, <2>6
<1>1. PICK n : n = [s.turns[t] EXCEPT !.life = life, !.heard = {}]
  OBVIOUS
<1>2. n \in TurnRecs
  BY <1>0, <1>1 DEF TurnRecs, Past
<1>3. PICK w : w = [s EXCEPT !.turns = [s.turns EXCEPT ![t] = n]]
  OBVIOUS
<1>4. w \in States /\ TurnIs(s, w, t, n) /\ w.lanes = s.lanes /\ w.at = s.at
  BY <1>0, <1>2, <1>3, EditTurn
<1>5. PICK r : r = Palabra!Retire(s.lanes[i].retired, s.turns[t].ids)
  BY SMTT(30)
<1>6. PICK all : Chain(s.lanes[i].retired, s.turns[t].ids, all) /\ EndOf(all, r)
  <2>1. s.lanes[i].retired \in Seq(Ids) /\ s.turns[t].ids \in SUBSET Ids
    BY <1>0 DEF LaneRecs, TurnRecs
  <2>. QED  BY <2>1, <1>0, <1>5, Retired, SMTT(30)
<1>7. PICK k : k = IF s.lanes[i].turn = t THEN 0 ELSE s.lanes[i].turn
  OBVIOUS
<1>8. PICK m : m = [s.lanes[i] EXCEPT !.turn = k]
  BY ZenonT(60)
<1>9. m \in LaneRecs /\ m.retired = s.lanes[i].retired /\ m.turn = k
  BY <1>0, <1>7, <1>8, ZenonT(60) DEF LaneRecs
<1>10. PICK v : v = [w EXCEPT !.lanes = [w.lanes EXCEPT ![i] = m]]
  OBVIOUS
<1>11. LanesOf(w) = LanesOf(s)
  BY <1>4 DEF LanesOf
<1>12. v \in States /\ LaneIs(w, v, i, m) /\ v.turns = w.turns /\ v.at = w.at
  BY <1>0, <1>4, <1>9, <1>10, <1>11, EditLane
<1>13. PICK l : l = [m EXCEPT !.retired = r]
  OBVIOUS
<1>14. l \in LaneRecs /\ l.retired = r /\ l.turn = k
  BY <1>6, <1>9, <1>13 DEF LaneRecs, EndOf
<1>15. PICK u : u = [v EXCEPT !.lanes = [v.lanes EXCEPT ![i] = l]]
  OBVIOUS
<1>16. LanesOf(v) = LanesOf(s) /\ v.lanes[i] = m
  BY <1>0, <1>11, <1>12 DEF LanesOf, LaneIs
<1>17. u \in States /\ LaneIs(v, u, i, l) /\ u.turns = v.turns /\ u.at = v.at
  BY <1>0, <1>12, <1>14, <1>15, <1>16, EditLane, SMTT(30)
<1>18. Palabra!EndTurn(s, t, life) = u
  <2>1. w = [s EXCEPT !.turns[t].life = life, !.turns[t].heard = {}]
    BY <1>0, <1>1, <1>3 DEF States
  <2>2. v = [w EXCEPT !.lanes[i].turn = k]
    BY <1>4, <1>8, <1>10 DEF States
  <2>3. u = [v EXCEPT !.lanes[i].retired = r]
    BY <1>12, <1>13, <1>15, <1>16 DEF States
  <2>4. Palabra!EndTurn(s, t, life)
        = [s EXCEPT !.turns[t].life = life, !.turns[t].heard = {},
                    !.lanes[i].turn = k, !.lanes[i].retired = r]
    BY <1>5, <1>7 DEF Palabra!EndTurn
  <2>5. u = [w EXCEPT !.lanes[i].turn = k, !.lanes[i].retired = r]
    BY <2>2, <2>3
  <2>6. [s EXCEPT !.turns[t].life = life, !.turns[t].heard = {},
                  !.lanes[i].turn = k, !.lanes[i].retired = r]
        = [w EXCEPT !.lanes[i].turn = k, !.lanes[i].retired = r]
    BY <2>1
  <2>. QED  BY <2>4, <2>5, <2>6
<1>19. \A j \in LanesOf(s) : j # i => s.lanes[j].turn # t
  BY <1>0 DEF PalabraInv, HoldsTurn
<1>20. OthersAs(s, u)
  BY <1>0, <1>3, <1>10, <1>15 DEF OthersAs, States
<1>. QED
  <2>1. TurnIs(s, u, t, n)
    BY <1>4, <1>12, <1>17 DEF TurnIs, TurnsOf
  <2>2. Len(u.lanes) = Len(s.lanes) /\ \A j \in LanesOf(s) : u.lanes[j] = IF j = i THEN l ELSE s.lanes[j]
    BY <1>4, <1>11, <1>12, <1>16, <1>17, SMTT(30) DEF LaneIs
  <2>3. \A j \in LanesOf(s) : u.lanes[j].turn \in {0, s.lanes[j].turn} /\ u.lanes[j].turn # t
    BY <2>2, <1>0, <1>7, <1>14, <1>19
  <2>4. u.lanes[i].retired = r
    BY <2>2, <1>0, <1>14
  <2>5. Ends(s, u, t, life, i, all)
    BY <1>1, <1>4, <1>6, <1>12, <1>17, <1>20, <2>1, <2>2, <2>3, <2>4, ZenonT(60) DEF Ends
  <2>. QED  BY <2>5, <1>18

-----------------------------------------------------------------------------
(* A turn that ends keeps the invariant.                                    *)
LEMMA EndsStays ==
  ASSUME NEW s, NEW x, PalabraInv(s, x), NEW t \in TurnsOf(s), s.turns[t].life = "active",
         NEW life \in Past, NEW i, i = s.turns[t].lane, NEW u, NEW all, Ends(s, u, t, life, i, all)
  PROVE  PalabraInv(u, x)
<1>known. PICK known : known = s.lanes[i].retired
  OBVIOUS
<1>kept. PICK kept : kept = u.lanes[i].retired
  OBVIOUS
<1>used. PICK used : used = s.turns[t].ids
  OBVIOUS
<1> USE <1>known, <1>kept, <1>used
<1>ends. Chain(known, used, all) /\ EndOf(all, kept)
  BY ZenonT(60) DEF Ends
<1>0. /\ s \in States /\ u \in States /\ i \in LanesOf(s)
      /\ TurnsOf(u) = TurnsOf(s) /\ LanesOf(u) = LanesOf(s)
  BY ZenonT(60) DEF PalabraInv, Placed, Ends, TurnIs, TurnsOf, LanesOf
<1>1. /\ Len(s.turns) \in Nat /\ s.turns[t] \in TurnRecs
      /\ Len(known) \in Nat /\ Len(kept) \in Nat /\ Len(all) \in Nat
  <2>1. known \in Seq(Ids)
    BY <1>0, Counts DEF LaneRecs
  <2>2. Len(s.turns) \in Nat /\ s.turns[t] \in TurnRecs
    BY <1>0, Counts, SMTT(30)
  <2>3. all \in Seq(Ids)
    BY <1>ends DEF Chain
  <2>4. kept \in Seq(Ids)
    BY <1>ends, ZenonT(60) DEF EndOf
  <2>5. Len(known) \in Nat
    BY <2>1, LenProperties
  <2>6. Len(all) \in Nat
    BY <2>3, LenProperties
  <2>7. Len(kept) \in Nat
    BY <2>4, LenProperties
  <2>. QED  BY <2>5, <2>6, <2>7, <2>2
<1>lens. /\ Len(known) <= Len(all) /\ Len(kept) <= Len(all) /\ Len(kept) <= MaxRetired
         /\ Len(kept) < Len(all) => Len(kept) = MaxRetired
  BY <1>ends, ZenonT(60) DEF Chain, EndOf
<1>d. PICK d : d = Len(all) - Len(kept)
  OBVIOUS
<1>nat. /\ d \in Nat /\ Len(known) \in Nat /\ Len(kept) \in Nat /\ Len(all) \in Nat
        /\ MaxRetired \in Nat /\ (d > 0 => Len(kept) = MaxRetired)
        /\ Len(all) = Len(kept) + d /\ Len(known) <= Len(all)
  <2>. HIDE <1>known, <1>kept, <1>used
  <2>. QED  BY <1>1, <1>lens, <1>d, ProvidersAssumption DEF Palabra!RetiredAssumption
<1>in. \A p \in 1..Len(known) : p \in 1..Len(all)
  <2>. HIDE <1>known, <1>kept, <1>used
  <2>. QED  BY <1>nat, SMTT(30)
<1>first. \A j \in 1..Len(known) : all[j] = known[j]
  BY <1>ends, SMTT(30) DEF Chain
<1>then. \A j \in 1..Len(all) : j > Len(known) => all[j] \in used
  BY <1>ends, SMTT(30) DEF Chain
<1>each. \A y \in used : \E j \in 1..Len(all) : all[j] = y
  BY <1>ends, SMTT(30) DEF Chain
<1>once. \A a, b \in 1..Len(all) : all[a] = all[b] => a = b
  BY <1>ends DEF Chain, Distinct
<1>last. \A j \in 1..Len(kept) : kept[j] = all[j + d]
  BY <1>ends, <1>d, ZenonT(60) DEF EndOf
<1>2. \A v \in TurnsOf(s) :
        /\ u.turns[v].ids = s.turns[v].ids /\ u.turns[v].lane = s.turns[v].lane
        /\ u.turns[v].aborted = s.turns[v].aborted
        /\ u.turns[v].life = IF v = t THEN life ELSE s.turns[v].life
        /\ u.turns[v].heard = IF v = t THEN {} ELSE s.turns[v].heard
  <2>1. PICK n : n = [s.turns[t] EXCEPT !.life = life, !.heard = {}]
    OBVIOUS
  <2>2. n.ids = used /\ n.lane = i /\ n.aborted = s.turns[t].aborted /\ n.life = life /\ n.heard = {}
    BY <1>1, <2>1 DEF TurnRecs
  <2>3. \A v \in TurnsOf(s) : u.turns[v] = IF v = t THEN n ELSE s.turns[v]
    BY <2>1, ZenonT(60) DEF Ends, TurnIs
  <2>. QED  BY <2>2, <2>3
<1>3. /\ ~Done(s, t) /\ Done(u, t)
      /\ \A v \in TurnsOf(s) : (Done(s, v) => Done(u, v)) /\ (Done(u, v) => Done(s, v) \/ v = t)
  BY <1>2 DEF Done, Past
<1>4. \A v \in TurnsOf(s) : s.turns[v].lane \in LanesOf(s)
  BY DEF PalabraInv, Placed
<1>5. \A l, a : PastUse(s, l, a) \subseteq PastUse(u, l, a)
  BY <1>0, <1>2, <1>3 DEF PastUse
<1>6. \A l, a, b : UsedBy(s, l, a, b) = UsedBy(u, l, a, b)
  BY <1>0, <1>2 DEF UsedBy
<1>7. \A l \in LanesOf(s) : l # i => u.lanes[l] = s.lanes[l]
  BY ZenonT(60) DEF Ends
<1>8. \A l \in LanesOf(s), y \in Ids : l # i => (Remembers(u, l, y) <=> Remembers(s, l, y))
  BY <1>7 DEF Remembers
<1>9. used # {} => t = Len(s.turns)
  BY <1>3 DEF PalabraInv, LastSpeaks
<1>10. \A y \in used : ~Remembers(s, i, y)
  BY <1>1, <1>3 DEF PalabraInv, KeptOut, TurnRecs
\* The sequence that the lane's memory is the end of keeps the order of the turns.
<1>11. \A v \in TurnsOf(s) : Done(u, v) /\ s.turns[v].lane = i =>
         \A a, b \in 1..Len(all) :
           a <= b /\ all[a] \in s.turns[v].ids => all[b] \in PastUse(u, i, v)
  <2>. SUFFICES ASSUME NEW v \in TurnsOf(s), Done(u, v), s.turns[v].lane = i,
                       NEW a \in 1..Len(all), NEW b \in 1..Len(all), a <= b,
                       all[a] \in s.turns[v].ids
                PROVE  all[b] \in PastUse(u, i, v)
    OBVIOUS
  <2>1. CASE b > Len(known)
    <3>1. all[b] \in used /\ all[b] \in Ids
      BY <2>1, <1>1, <1>then DEF TurnRecs
    <3>2. v <= t
      BY <3>1, <1>1, <1>9 DEF TurnsOf
    <3>. QED  BY <1>0, <1>2, <1>3, <3>1, <3>2 DEF PastUse
  <2>2. CASE b <= Len(known)
    <3>1. a \in 1..Len(known) /\ b \in 1..Len(known) /\ all[a] = known[a] /\ all[b] = known[b]
      <4>1. a \in 1..Len(known) /\ b \in 1..Len(known)
        BY <2>2, <1>nat
      <4>. QED  BY <4>1, <1>first, SMTT(30)
    <3>2. v # t
      BY <3>1, <1>1, <1>10, ZenonT(60) DEF Remembers, TurnRecs
    <3>3. Done(s, v)
      BY <1>3, <3>2
    <3>4. known[b] \in PastUse(s, i, v)
      BY <3>1, <3>3, ZenonT(60) DEF PalabraInv, InOrder
    <3>. QED  BY <3>1, <3>4, <1>5, SMTT(30)
  <2>3. b \in Nat /\ Len(known) \in Nat
    BY <1>nat, SMTT(30)
  <2>. QED  BY <2>1, <2>2, <2>3, SMTT(30)
<1>12. HoldsTurn(u)
  <2>. SUFFICES ASSUME NEW j \in LanesOf(s), u.lanes[j].turn # 0
                PROVE  /\ u.lanes[j].turn \in TurnsOf(s)
                       /\ u.turns[u.lanes[j].turn].lane = j
                       /\ u.turns[u.lanes[j].turn].life \notin Waiting
    BY <1>0 DEF HoldsTurn
  <2>1. u.lanes[j].turn = s.lanes[j].turn /\ u.lanes[j].turn # t
    BY ZenonT(60) DEF Ends
  <2>2. PICK v : v = s.lanes[j].turn
    OBVIOUS
  <2>3. v \in TurnsOf(s) /\ s.turns[v].lane = j /\ s.turns[v].life \notin Waiting
    BY <2>1, <2>2 DEF PalabraInv, HoldsTurn
  <2>. QED  BY <1>2, <2>1, <2>2, <2>3
<1>13. Placed(u)
  BY <1>0, <1>2, <1>4, ZenonT(60) DEF PalabraInv, Placed, Ends
<1>14. Unused(u)
  BY <1>0, <1>2 DEF PalabraInv, Unused, Waiting, Past
<1>15. LastSpeaks(u, x)
  <2>1. Len(u.turns) = Len(s.turns)
    BY ZenonT(60) DEF Ends, TurnIs
  <2>. QED  BY <1>0, <1>2, <1>3, <2>1 DEF PalabraInv, LastSpeaks
<1>16. Memory(u)
  <2>1. Len(kept) <= MaxRetired /\ Distinct(kept)
    BY <1>ends, <1>lens, ZenonT(60) DEF EndOf
  <2>. QED  BY <1>0, <1>7, <2>1 DEF PalabraInv, Memory
<1>17. KeptOut(u)
  <2>. SUFFICES ASSUME NEW v \in TurnsOf(s), NEW y \in Ids, ~Done(u, v), y \in s.turns[v].ids
                PROVE  ~Remembers(u, s.turns[v].lane, y)
    BY <1>0, <1>2 DEF KeptOut
  <2>1. v # t /\ ~Done(s, v) /\ v = Len(s.turns)
    BY <1>3 DEF PalabraInv, LastSpeaks
  <2>2. ~Remembers(s, s.turns[v].lane, y)
    BY <2>1 DEF PalabraInv, KeptOut
  <2>3. CASE s.turns[v].lane # i
    BY <2>2, <2>3, <1>4, <1>8, SMTT(30)
  <2>4. CASE s.turns[v].lane = i
    <3>. SUFFICES ASSUME NEW p \in 1..Len(kept), kept[p] = y
                  PROVE  FALSE
      BY <2>4 DEF Remembers
    <3>1. used = {}
      BY <1>9, <2>1
    <3>2. PICK q \in 1..Len(all) : all[q] = y
      <4>1. p + d \in 1..Len(all)
        BY <1>nat, SMTT(30)
      <4>. QED  BY <4>1, <1>last
    <3>3. q \in 1..Len(known) /\ known[q] = y
      <4>1. ~(q > Len(known))
        BY <3>1, <1>then, SMTT(30)
      <4>2. q \in 1..Len(known)
        BY <4>1, <1>nat
      <4>. QED  BY <4>2, <3>2, <1>first
    <3>. QED  BY <3>3, <2>2, <2>4, SMTT(30) DEF Remembers
  <2>. QED  BY <2>3, <2>4
<1>18. InOrder(u)
  <2>. SUFFICES ASSUME NEW v \in TurnsOf(s), Done(u, v), NEW l, l = s.turns[v].lane,
                       NEW q, q = u.lanes[l].retired,
                       NEW a \in 1..Len(q), NEW b \in 1..Len(q), a <= b, q[a] \in s.turns[v].ids
                PROVE  q[b] \in PastUse(u, l, v)
    BY <1>0, <1>2, SMTT(30) DEF InOrder
  <2>1. CASE l = i
    <3>1. q = kept
      BY <2>1
    <3>2. a + d \in 1..Len(all) /\ b + d \in 1..Len(all) /\ a + d <= b + d
      BY <3>1, <1>nat, SMTT(30)
    <3>3. q[a] = all[a + d] /\ q[b] = all[b + d]
      BY <3>1, <1>last
    <3>. QED  BY <2>1, <3>2, <3>3, <1>11
  <2>2. CASE l # i
    <3>1. Done(s, v) /\ q = s.lanes[l].retired
      BY <2>2, <1>3, <1>4, <1>7, SMTT(30)
    <3>2. q[b] \in PastUse(s, l, v)
      BY <3>1 DEF PalabraInv, InOrder
    <3>. QED  BY <3>2, <1>5
  <2>. QED  BY <2>1, <2>2
<1>19. Forgets(u)
  <2>. SUFFICES ASSUME NEW v \in TurnsOf(s), NEW y \in Ids, Done(u, v), y \in s.turns[v].ids,
                       NEW l, l = s.turns[v].lane, ~Remembers(u, l, y)
                PROVE  Many(PastUse(u, l, v))
    BY <1>0, <1>2 DEF Forgets
  <2>1. CASE l # i
    <3>1. Done(s, v) /\ ~Remembers(s, l, y)
      BY <2>1, <1>3, <1>4, <1>8
    <3>2. Many(PastUse(s, l, v))
      BY <3>1 DEF PalabraInv, Forgets
    <3>. QED  BY <3>2, <1>5, ManyMore
  <2>2. CASE l = i /\ ~(\E j \in 1..Len(all) : all[j] = y)
    <3>1. y \notin used /\ ~Remembers(s, l, y)
      <4>1. y \notin used
        BY <2>2, <1>each
      <4>2. \A p \in 1..Len(known) : known[p] # y
        <5>. TAKE p \in 1..Len(known)
        <5>1. p \in 1..Len(all)
          BY <1>in
        <5>. QED  BY <5>1, <2>2, <1>first
      <4>. QED  BY <4>1, <4>2, <2>2, ZenonT(60) DEF Remembers
    <3>2. Done(s, v)
      BY <3>1, <1>3
    <3>3. Many(PastUse(s, l, v))
      BY <3>1, <3>2 DEF PalabraInv, Forgets
    <3>. QED  BY <3>3, <1>5, ManyMore
  <2>3. CASE l = i /\ \E j \in 1..Len(all) : all[j] = y
    <3>1. PICK j \in 1..Len(all) : all[j] = y
      BY <2>3
    <3>2. j <= d
      <4>. SUFFICES ASSUME j > d PROVE FALSE
        BY <1>nat
      <4>1. j - d \in 1..Len(kept) /\ (j - d) + d = j
        BY <1>nat, SMTT(30)
      <4>2. kept[j - d] = y
        BY <4>1, <3>1, <1>last
      <4>. QED  BY <4>1, <4>2, <2>3, ZenonT(60) DEF Remembers
    <3>3. Len(kept) = MaxRetired
      BY <3>2, <1>nat
    <3> DEFINE f == [a \in 1..(MaxRetired + 1) |-> all[(j - 1) + a]]
    <3>6. \A a \in 1..(MaxRetired + 1) : (j - 1) + a \in 1..Len(all) /\ j <= (j - 1) + a
      BY <3>2, <3>3, <1>nat
    <3>7. \A a \in 1..(MaxRetired + 1) : all[(j - 1) + a] \in PastUse(u, l, v)
      BY <3>1, <3>6, <2>3, <1>11
    <3>8. f \in [1..(MaxRetired + 1) -> PastUse(u, l, v)]
      BY <3>7
    <3>9. \A a, b \in 1..(MaxRetired + 1) : f[a] = f[b] => a = b
      <4>. SUFFICES ASSUME NEW a \in 1..(MaxRetired + 1), NEW b \in 1..(MaxRetired + 1), f[a] = f[b]
                    PROVE  a = b
        OBVIOUS
      <4>1. (j - 1) + a = (j - 1) + b
        BY <3>6, <1>once
      <4>. QED  BY <4>1, <1>nat
    <3>. HIDE DEF f
    <3>. QED  BY <3>8, <3>9 DEF Many
  <2>. QED  BY <2>1, <2>2, <2>3
<1>20. Reuse(u)
  BY <1>0, <1>2, <1>6 DEF PalabraInv, Reuse
<1>. QED  BY <1>0, <1>12, <1>13, <1>14, <1>15, <1>16, <1>17, <1>18, <1>19, <1>20 DEF PalabraInv

\* Whatever ends it, a turn takes the invariant along.
LEMMA EndTurnStays ==
  ASSUME NEW s, NEW x, PalabraInv(s, x), NEW t \in TurnsOf(s), s.turns[t].life = "active",
         NEW life \in Past, NEW u, u = Palabra!EndTurn(s, t, life)
  PROVE  PalabraInv(u, x) /\ Kept(s, u) /\ Done(u, t) /\ u.at = s.at /\ OthersAs(s, u)
<1>1. PICK i : i = s.turns[t].lane
  OBVIOUS
<1>2. PICK all : Ends(s, u, t, life, i, all)
  BY <1>1, EndTurnEnds
<1>3. PalabraInv(u, x)
  BY <1>1, <1>2, EndsStays
<1>4. s \in States /\ s.turns[t] \in TurnRecs
  BY Counts DEF PalabraInv
<1>5. Kept(s, u) /\ Done(u, t)
  <2>1. PICK n : n = [s.turns[t] EXCEPT !.life = life, !.heard = {}]
    OBVIOUS
  <2>2. n.aborted = s.turns[t].aborted /\ n.life = life
    BY <1>4, <2>1 DEF TurnRecs
  <2>3. \A v \in TurnsOf(s) : u.turns[v] = IF v = t THEN n ELSE s.turns[v]
    BY <1>2, <2>1 DEF Ends, TurnIs
  <2>4. Len(u.turns) = Len(s.turns) /\ Len(u.lanes) = Len(s.lanes) /\ Len(s.lanes) \in Nat
    BY <1>2, <1>4, Counts DEF Ends, TurnIs
  <2>. QED  BY <2>2, <2>3, <2>4 DEF Kept, Done, Past
<1>. QED  BY <1>2, <1>3, <1>5 DEF Ends

-----------------------------------------------------------------------------
(* What the steps of a lane are made of.                                    *)
Stays(s, u, x) == PalabraInv(u, x) /\ Kept(s, u)

LEMMA StaysTwice ==
  ASSUME NEW s, NEW x, PalabraInv(s, x), NEW v, Stays(s, v, x), NEW u, Stays(v, u, x)
  PROVE  Stays(s, u, x)
BY KeptTwice DEF Stays, PalabraInv
LEMMA StaysSame ==
  ASSUME NEW s, NEW x, PalabraInv(s, x)
  PROVE  Stays(s, s, x)
BY KeptSame DEF Stays, PalabraInv

LEMMA LaneStays ==
  ASSUME NEW s, NEW x, PalabraInv(s, x), NEW i \in LanesOf(s), NEW l \in LaneRecs,
         l.retired = s.lanes[i].retired, l.turn = s.lanes[i].turn,
         NEW u, u = [s EXCEPT !.lanes = [s.lanes EXCEPT ![i] = l]]
  PROVE  Stays(s, u, x) /\ u.turns = s.turns /\ LaneIs(s, u, i, l)
BY EditCalm, CalmKept, EditLane DEF Stays, PalabraInv

LEMMA LaneIn ==
  ASSUME NEW s, NEW x, PalabraInv(s, x), NEW i \in LanesOf(s)
  PROVE  s \in States /\ s.lanes[i] \in LaneRecs /\ i \in Nat \ {0}
<1>1. s \in States
  BY DEF PalabraInv
<1>2. Len(s.lanes) \in Nat /\ s.lanes[i] \in LaneRecs
  BY <1>1, Counts
<1>. QED  BY <1>1, <1>2 DEF LanesOf

LEMMA OtherStays ==
  ASSUME NEW s, NEW x, PalabraInv(s, x),
         NEW u \in States, u.lanes = s.lanes, u.turns = s.turns, u.at <= Len(s.lanes)
  PROVE  Stays(s, u, x)
BY OtherCalm, CalmKept DEF Stays

LEMMA RemovedStays ==
  ASSUME NEW s, NEW x, PalabraInv(s, x), NEW i, NEW u, u = Palabra!Removed(s, i)
  PROVE  Stays(s, u, x)
<1>1. s \in States /\ s.at <= Len(s.lanes) /\ s.at \in Nat /\ Len(s.lanes) \in Nat
  BY Counts DEF PalabraInv, Placed
<1>2. PICK k : k = IF s.at = i THEN 0 ELSE s.at
  OBVIOUS
<1>3. u = [s EXCEPT !.at = k]
  BY <1>2 DEF Palabra!Removed
<1>4. k \in Nat /\ k <= Len(s.lanes)
  BY <1>1, <1>2
<1>5. u \in States /\ u.lanes = s.lanes /\ u.turns = s.turns /\ u.at = k
  BY <1>1, <1>3, <1>4 DEF States
<1>. QED  BY <1>4, <1>5, OtherStays

LEMMA FailTurnStays ==
  ASSUME NEW s, NEW x, PalabraInv(s, x), NEW t \in TurnsOf(s), NEW u, u = Palabra!FailTurn(s, t)
  PROVE  Stays(s, u, x) /\ (s.turns[t].life = "active" => Done(u, t))
<1>1. CASE s.turns[t].life = "active"
  BY <1>1, EndTurnStays DEF Palabra!FailTurn, Past, Stays
<1>2. CASE s.turns[t].life # "active"
  BY <1>2, StaysSame DEF Palabra!FailTurn
<1>. QED  BY <1>1, <1>2

LEMMA AnswerStays ==
  ASSUME NEW s, NEW x, PalabraInv(s, x), NEW i \in LanesOf(s), NEW ok \in BOOLEAN,
         NEW u, u = Palabra!Answer(s, i, ok)
  PROVE  Stays(s, u, x)
<1>1. s \in States /\ s.lanes[i] \in LaneRecs /\ i \in Nat
  BY LaneIn
<1>2. Len(s.turns) \in Nat /\ s.at <= Len(s.lanes) /\ s.turns \in Seq(TurnRecs)
      /\ \A t \in TurnsOf(s) : s.turns[t] \in TurnRecs
  BY <1>1, Counts DEF PalabraInv, Placed, States
<1>3. PICK q : q = [t \in DOMAIN s.turns |->
                      IF s.turns[t].life = "preparing" /\ s.turns[t].lane = i
                      THEN [s.turns[t] EXCEPT !.life = IF ok THEN "prepared" ELSE "failed"]
                      ELSE s.turns[t]]
  OBVIOUS
<1>4. DOMAIN s.turns = 1..Len(s.turns)
  BY <1>2, LenProperties
<1>5. \A t \in TurnsOf(s) :
        /\ q[t] \in TurnRecs
        /\ q[t].ids = s.turns[t].ids /\ q[t].heard = s.turns[t].heard
        /\ q[t].lane = s.turns[t].lane /\ q[t].aborted = s.turns[t].aborted
        /\ \/ q[t].life = s.turns[t].life
           \/ s.turns[t].life \in Waiting /\ q[t].life # "active"
  <2>. TAKE t \in TurnsOf(s)
  <2>1. PICK b : b = IF ok THEN "prepared" ELSE "failed"
    OBVIOUS
  <2>2. q[t] = IF s.turns[t].life = "preparing" /\ s.turns[t].lane = i
               THEN [s.turns[t] EXCEPT !.life = b] ELSE s.turns[t]
    BY <1>3, <1>4, <2>1 DEF TurnsOf
  <2>. QED  BY <1>2, <2>1, <2>2, ZenonT(60) DEF TurnRecs, Waiting, Past
<1>6. q \in Seq(TurnRecs) /\ Len(q) = Len(s.turns)
  <2>1. q \in [1..Len(s.turns) -> TurnRecs]
    BY <1>3, <1>4, <1>5 DEF TurnsOf
  <2>. QED  BY <1>2, <2>1, SeqDef, LenProperties
<1>7. PICK v : v = [s EXCEPT !.turns = q]
  OBVIOUS
<1>8. v \in States /\ v.turns = q /\ v.lanes = s.lanes /\ v.at = s.at
  BY <1>1, <1>6, <1>7 DEF States
<1>9. Calm(s, v)
  BY <1>1, <1>2, <1>5, <1>6, <1>8, Counts DEF Calm, Mild, LanesOf
<1>10. Stays(s, v, x)
  BY <1>9, CalmKept DEF Stays
<1>11. PICK l : l = [s.lanes[i] EXCEPT !.prep = "none", !.prepared = ok]
  OBVIOUS
<1>12. l \in LaneRecs /\ l.retired = s.lanes[i].retired /\ l.turn = s.lanes[i].turn
  BY <1>1, <1>11 DEF LaneRecs
<1>13. PICK w : w = [v EXCEPT !.lanes = [v.lanes EXCEPT ![i] = l]]
  OBVIOUS
<1>14. Stays(v, w, x) /\ w.turns = q /\ LaneIs(v, w, i, l)
  BY <1>8, <1>10, <1>12, <1>13, LaneStays DEF Stays, LanesOf
<1>15. PICK c : c = IF s.call = i THEN 0 ELSE s.call
  OBVIOUS
<1>16. c \in Nat
  BY <1>1, <1>15 DEF States
<1>17. u = [w EXCEPT !.call = c]
  <2>1. u = [s EXCEPT !.call = c, !.lanes[i].prep = "none", !.lanes[i].prepared = ok, !.turns = q]
    BY <1>3, <1>15 DEF Palabra!Answer
  <2>2. PICK r : r = [s.lanes EXCEPT ![i] = l]
    OBVIOUS
  <2>3. r = [s.lanes EXCEPT ![i].prep = "none", ![i].prepared = ok]
    BY <1>1, <1>11, <2>2 DEF States
  <2>4. u = [s EXCEPT !.call = c, !.lanes = r, !.turns = q]
    BY <2>1, <2>3, <1>1 DEF States
  <2>5. w = [s EXCEPT !.lanes = r, !.turns = q]
    BY <1>1, <1>7, <1>8, <1>13, <2>2 DEF States
  <2>. QED  BY <2>4, <2>5, <1>1 DEF States
<1>18. w \in States /\ w.at <= Len(w.lanes)
  BY <1>14 DEF Stays, PalabraInv, Placed
<1>19. u \in States /\ u.lanes = w.lanes /\ u.turns = w.turns /\ u.at = w.at
  BY <1>16, <1>17, <1>18 DEF States
<1>20. Stays(w, u, x)
  BY <1>14, <1>18, <1>19, OtherStays DEF Stays
<1>. QED  BY <1>10, <1>14, <1>20, StaysTwice DEF Stays

-----------------------------------------------------------------------------
(* Steps that end a lane.                                                   *)
LEMMA FailLaneStays ==
  ASSUME NEW s, NEW x, PalabraInv(s, x), NEW i \in LanesOf(s), NEW u, u = Palabra!FailLane(s, i)
  PROVE  Stays(s, u, x)
<1>1. PICK t : t = s.lanes[i].turn
  OBVIOUS
<1>2. PICK v : v = IF t = 0 THEN s ELSE Palabra!FailTurn(s, t)
  OBVIOUS
<1>3. Stays(s, v, x)
  <2>1. CASE t = 0
    BY <1>2, <2>1, StaysSame
  <2>2. CASE t # 0
    <3>1. t \in TurnsOf(s)
      BY <1>1, <2>2 DEF PalabraInv, HoldsTurn
    <3>. QED  BY <1>2, <2>2, <3>1, FailTurnStays
  <2>. QED  BY <2>1, <2>2
<1>4. i \in LanesOf(v)
  BY <1>3, Counts DEF Stays, Kept, LanesOf, PalabraInv
<1>5. PICK w : w = IF s.lanes[i].prep = "asking" THEN Palabra!Answer(v, i, FALSE) ELSE v
  OBVIOUS
<1>6. Stays(v, w, x)
  BY <1>3, <1>4, <1>5, AnswerStays, StaysSame DEF Stays
<1>7. s \in States /\ s.lanes[i] \in LaneRecs /\ w \in States /\ w.at <= Len(w.lanes)
  BY <1>6, LaneIn DEF Stays, PalabraInv, Placed
<1>8. u = [w EXCEPT !.orphan = @ \/ i \in s.strays, !.strays = @ \ {i}]
  BY <1>1, <1>2, <1>5 DEF Palabra!FailLane
<1>11. u \in States /\ u.lanes = w.lanes /\ u.turns = w.turns /\ u.at = w.at
  BY <1>7, <1>8 DEF States
<1>12. Stays(w, u, x)
  BY <1>6, <1>7, <1>11, OtherStays DEF Stays
<1>. QED  BY <1>3, <1>6, <1>12, StaysTwice DEF Stays

LEMMA InLanes ==
  ASSUME NEW s, NEW x, PalabraInv(s, x), NEW u, Stays(s, u, x), NEW i \in LanesOf(s)
  PROVE  i \in LanesOf(u)
BY Counts DEF Stays, Kept, LanesOf, PalabraInv

LEMMA DropStays ==
  ASSUME NEW s, NEW x, PalabraInv(s, x), NEW i \in LanesOf(s), NEW u, u = Palabra!Drop(s, i)
  PROVE  Stays(s, u, x)
<1>1. PICK l : l = [s.lanes[i] EXCEPT !.closed = TRUE, !.prepared = FALSE, !.socket = "closed"]
  OBVIOUS
<1>2. l \in LaneRecs /\ l.retired = s.lanes[i].retired /\ l.turn = s.lanes[i].turn
  BY <1>1, LaneIn DEF LaneRecs
<1>3. PICK v : v = [s EXCEPT !.lanes = [s.lanes EXCEPT ![i] = l]]
  OBVIOUS
<1>4. v = [s EXCEPT !.lanes[i].closed = TRUE, !.lanes[i].prepared = FALSE,
                    !.lanes[i].socket = "closed"]
  BY <1>1, <1>3, LaneIn DEF States
<1>5. Stays(s, v, x)
  BY <1>2, <1>3, LaneStays
<1>6. PICK w : w = Palabra!FailLane(v, i)
  OBVIOUS
<1>7. Stays(v, w, x)
  BY <1>5, <1>6, InLanes, FailLaneStays DEF Stays
<1>8. u = Palabra!Removed(w, i)
  BY <1>4, <1>6 DEF Palabra!Drop
<1>9. Stays(w, u, x)
  BY <1>7, <1>8, RemovedStays DEF Stays
<1>. QED  BY <1>5, <1>7, <1>9, StaysTwice DEF Stays

LEMMA CloseNowStays ==
  ASSUME NEW s, NEW x, PalabraInv(s, x), NEW i \in LanesOf(s), NEW u, u = Palabra!CloseNow(s, i)
  PROVE  Stays(s, u, x)
<1>1. PICK l : l = [s.lanes[i] EXCEPT !.closed = TRUE, !.prepared = FALSE, !.socket = "closed",
                                      !.closing = FALSE]
  OBVIOUS
<1>2. l \in LaneRecs /\ l.retired = s.lanes[i].retired /\ l.turn = s.lanes[i].turn
  BY <1>1, LaneIn DEF LaneRecs
<1>3. PICK v : v = [s EXCEPT !.lanes = [s.lanes EXCEPT ![i] = l]]
  OBVIOUS
<1>4. v = [s EXCEPT !.lanes[i].closed = TRUE, !.lanes[i].prepared = FALSE,
                    !.lanes[i].socket = "closed", !.lanes[i].closing = FALSE]
  BY <1>1, <1>3, LaneIn, ZenonT(60) DEF States
<1>5. Stays(s, v, x)
  BY <1>2, <1>3, LaneStays
<1>6. u = Palabra!Removed(v, i)
  BY <1>4 DEF Palabra!CloseNow
<1>7. Stays(v, u, x)
  BY <1>5, <1>6, RemovedStays DEF Stays
<1>. QED  BY <1>5, <1>7, StaysTwice

LEMMA CloseLaneStays ==
  ASSUME NEW s, NEW x, PalabraInv(s, x), NEW i \in LanesOf(s), NEW graceful,
         NEW u, u = Palabra!CloseLane(s, i, graceful)
  PROVE  Stays(s, u, x)
<1>1. PICK v : v = IF Palabra!Live(s, i) THEN Palabra!EndTurn(s, s.lanes[i].turn, "cancelled") ELSE s
  OBVIOUS
<1>2. Stays(s, v, x)
  <2>1. CASE Palabra!Live(s, i)
    <3>1. PICK t : t = s.lanes[i].turn
      OBVIOUS
    <3>2. t \in TurnsOf(s) /\ s.turns[t].life = "active"
      BY <2>1, <3>1 DEF Palabra!Live, PalabraInv, HoldsTurn
    <3>. QED  BY <1>1, <2>1, <3>1, <3>2, EndTurnStays DEF Past, Stays
  <2>2. CASE ~Palabra!Live(s, i)
    BY <1>1, <2>2, StaysSame
  <2>. QED  BY <2>1, <2>2
<1>3. PalabraInv(v, x) /\ i \in LanesOf(v)
  BY <1>2, InLanes DEF Stays
<1>4. CASE s.lanes[i].closing
  BY <1>4, StaysSame DEF Palabra!CloseLane
<1>5. CASE ~s.lanes[i].closing /\ graceful /\ s.lanes[i].socket # "none"
  <2>1. PICK l : l = [v.lanes[i] EXCEPT !.closing = TRUE]
    OBVIOUS
  <2>2. l \in LaneRecs /\ l.retired = v.lanes[i].retired /\ l.turn = v.lanes[i].turn
    BY <1>3, <2>1, LaneIn, ZenonT(60) DEF LaneRecs
  <2>3. u = [v EXCEPT !.lanes[i].closing = TRUE]
    BY <1>1, <1>5 DEF Palabra!CloseLane
  <2>4. u = [v EXCEPT !.lanes = [v.lanes EXCEPT ![i] = l]]
    BY <1>3, <2>1, <2>3, LaneIn DEF States
  <2>5. Stays(v, u, x)
    BY <1>3, <2>2, <2>4, LaneStays
  <2>. QED  BY <1>2, <2>5, StaysTwice
<1>6. CASE ~s.lanes[i].closing /\ ~(graceful /\ s.lanes[i].socket # "none")
  <2>1. u = Palabra!CloseNow(v, i)
    BY <1>1, <1>6 DEF Palabra!CloseLane
  <2>2. Stays(v, u, x)
    BY <1>3, <2>1, CloseNowStays
  <2>. QED  BY <1>2, <2>2, StaysTwice
<1>. QED  BY <1>4, <1>5, <1>6

LEMMA CancelTurnStays ==
  ASSUME NEW s, NEW x, PalabraInv(s, x), NEW t \in TurnsOf(s), NEW sent,
         NEW u, u = Palabra!CancelTurn(s, t, sent)
  PROVE  Stays(s, u, x) /\ (s.turns[t].life = "active" => Done(u, t))
<1>1. PICK i : i = s.turns[t].lane
  OBVIOUS
<1>2. i \in LanesOf(s)
  BY <1>1 DEF PalabraInv, Placed
<1>3. CASE s.turns[t].life # "active"
  BY <1>3, StaysSame DEF Palabra!CancelTurn
<1>4. CASE s.turns[t].life = "active" /\ sent /\ Palabra!Usable(s.lanes[i])
  <2>1. u = Palabra!EndTurn(s, t, "cancelled")
    BY <1>1, <1>4 DEF Palabra!CancelTurn
  <2>. QED  BY <1>4, <2>1, EndTurnStays DEF Past, Stays
<1>5. CASE s.turns[t].life = "active" /\ ~(sent /\ Palabra!Usable(s.lanes[i]))
  <2>1. PICK l : l = [s.lanes[i] EXCEPT !.prepared = FALSE]
    OBVIOUS
  <2>2. l \in LaneRecs /\ l.retired = s.lanes[i].retired /\ l.turn = s.lanes[i].turn
    BY <1>2, <2>1, LaneIn DEF LaneRecs
  <2>3. PICK v : v = [s EXCEPT !.lanes[i].prepared = FALSE]
    OBVIOUS
  <2>4. v = [s EXCEPT !.lanes = [s.lanes EXCEPT ![i] = l]]
    BY <1>2, <2>1, <2>3, LaneIn DEF States
  <2>5. Stays(s, v, x) /\ v.turns = s.turns
    BY <1>2, <2>2, <2>4, LaneStays
  <2>6. PICK w : w = Palabra!EndTurn(v, t, "cancelled")
    OBVIOUS
  <2>7. t \in TurnsOf(v) /\ v.turns[t].life = "active" /\ PalabraInv(v, x)
    BY <1>5, <2>5 DEF TurnsOf, Stays
  <2>8. Stays(v, w, x) /\ Done(w, t)
    BY <2>6, <2>7, EndTurnStays DEF Past, Stays
  <2>9. i \in LanesOf(w) /\ PalabraInv(w, x)
    BY <1>2, <2>5, <2>7, <2>8, InLanes DEF Stays
  <2>10. u = Palabra!CloseLane(w, i, FALSE)
    BY <1>1, <1>5, <2>3, <2>6 DEF Palabra!CancelTurn
  <2>11. Stays(w, u, x)
    BY <2>9, <2>10, CloseLaneStays
  <2>12. Stays(s, u, x)
    BY <2>5, <2>7, <2>8, <2>9, <2>11, StaysTwice
  <2>13. t \in TurnsOf(w)
    BY <2>7, <2>8 DEF Stays, Kept, TurnsOf
  <2>14. Done(u, t)
    BY <2>8, <2>11, <2>13 DEF Stays, Kept
  <2>. QED  BY <2>12, <2>14
<1>. QED  BY <1>3, <1>4, <1>5

-----------------------------------------------------------------------------
(* The lane and the preparation of a turn; aborts.                          *)
LEMMA WithLaneStays ==
  ASSUME NEW s, NEW x, PalabraInv(s, x), NEW u, u = Palabra!WithLane(s)
  PROVE  Stays(s, u, x) /\ u.turns = s.turns /\ u.at \in LanesOf(u)
<1>1. s \in States /\ s.at \in Nat /\ s.at <= Len(s.lanes) /\ Len(s.lanes) \in Nat
      /\ s.lanes \in Seq(LaneRecs)
  BY Counts DEF PalabraInv, Placed, States
<1>2. CASE Palabra!Known(s)
  <2>1. u = s
    BY <1>2 DEF Palabra!WithLane
  <2>. QED  BY <1>1, <1>2, <2>1, StaysSame DEF Palabra!Known, LanesOf
<1>3. CASE ~Palabra!Known(s)
  <2>1. PICK f : f = Palabra!Fresh
    OBVIOUS
  <2>2. f \in LaneRecs /\ f.turn = 0 /\ f.retired = <<>>
    BY <2>1 DEF Palabra!Fresh, LaneRecs
  <2>3. PICK q : q = Append(s.lanes, f)
    OBVIOUS
  <2>4. /\ q \in Seq(LaneRecs) /\ Len(q) = Len(s.lanes) + 1
        /\ \A j \in 1..Len(q) : q[j] = IF j <= Len(s.lanes) THEN s.lanes[j] ELSE f
    BY <1>1, <2>2, <2>3, AppendProperties
  <2>5. PICK k \in Nat : k = Len(s.lanes) + 1
    BY <1>1
  <2>. u = [s EXCEPT !.lanes = q, !.at = k]
    BY <1>3, <2>1, <2>3, <2>5 DEF Palabra!WithLane
  <2>6. u \in States /\ u.lanes = q /\ u.turns = s.turns /\ u.at = k
    BY <1>1, <2>4, <2>5 DEF States
  <2>7. Len(s.lanes) <= Len(u.lanes) /\ u.at <= Len(u.lanes) /\ u.at \in LanesOf(u)
    BY <1>1, <2>4, <2>5, <2>6 DEF LanesOf
  <2>8. /\ \A i \in LanesOf(s) : u.lanes[i] = s.lanes[i]
        /\ \A i \in LanesOf(u) : i > Len(s.lanes) => u.lanes[i] = f
    BY <1>1, <2>4, <2>6 DEF LanesOf
  <2>9. Calm(s, u)
    BY <2>2, <2>6, <2>7, <2>8 DEF Calm, Mild
  <2>. QED  BY <2>6, <2>7, <2>9, CalmKept DEF Stays
<1>. QED  BY <1>2, <1>3

LEMMA BeginStays ==
  ASSUME NEW s, NEW x, PalabraInv(s, x), NEW i \in LanesOf(s), NEW u, u = Palabra!Begin(s, i)
  PROVE  Stays(s, u, x)
<1>0. s \in States /\ s.lanes[i] \in LaneRecs /\ i \in Nat
  BY LaneIn
<1>1. CASE s.lanes[i].prep # "none"
  BY <1>1, StaysSame DEF Palabra!Begin
<1>2. CASE s.lanes[i].prep = "none" /\ Palabra!Usable(s.lanes[i])
  <2>1. PICK l : l = [s.lanes[i] EXCEPT !.prepared = FALSE, !.prep = "set"]
    OBVIOUS
  <2>2. l \in LaneRecs /\ l.retired = s.lanes[i].retired /\ l.turn = s.lanes[i].turn
    BY <2>1, LaneIn DEF LaneRecs
  <2>3. u = [s EXCEPT !.lanes[i].prepared = FALSE, !.lanes[i].prep = "set"]
    BY <1>2 DEF Palabra!Begin
  <2>4. u = [s EXCEPT !.lanes = [s.lanes EXCEPT ![i] = l]]
    <3>1. PICK v : v = [s EXCEPT !.lanes = [s.lanes EXCEPT ![i] = l]]
      OBVIOUS
    <3>2. v = [s EXCEPT !.lanes[i].prepared = FALSE, !.lanes[i].prep = "set"]
      BY <1>0, <2>1, <3>1 DEF States
    <3>. QED  BY <2>3, <3>1, <3>2
  <2>. QED  BY <2>2, <2>4, LaneStays
<1>3. CASE s.lanes[i].prep = "none" /\ ~Palabra!Usable(s.lanes[i])
  <2>1. PICK l : l = [s.lanes[i] EXCEPT !.prep = "connecting", !.socket = "connecting"]
    OBVIOUS
  <2>2. l \in LaneRecs /\ l.retired = s.lanes[i].retired /\ l.turn = s.lanes[i].turn
    BY <2>1, LaneIn DEF LaneRecs
  <2>3. u = [s EXCEPT !.lanes[i].prep = "connecting", !.lanes[i].socket = "connecting"]
    BY <1>3 DEF Palabra!Begin
  <2>4. u = [s EXCEPT !.lanes = [s.lanes EXCEPT ![i] = l]]
    <3>1. PICK v : v = [s EXCEPT !.lanes = [s.lanes EXCEPT ![i] = l]]
      OBVIOUS
    <3>2. v = [s EXCEPT !.lanes[i].prep = "connecting", !.lanes[i].socket = "connecting"]
      BY <1>0, <2>1, <3>1 DEF States
    <3>. QED  BY <2>3, <3>1, <3>2
  <2>. QED  BY <2>2, <2>4, LaneStays
<1>. QED  BY <1>1, <1>2, <1>3

LEMMA AbandonStays ==
  ASSUME NEW s, NEW x, PalabraInv(s, x), NEW i \in LanesOf(s), NEW u,
         u = Palabra!AbandonPreparation(s, i)
  PROVE  Stays(s, u, x)
<1>1. PICK v : v = Palabra!CloseLane(s, i, FALSE)
  OBVIOUS
<1>2. Stays(s, v, x) /\ PalabraInv(v, x) /\ i \in LanesOf(v)
  BY <1>1, CloseLaneStays, InLanes DEF Stays
<1>3. u = s \/ u = v \/ u = Palabra!Answer(v, i, FALSE)
  BY <1>1 DEF Palabra!AbandonPreparation
<1>4. CASE u = s
  BY <1>4, StaysSame
<1>5. CASE u = v
  BY <1>2, <1>5
<1>6. CASE u = Palabra!Answer(v, i, FALSE)
  <2>1. Stays(v, u, x)
    BY <1>2, <1>6, AnswerStays
  <2>. QED  BY <1>2, <2>1, StaysTwice
<1>. QED  BY <1>3, <1>4, <1>5, <1>6

\* A turn is aborted: what it used may have to be retired yet.
LEMMA AbortedStays ==
  ASSUME NEW s, PalabraInv(s, 0), NEW t \in TurnsOf(s),
         NEW n \in TurnRecs, n.life = s.turns[t].life, n.ids = s.turns[t].ids,
         n.heard = s.turns[t].heard, n.lane = s.turns[t].lane, n.aborted,
         NEW u \in States, TurnIs(s, u, t, n), u.lanes = s.lanes, u.at = s.at
  PROVE  PalabraInv(u, t)
<1>1. s \in States /\ t \in Nat \ {0}
  <2>1. s \in States
    BY DEF PalabraInv
  <2>2. Len(s.turns) \in Nat
    BY <2>1, Counts
  <2>. QED  BY <2>1, <2>2 DEF TurnsOf
<1>4. /\ \A v \in TurnsOf(s) :
          /\ u.turns[v].ids = s.turns[v].ids /\ u.turns[v].lane = s.turns[v].lane
          /\ u.turns[v].heard = s.turns[v].heard /\ u.turns[v].life = s.turns[v].life
          /\ v # t => u.turns[v].aborted = s.turns[v].aborted
      /\ TurnsOf(u) = TurnsOf(s) /\ Len(u.turns) = Len(s.turns)
  BY DEF TurnIs, TurnsOf
<1>5. \A v \in TurnsOf(s) : Done(u, v) <=> Done(s, v)
  BY <1>4 DEF Done
<1>6. Mild(s, u)
  BY <1>1, <1>4, Counts DEF Mild, LanesOf, PalabraInv, Placed
<1>7. LastSpeaks(u, t)
  <2>. SUFFICES ASSUME NEW v \in TurnsOf(s), ~Done(s, v)
                PROVE  /\ ~u.turns[v].aborted => v = Len(s.turns)
                       /\ s.turns[v].ids # {} => v = Len(s.turns)
                       /\ u.turns[v].aborted /\ v # t
                            => s.turns[v].ids = {} /\ "open" \notin s.turns[v].heard
    BY <1>4, <1>5 DEF LastSpeaks
  <2>2. u.turns[t] = n
    BY DEF TurnIs, TurnsOf
  <2>3. CASE v = t
    BY <2>2, <2>3 DEF PalabraInv, LastSpeaks
  <2>4. CASE v # t
    <3>1. v # 0
      BY Counts, <1>1 DEF TurnsOf
    <3>. QED  BY <2>4, <3>1, <1>4 DEF PalabraInv, LastSpeaks
  <2>. QED  BY <2>3, <2>4
<1>. QED  BY <1>6, <1>7, MildStays

\* Once the turn that was aborted is past, or if it had used nothing, nothing is
\* under way any more.
LEMMA AbortDone ==
  ASSUME NEW s, NEW t, PalabraInv(s, t),
         Done(s, t) \/ (s.turns[t].ids = {} /\ "open" \notin s.turns[t].heard)
  PROVE  PalabraInv(s, 0)
BY DEF PalabraInv, LastSpeaks

-----------------------------------------------------------------------------
(* Steps of a turn.                                                         *)
LEMMA TurnIn ==
  ASSUME NEW s, NEW x, PalabraInv(s, x), NEW t \in TurnsOf(s)
  PROVE  s \in States /\ s.turns[t] \in TurnRecs /\ t \in Nat \ {0} /\ s.turns[t].lane \in LanesOf(s)
<1>1. s \in States /\ s.turns[t].lane \in LanesOf(s)
  BY DEF PalabraInv, Placed
<1>2. Len(s.turns) \in Nat /\ s.turns[t] \in TurnRecs
  BY <1>1, Counts
<1>. QED  BY <1>1, <1>2 DEF TurnsOf

\* A turn that waits goes on to another life, but does not begin.
LEMMA LifeStays ==
  ASSUME NEW s, NEW x, PalabraInv(s, x), NEW t \in TurnsOf(s), s.turns[t].life \in Waiting,
         NEW life \in (Waiting \cup Past),
         NEW u, u = [s EXCEPT !.turns[t].life = life]
  PROVE  Stays(s, u, x) /\ u.lanes = s.lanes
<1>1. s \in States /\ s.turns[t] \in TurnRecs
  BY TurnIn
<1>2. PICK n : n = [s.turns[t] EXCEPT !.life = life]
  OBVIOUS
<1>3. /\ n \in TurnRecs /\ n.life = life /\ n.ids = s.turns[t].ids /\ n.heard = s.turns[t].heard
      /\ n.lane = s.turns[t].lane /\ n.aborted = s.turns[t].aborted
  BY <1>1, <1>2 DEF TurnRecs
<1>4. PICK v : v = [s EXCEPT !.turns = [s.turns EXCEPT ![t] = n]]
  OBVIOUS
<1>5. v \in States /\ TurnIs(s, v, t, n) /\ v.lanes = s.lanes /\ v.at = s.at
  BY <1>1, <1>3, <1>4, EditTurn
<1>6. v = [s EXCEPT !.turns[t].life = life]
  BY <1>1, <1>2, <1>4 DEF States
<1>7. Calm(s, v)
  <2>1. \A w \in TurnsOf(s) : v.turns[w] = IF w = t THEN n ELSE s.turns[w]
    BY <1>5 DEF TurnIs
  <2>2. Len(v.turns) = Len(s.turns) /\ s.at <= Len(s.lanes) /\ Len(s.lanes) \in Nat
    BY <1>1, <1>5, Counts DEF TurnIs, PalabraInv, Placed
  <2>. QED  BY <1>3, <1>5, <2>1, <2>2 DEF Calm, Mild, LanesOf, Waiting, Past
<1>. QED  BY <1>5, <1>6, <1>7, CalmKept DEF Stays

\* A turn that was not aborted hears something.
LEMMA HeardStays ==
  ASSUME NEW s, PalabraInv(s, 0), NEW t \in TurnsOf(s), s.turns[t].life = "active",
         ~s.turns[t].aborted, NEW h \in SUBSET {"open", "finished", "target", "audio"},
         NEW u, u = [s EXCEPT !.turns[t].heard = @ \cup h]
  PROVE  PalabraInv(u, 0) /\ u.lanes = s.lanes
<1>1. s \in States /\ s.turns[t] \in TurnRecs
  BY TurnIn
<1>2. PICK n : n = [s.turns[t] EXCEPT !.heard = @ \cup h]
  OBVIOUS
<1>3. /\ n \in TurnRecs /\ n.life = s.turns[t].life /\ n.ids = s.turns[t].ids
      /\ n.lane = s.turns[t].lane /\ n.aborted = s.turns[t].aborted
  BY <1>1, <1>2 DEF TurnRecs
<1>4. PICK v : v = [s EXCEPT !.turns = [s.turns EXCEPT ![t] = n]]
  OBVIOUS
<1>5. v \in States /\ TurnIs(s, v, t, n) /\ v.lanes = s.lanes /\ v.at = s.at
  BY <1>1, <1>3, <1>4, EditTurn
<1>6. v = [s EXCEPT !.turns[t].heard = @ \cup h]
  BY <1>1, <1>2, <1>4 DEF States
<1>7. Mild(s, v)
  BY <1>1, <1>3, <1>5, Counts DEF Mild, TurnIs, LanesOf, Waiting, PalabraInv, Placed
<1>8. LastSpeaks(v, 0)
  <2>1. Len(v.turns) = Len(s.turns) /\ TurnsOf(v) = TurnsOf(s)
    BY <1>5 DEF TurnIs, TurnsOf
  <2>2. \A w \in TurnsOf(s) :
          /\ v.turns[w].ids = s.turns[w].ids /\ v.turns[w].aborted = s.turns[w].aborted
          /\ v.turns[w].life = s.turns[w].life
          /\ v.turns[w].aborted => v.turns[w].heard = s.turns[w].heard
    BY <1>3, <1>5 DEF TurnIs
  <2>3. \A w \in TurnsOf(s) : Done(v, w) <=> Done(s, w)
    BY <2>2 DEF Done
  <2>. QED  BY <2>1, <2>2, <2>3 DEF PalabraInv, LastSpeaks
<1>. QED  BY <1>5, <1>6, <1>7, <1>8, MildStays

\* The next turn: the ones before it are past or were aborted.
LEMMA NewTurnStays ==
  ASSUME NEW s, PalabraInv(s, 0), \A v \in TurnsOf(s) : Done(s, v) \/ s.turns[v].aborted,
         NEW n \in TurnRecs, n.lane \in LanesOf(s), n.life \in Waiting, n.ids = {}, n.heard = {},
         ~n.aborted,
         NEW u, u = [s EXCEPT !.turns = Append(@, n)]
  PROVE  /\ PalabraInv(u, 0) /\ u.lanes = s.lanes /\ Len(u.turns) = Len(s.turns) + 1
         /\ Len(u.turns) \in TurnsOf(u) /\ u.turns[Len(u.turns)] = n
<1>1. /\ s \in States /\ Len(s.turns) \in Nat /\ s.turns \in Seq(TurnRecs)
      /\ s.at <= Len(s.lanes)
  BY Counts DEF PalabraInv, States, Placed
<1>2. PICK k \in Nat : k = Len(s.turns) + 1
  BY <1>1
<1>3. /\ u \in States /\ u.lanes = s.lanes /\ u.at = s.at
      /\ u.turns = Append(s.turns, n)
  BY <1>1, AppendProperties DEF States
<1>4. Len(u.turns) = k /\ u.turns[k] = n /\ \A v \in TurnsOf(s) : u.turns[v] = s.turns[v]
  BY <1>1, <1>2, <1>3, AppendProperties DEF TurnsOf
<1>5. /\ TurnsOf(u) = TurnsOf(s) \cup {k} /\ k \notin TurnsOf(s) /\ k \in Nat \ {0}
      /\ LanesOf(u) = LanesOf(s) /\ \A v \in TurnsOf(s) : v < k
  BY <1>1, <1>2, <1>3, <1>4 DEF TurnsOf, LanesOf
<1>6. ~Done(u, k) /\ \A v \in TurnsOf(s) : Done(u, v) <=> Done(s, v)
  BY <1>4 DEF Done, Waiting, Past
<1>7. \A v \in TurnsOf(s) : s.turns[v].lane \in LanesOf(s)
  BY DEF PalabraInv, Placed
<1>8. \A l, y : Remembers(u, l, y) <=> Remembers(s, l, y)
  BY <1>3 DEF Remembers
<1>9. \A l, a : PastUse(s, l, a) \subseteq PastUse(u, l, a)
  BY <1>4, <1>5, <1>6 DEF PastUse
<1>10. \A l, a, b : UsedBy(s, l, a, b) \subseteq UsedBy(u, l, a, b)
  BY <1>4, <1>5 DEF UsedBy
<1>11. HoldsTurn(u)
  <2>. SUFFICES ASSUME NEW i \in LanesOf(s), NEW t, t = s.lanes[i].turn, t # 0
                PROVE  t \in TurnsOf(u) /\ u.turns[t].lane = i /\ u.turns[t].life \notin Waiting
    BY <1>3, <1>5 DEF HoldsTurn
  <2>1. t \in TurnsOf(s) /\ s.turns[t].lane = i /\ s.turns[t].life \notin Waiting
    BY DEF PalabraInv, HoldsTurn
  <2>. QED  BY <1>4, <1>5, <2>1
<1>12. Placed(u)
  BY <1>1, <1>3, <1>4, <1>5, <1>7 DEF Placed
<1>13. Unused(u)
  BY <1>4, <1>5, FS_EmptySet DEF PalabraInv, Unused
<1>14. LastSpeaks(u, 0)
  <2>. SUFFICES ASSUME NEW t \in TurnsOf(u), ~Done(u, t)
                PROVE  /\ ~u.turns[t].aborted => t = Len(u.turns)
                       /\ u.turns[t].ids # {} => t = Len(u.turns)
                       /\ u.turns[t].aborted /\ t # 0
                            => u.turns[t].ids = {} /\ "open" \notin u.turns[t].heard
    BY DEF LastSpeaks
  <2>1. CASE t = k
    BY <2>1, <1>4
  <2>2. CASE t # k
    <3>1. t \in TurnsOf(s) /\ ~Done(s, t) /\ u.turns[t] = s.turns[t] /\ t # 0
      BY <2>2, <1>4, <1>5, <1>6, TurnIn
    <3>2. s.turns[t].aborted
      BY <3>1
    <3>3. s.turns[t].ids = {} /\ "open" \notin s.turns[t].heard
      BY <3>1, <3>2 DEF PalabraInv, LastSpeaks
    <3>. QED  BY <3>1, <3>2, <3>3
  <2>. QED  BY <2>1, <2>2
<1>15. Memory(u)
  BY <1>3, <1>5 DEF PalabraInv, Memory
<1>16. KeptOut(u)
  BY <1>4, <1>5, <1>6, <1>8 DEF PalabraInv, KeptOut
<1>17. InOrder(u)
  <2>. SUFFICES ASSUME NEW t \in TurnsOf(s), Done(s, t), NEW l, l = s.turns[t].lane,
                       NEW q, q = s.lanes[l].retired,
                       NEW a \in 1..Len(q), NEW b \in 1..Len(q), a <= b, q[a] \in s.turns[t].ids
                PROVE  q[b] \in PastUse(u, l, t)
    BY <1>3, <1>4, <1>5, <1>6, ZenonT(60) DEF InOrder
  <2>1. q[b] \in PastUse(s, l, t)
    BY DEF PalabraInv, InOrder
  <2>. QED  BY <2>1, <1>9
<1>18. Forgets(u)
  <2>. SUFFICES ASSUME NEW t \in TurnsOf(s), NEW y \in Ids, Done(s, t), y \in s.turns[t].ids,
                       ~Remembers(s, s.turns[t].lane, y)
                PROVE  Many(PastUse(u, s.turns[t].lane, t))
    BY <1>4, <1>5, <1>6, <1>8 DEF Forgets
  <2>1. Many(PastUse(s, s.turns[t].lane, t))
    BY DEF PalabraInv, Forgets
  <2>2. PastUse(s, s.turns[t].lane, t) \subseteq PastUse(u, s.turns[t].lane, t)
    BY <1>9
  <2>. QED  BY <2>1, <2>2, ManyMore
<1>19. Reuse(u)
  <2>. SUFFICES ASSUME NEW t \in TurnsOf(u), NEW w \in TurnsOf(u), NEW y \in Ids, t < w,
                       u.turns[t].lane = u.turns[w].lane, y \in u.turns[t].ids, y \in u.turns[w].ids
                PROVE  Many(UsedBy(u, u.turns[t].lane, t, w))
    BY DEF Reuse
  <2>1. t # k /\ w # k
    BY <1>4
  <2>2. t \in TurnsOf(s) /\ w \in TurnsOf(s) /\ u.turns[t] = s.turns[t] /\ u.turns[w] = s.turns[w]
    BY <2>1, <1>4, <1>5
  <2>3. Many(UsedBy(s, s.turns[t].lane, t, w))
    BY <2>2 DEF PalabraInv, Reuse
  <2>4. UsedBy(s, s.turns[t].lane, t, w) \subseteq UsedBy(u, s.turns[t].lane, t, w)
    BY <1>10
  <2>5. Many(UsedBy(u, s.turns[t].lane, t, w))
    BY <2>3, <2>4, ManyMore, ZenonT(60)
  <2>. QED  BY <2>2, <2>5
<1>. QED  BY <1>2, <1>3, <1>4, <1>5, <1>11, <1>12, <1>13, <1>14, <1>15, <1>16, <1>17, <1>18, <1>19
          DEF PalabraInv

-----------------------------------------------------------------------------
(* A turn starts, and uses an id.                                           *)
\* A turn begins on the lane in use.
LEMMA StartStays ==
  ASSUME NEW s, PalabraInv(s, 0), NEW t \in TurnsOf(s), s.turns[t].life = "prepared",
         NEW i \in LanesOf(s),
         NEW u, u = [s EXCEPT !.turns[t].life = "active", !.turns[t].lane = i, !.lanes[i].turn = t]
  PROVE  PalabraInv(u, 0)
<1>1. s \in States /\ s.turns[t] \in TurnRecs /\ t \in Nat \ {0} /\ s.lanes[i] \in LaneRecs /\ i \in Nat
  BY TurnIn, LaneIn
<1>2. PICK n : n = [s.turns[t] EXCEPT !.life = "active", !.lane = i]
  OBVIOUS
<1>3. /\ n \in TurnRecs /\ n.life = "active" /\ n.ids = s.turns[t].ids /\ n.lane = i
      /\ n.heard = s.turns[t].heard /\ n.aborted = s.turns[t].aborted
  BY <1>1, <1>2 DEF TurnRecs
<1>4. PICK w : w = [s EXCEPT !.turns = [s.turns EXCEPT ![t] = n]]
  OBVIOUS
<1>5. w \in States /\ TurnIs(s, w, t, n) /\ w.lanes = s.lanes /\ w.at = s.at
  BY <1>1, <1>3, <1>4, EditTurn
<1>6. PICK l : l = [s.lanes[i] EXCEPT !.turn = t]
  OBVIOUS
<1>7. l \in LaneRecs /\ l.retired = s.lanes[i].retired /\ l.turn = t
  BY <1>1, <1>6 DEF LaneRecs
<1>8. PICK v : v = [w EXCEPT !.lanes = [w.lanes EXCEPT ![i] = l]]
  OBVIOUS
<1>9. LanesOf(w) = LanesOf(s)
  BY <1>5 DEF LanesOf
<1>10. v \in States /\ LaneIs(w, v, i, l) /\ v.turns = w.turns /\ v.at = w.at
  BY <1>5, <1>7, <1>8, <1>9, EditLane
<1>11. u = v
  <2>1. w = [s EXCEPT !.turns[t].life = "active", !.turns[t].lane = i]
    BY <1>1, <1>2, <1>4 DEF States
  <2>2. v = [w EXCEPT !.lanes[i].turn = t]
    BY <1>5, <1>6, <1>8 DEF States
  <2>3. u = [w EXCEPT !.lanes[i].turn = t]
    BY <2>1
  <2>. QED  BY <2>2, <2>3
<1>12. /\ Len(u.turns) = Len(s.turns) /\ TurnsOf(u) = TurnsOf(s)
       /\ Len(u.lanes) = Len(s.lanes) /\ LanesOf(u) = LanesOf(s)
       /\ u \in States /\ u.at = s.at
  BY <1>5, <1>10, <1>11 DEF TurnIs, LaneIs, TurnsOf, LanesOf
<1>13. \A b \in TurnsOf(s) : u.turns[b] = IF b = t THEN n ELSE s.turns[b]
  BY <1>5, <1>10, <1>11 DEF TurnIs
<1>14. \A j \in LanesOf(s) : u.lanes[j].retired = s.lanes[j].retired
                             /\ u.lanes[j].turn = IF j = i THEN t ELSE s.lanes[j].turn
  BY <1>5, <1>7, <1>9, <1>10, <1>11 DEF LaneIs
<1>15. n.ids = {} /\ n.heard = {} /\ s.turns[t].ids = {}
  BY <1>3 DEF PalabraInv, Unused, Waiting
<1>16. ~Done(u, t) /\ ~Done(s, t) /\ \A b \in TurnsOf(s) : Done(u, b) <=> Done(s, b)
  BY <1>3, <1>13 DEF Done, Past
<1>17. \A b \in TurnsOf(s) : s.turns[b].lane \in LanesOf(s)
  BY DEF PalabraInv, Placed
<1>18. \A j \in LanesOf(s), y \in Ids : Remembers(u, j, y) <=> Remembers(s, j, y)
  BY <1>14 DEF Remembers
<1>19. \A j, a : PastUse(s, j, a) \subseteq PastUse(u, j, a)
  BY <1>12, <1>13, <1>16 DEF PastUse
<1>20. \A j, a, b : UsedBy(s, j, a, b) \subseteq UsedBy(u, j, a, b)
  BY <1>12, <1>13, <1>15 DEF UsedBy
<1>21. HoldsTurn(u)
  <2>. SUFFICES ASSUME NEW j \in LanesOf(s), NEW b, b = u.lanes[j].turn, b # 0
                PROVE  b \in TurnsOf(s) /\ u.turns[b].lane = j /\ u.turns[b].life \notin Waiting
    BY <1>12 DEF HoldsTurn
  <2>1. CASE j = i
    BY <2>1, <1>3, <1>13, <1>14 DEF Waiting
  <2>2. CASE j # i
    <3>1. b = s.lanes[j].turn
      BY <2>2, <1>14
    <3>2. b \in TurnsOf(s) /\ s.turns[b].lane = j /\ s.turns[b].life \notin Waiting
      BY <3>1 DEF PalabraInv, HoldsTurn
    <3>3. b # t
      BY <3>2 DEF Waiting
    <3>. QED  BY <3>2, <3>3, <1>13
  <2>. QED  BY <2>1, <2>2
<1>22. Placed(u)
  BY <1>3, <1>12, <1>13, <1>17 DEF PalabraInv, Placed
<1>23. Unused(u)
  <2>. SUFFICES ASSUME NEW b \in TurnsOf(s)
                PROVE  /\ IsFiniteSet(u.turns[b].ids)
                       /\ u.turns[b].life \in Waiting => u.turns[b].ids = {} /\ u.turns[b].heard = {}
    BY <1>12 DEF Unused
  <2>1. CASE b = t
    BY <2>1, <1>13, <1>15, FS_EmptySet
  <2>2. CASE b # t
    BY <2>2, <1>13 DEF PalabraInv, Unused
  <2>. QED  BY <2>1, <2>2
<1>24. LastSpeaks(u, 0)
  <2>. SUFFICES ASSUME NEW b \in TurnsOf(s), ~Done(s, b)
                PROVE  /\ ~u.turns[b].aborted => b = Len(s.turns)
                       /\ u.turns[b].ids # {} => b = Len(s.turns)
                       /\ u.turns[b].aborted /\ b # 0
                            => u.turns[b].ids = {} /\ "open" \notin u.turns[b].heard
    BY <1>12, <1>16 DEF LastSpeaks
  <2>1. /\ u.turns[b].aborted = s.turns[b].aborted /\ u.turns[b].ids = s.turns[b].ids
        /\ u.turns[b].heard = s.turns[b].heard
    BY <1>3, <1>13
  <2>. QED  BY <2>1, SMTT(30) DEF PalabraInv, LastSpeaks
<1>25. Memory(u)
  BY <1>12, <1>14 DEF PalabraInv, Memory
<1>26. KeptOut(u)
  <2>. SUFFICES ASSUME NEW b \in TurnsOf(s), NEW y \in Ids, ~Done(s, b), y \in u.turns[b].ids
                PROVE  ~Remembers(u, u.turns[b].lane, y)
    BY <1>12, <1>16 DEF KeptOut
  <2>1. b # t /\ u.turns[b] = s.turns[b]
    BY <1>13, <1>15
  <2>. QED  BY <2>1, <1>17, <1>18 DEF PalabraInv, KeptOut
<1>27. InOrder(u)
  <2>. SUFFICES ASSUME NEW b \in TurnsOf(s), Done(s, b), NEW j, j = s.turns[b].lane,
                       NEW q, q = s.lanes[j].retired,
                       NEW c \in 1..Len(q), NEW d \in 1..Len(q), c <= d, q[c] \in s.turns[b].ids
                PROVE  q[d] \in PastUse(u, j, b)
    BY <1>12, <1>13, <1>14, <1>16, <1>17, SMTT(30) DEF InOrder
  <2>1. q[d] \in PastUse(s, j, b)
    BY DEF PalabraInv, InOrder
  <2>. QED  BY <2>1, <1>19, SMTT(30)
<1>28. Forgets(u)
  <2>. SUFFICES ASSUME NEW b \in TurnsOf(s), NEW y \in Ids, Done(s, b), y \in s.turns[b].ids,
                       ~Remembers(s, s.turns[b].lane, y)
                PROVE  Many(PastUse(u, s.turns[b].lane, b))
    BY <1>12, <1>13, <1>16, <1>17, <1>18 DEF Forgets
  <2>1. Many(PastUse(s, s.turns[b].lane, b))
    BY DEF PalabraInv, Forgets
  <2>2. PastUse(s, s.turns[b].lane, b) \subseteq PastUse(u, s.turns[b].lane, b)
    BY <1>19
  <2>. QED  BY <2>1, <2>2, ManyMore
<1>29. Reuse(u)
  <2>. SUFFICES ASSUME NEW b \in TurnsOf(s), NEW c \in TurnsOf(s), NEW y \in Ids, b < c,
                       u.turns[b].lane = u.turns[c].lane, y \in u.turns[b].ids, y \in u.turns[c].ids
                PROVE  Many(UsedBy(u, u.turns[b].lane, b, c))
    BY <1>12 DEF Reuse
  <2>1. u.turns[b] = s.turns[b] /\ u.turns[c] = s.turns[c]
    BY <1>13, <1>15
  <2>2. Many(UsedBy(s, s.turns[b].lane, b, c))
    BY <2>1 DEF PalabraInv, Reuse
  <2>3. UsedBy(s, s.turns[b].lane, b, c) \subseteq UsedBy(u, s.turns[b].lane, b, c)
    BY <1>20
  <2>4. Many(UsedBy(u, s.turns[b].lane, b, c))
    BY <2>2, <2>3, ManyMore
  <2>. QED  BY <2>1, <2>4
<1>. QED  BY <1>12, <1>21, <1>22, <1>23, <1>24, <1>25, <1>26, <1>27, <1>28, <1>29 DEF PalabraInv

\* A turn uses an id that its lane does not remember.
LEMMA UseStays ==
  ASSUME NEW s, PalabraInv(s, 0), NEW t \in TurnsOf(s), s.turns[t].life = "active",
         "open" \in s.turns[t].heard, NEW id \in Ids, ~Remembers(s, s.turns[t].lane, id),
         NEW final \in SUBSET {"open", "finished", "target", "audio"},
         NEW u, u = [s EXCEPT !.turns[t].ids = @ \cup {id}, !.turns[t].heard = @ \cup final]
  PROVE  PalabraInv(u, 0)
<1>1. s \in States /\ s.turns[t] \in TurnRecs /\ t \in Nat \ {0} /\ Len(s.turns) \in Nat
  BY TurnIn, Counts
<1>2. PICK n : n = [s.turns[t] EXCEPT !.ids = @ \cup {id}, !.heard = @ \cup final]
  OBVIOUS
<1>3. /\ n \in TurnRecs /\ n.life = "active" /\ n.ids = s.turns[t].ids \cup {id}
      /\ n.lane = s.turns[t].lane /\ n.aborted = s.turns[t].aborted
  BY <1>1, <1>2 DEF TurnRecs
<1>4. PICK v : v = [s EXCEPT !.turns = [s.turns EXCEPT ![t] = n]]
  OBVIOUS
<1>5. v \in States /\ TurnIs(s, v, t, n) /\ v.lanes = s.lanes /\ v.at = s.at
  BY <1>1, <1>3, <1>4, EditTurn
<1>6. v = [s EXCEPT !.turns[t].ids = @ \cup {id}, !.turns[t].heard = @ \cup final]
  BY <1>1, <1>2, <1>4 DEF States
<1>7. /\ Len(u.turns) = Len(s.turns) /\ TurnsOf(u) = TurnsOf(s) /\ LanesOf(u) = LanesOf(s)
      /\ u \in States /\ u.at = s.at /\ u.lanes = s.lanes
  BY <1>5, <1>6 DEF TurnIs, TurnsOf, LanesOf
<1>8. \A b \in TurnsOf(s) : u.turns[b] = IF b = t THEN n ELSE s.turns[b]
  BY <1>5, <1>6 DEF TurnIs
<1>9. ~Done(s, t) /\ \A b \in TurnsOf(s) : Done(u, b) <=> Done(s, b)
  BY <1>3, <1>8 DEF Done, Past
<1>10. t = Len(s.turns) /\ ~s.turns[t].aborted
  BY <1>1, <1>9 DEF PalabraInv, LastSpeaks
<1>use. \A b \in TurnsOf(s) : \A y \in s.turns[b].ids : y \in u.turns[b].ids
  BY <1>3, <1>8
<1>lane. \A b \in TurnsOf(s) : u.turns[b].lane = s.turns[b].lane
  BY <1>3, <1>8
<1>11. \A l, y : Remembers(u, l, y) <=> Remembers(s, l, y)
  BY <1>7, ZenonT(60) DEF Remembers
<1>12. \A l, a : PastUse(s, l, a) \subseteq PastUse(u, l, a)
  BY <1>use, <1>lane, <1>7, <1>9, ZenonT(60) DEF PastUse
<1>13. \A l, a, b : UsedBy(s, l, a, b) \subseteq UsedBy(u, l, a, b)
  BY <1>use, <1>lane, <1>7 DEF UsedBy
<1>14. \A b \in TurnsOf(s) : u.turns[b].lane = s.turns[b].lane
                             /\ u.turns[b].aborted = s.turns[b].aborted
                             /\ u.turns[b].life = s.turns[b].life
  BY <1>3, <1>8, SMTT(30)
<1>15. HoldsTurn(u)
  <2>. SUFFICES ASSUME NEW j \in LanesOf(s), NEW b, b = s.lanes[j].turn, b # 0
                PROVE  b \in TurnsOf(s) /\ u.turns[b].lane = j /\ u.turns[b].life \notin Waiting
    BY <1>7 DEF HoldsTurn
  <2>1. b \in TurnsOf(s) /\ s.turns[b].lane = j /\ s.turns[b].life \notin Waiting
    BY DEF PalabraInv, HoldsTurn
  <2>. QED  BY <2>1, <1>14, ZenonT(60)
<1>16. Placed(u)
  BY <1>7, <1>14 DEF PalabraInv, Placed
<1>17. Unused(u)
  <2>1. IsFiniteSet(n.ids) /\ n.life \notin Waiting
    <3>1. IsFiniteSet(s.turns[t].ids)
      BY DEF PalabraInv, Unused
    <3>2. IsFiniteSet(s.turns[t].ids \cup {id})
      BY <3>1, FS_AddElement, SMTT(30)
    <3>. QED  BY <3>2, <1>3 DEF Waiting
  <2>. SUFFICES ASSUME NEW b \in TurnsOf(s)
                PROVE  /\ IsFiniteSet(u.turns[b].ids)
                       /\ u.turns[b].life \in Waiting => u.turns[b].ids = {} /\ u.turns[b].heard = {}
    BY <1>7 DEF Unused
  <2>2. CASE b = t
    BY <2>1, <2>2, <1>8
  <2>3. CASE b # t
    BY <2>3, <1>8, ZenonT(60) DEF PalabraInv, Unused
  <2>. QED  BY <2>2, <2>3
<1>18. LastSpeaks(u, 0)
  <2>. SUFFICES ASSUME NEW b \in TurnsOf(s), ~Done(s, b)
                PROVE  /\ ~u.turns[b].aborted => b = Len(s.turns)
                       /\ u.turns[b].ids # {} => b = Len(s.turns)
                       /\ u.turns[b].aborted /\ b # 0
                            => u.turns[b].ids = {} /\ "open" \notin u.turns[b].heard
    BY <1>7, <1>9, ZenonT(60) DEF LastSpeaks
  <2>1. CASE b = t
    BY <2>1, <1>10, <1>14
  <2>2. CASE b # t
    BY <2>2, <1>8, ZenonT(60) DEF PalabraInv, LastSpeaks
  <2>. QED  BY <2>1, <2>2, ZenonT(60)
<1>19. Memory(u)
  BY <1>7 DEF PalabraInv, Memory
<1>20. KeptOut(u)
  <2>. SUFFICES ASSUME NEW b \in TurnsOf(s), NEW y \in Ids, ~Done(s, b), y \in u.turns[b].ids
                PROVE  ~Remembers(s, s.turns[b].lane, y)
    BY <1>7, <1>9, <1>11, <1>14, ZenonT(60) DEF KeptOut
  <2>1. CASE b = t /\ y = id
    BY <2>1
  <2>2. CASE ~(b = t /\ y = id)
    <3>1. y \in s.turns[b].ids
      BY <2>2, <1>3, <1>8, SMTT(30)
    <3>. QED  BY <3>1 DEF PalabraInv, KeptOut
  <2>. QED  BY <2>1, <2>2
<1>21. InOrder(u)
  <2>. SUFFICES ASSUME NEW b \in TurnsOf(s), Done(s, b), NEW j, j = s.turns[b].lane,
                       NEW q, q = s.lanes[j].retired,
                       NEW c \in 1..Len(q), NEW d \in 1..Len(q), c <= d, q[c] \in s.turns[b].ids
                PROVE  q[d] \in PastUse(u, j, b)
    <3>1. \A b \in TurnsOf(s) : Done(s, b) => u.turns[b] = s.turns[b]
      BY <1>8, <1>9
    <3>. QED  BY <3>1, <1>7, <1>9, ZenonT(60) DEF InOrder
  <2>1. q[d] \in PastUse(s, j, b)
    BY ZenonT(60) DEF PalabraInv, InOrder
  <2>. QED  BY <2>1, <1>12
<1>22. Forgets(u)
  <2>. SUFFICES ASSUME NEW b \in TurnsOf(s), NEW y \in Ids, Done(s, b), y \in s.turns[b].ids,
                       ~Remembers(s, s.turns[b].lane, y)
                PROVE  Many(PastUse(u, s.turns[b].lane, b))
    BY <1>7, <1>8, <1>9, <1>11 DEF Forgets
  <2>1. Many(PastUse(s, s.turns[b].lane, b))
    BY DEF PalabraInv, Forgets
  <2>2. PastUse(s, s.turns[b].lane, b) \subseteq PastUse(u, s.turns[b].lane, b)
    BY <1>12
  <2>. QED  BY <2>1, <2>2, ManyMore
<1>23. Reuse(u)
  <2>. SUFFICES ASSUME NEW b \in TurnsOf(s), NEW c \in TurnsOf(s), NEW y \in Ids, b < c,
                       u.turns[b].lane = u.turns[c].lane, y \in u.turns[b].ids, y \in u.turns[c].ids
                PROVE  Many(UsedBy(u, u.turns[b].lane, b, c))
    BY <1>7 DEF Reuse
  <2>0. u.turns[b].lane = s.turns[b].lane /\ u.turns[c].lane = s.turns[c].lane
    BY <1>lane
  <2>1. b # t /\ y \in s.turns[b].ids
    BY <1>1, <1>8, <1>10 DEF TurnsOf
  <2>2. CASE y \in s.turns[c].ids
    <3>1. Many(UsedBy(s, s.turns[b].lane, b, c))
      BY <2>0, <2>1, <2>2 DEF PalabraInv, Reuse
    <3>2. UsedBy(s, s.turns[b].lane, b, c) \subseteq UsedBy(u, s.turns[b].lane, b, c)
      BY <1>13
    <3>. QED  BY <2>0, <3>1, <3>2, ManyMore
  <2>3. CASE y \notin s.turns[c].ids
    <3>1. c = t /\ y = id
      <4>1. c = t
        BY <2>3, <1>8
      <4>. QED  BY <4>1, <2>3, <1>3, <1>8
    <3>2. Done(s, b)
      BY <2>1, <1>10 DEF PalabraInv, LastSpeaks
    <3>3. Many(PastUse(s, s.turns[b].lane, b))
      BY <2>0, <2>1, <3>1, <3>2, SMTT(30) DEF PalabraInv, Forgets
    <3>4. \A e \in TurnsOf(s) : Done(s, e) => e < t /\ u.turns[e] = s.turns[e]
      BY <1>1, <1>8, <1>9, <1>10, SMTT(30) DEF TurnsOf
    <3>5. PastUse(s, s.turns[b].lane, b) \subseteq UsedBy(u, s.turns[b].lane, b, c)
      BY <3>1, <3>4, <1>7 DEF PastUse, UsedBy
    <3>. QED  BY <2>0, <3>3, <3>5, ManyMore
  <2>. QED  BY <2>2, <2>3, SMTT(30)
<1>. QED  BY <1>7, <1>15, <1>16, <1>17, <1>18, <1>19, <1>20, <1>21, <1>22, <1>23 DEF PalabraInv

-----------------------------------------------------------------------------
(* The actions.                                                             *)
PalabraNow == PalabraInv(Palabra!S, 0)

\* The state that a step builds is the next one.
LEMMA NextState ==
  ASSUME NEW u, PalabraInv(u, 0), Palabra!Becomes(u)
  PROVE  PalabraNow'
<1>1. u \in States
  BY DEF PalabraInv
<1>2. u = [lanes |-> u.lanes, at |-> u.at, turns |-> u.turns, call |-> u.call,
           strays |-> u.strays, orphan |-> u.orphan, over |-> u.over]
  BY <1>1 DEF States
<1>3. Palabra!S' = u
  BY <1>2 DEF Palabra!S, Palabra!Becomes
<1>. QED  BY <1>3 DEF PalabraNow

LEMMA Fields ==
  ASSUME PalabraNow
  PROVE  /\ Palabra!S.lanes = lanes /\ Palabra!S.at = at /\ Palabra!S.turns = turns
         /\ Palabra!S.call = call /\ Palabra!S.strays = strays /\ Palabra!S.orphan = orphan
         /\ Palabra!S.over = over
         /\ Palabra!S \in States /\ at \in Nat /\ call \in Nat /\ strays \in SUBSET Nat
         /\ DOMAIN lanes = LanesOf(Palabra!S) /\ DOMAIN turns = TurnsOf(Palabra!S)
<1>1. Palabra!S \in States
  BY DEF PalabraNow, PalabraInv
<1>2. /\ Palabra!S.lanes = lanes /\ Palabra!S.at = at /\ Palabra!S.turns = turns
      /\ Palabra!S.call = call /\ Palabra!S.strays = strays /\ Palabra!S.orphan = orphan
      /\ Palabra!S.over = over
  BY DEF Palabra!S
<1>3. lanes \in Seq(LaneRecs) /\ turns \in Seq(TurnRecs) /\ at \in Nat /\ call \in Nat
      /\ strays \in SUBSET Nat
  BY <1>1, <1>2 DEF States
<1>4. DOMAIN lanes = 1..Len(lanes) /\ DOMAIN turns = 1..Len(turns)
  BY <1>3, LenProperties
<1>. QED  BY <1>1, <1>2, <1>3, <1>4 DEF LanesOf, TurnsOf

\* A lane goes on in itself.
LEMMA LaneStep ==
  ASSUME PalabraNow, NEW i \in DOMAIN lanes, NEW l \in LaneRecs,
         l.retired = lanes[i].retired, l.turn = lanes[i].turn
  PROVE  Stays(Palabra!S, [Palabra!S EXCEPT !.lanes = [lanes EXCEPT ![i] = l]], 0)
BY Fields, LaneStays DEF PalabraNow

LEMMA PrepareStep ==
  ASSUME PalabraNow, Palabra!Prepare
  PROVE  PalabraNow'
<1>1. PICK s : s = Palabra!WithLane(Palabra!S)
  OBVIOUS
<1>2. PalabraInv(s, 0) /\ s.at \in LanesOf(s)
  BY <1>1, WithLaneStays DEF PalabraNow, Stays
<1>3. s \in States /\ s.at \in Nat /\ s.at <= Len(s.lanes)
  BY <1>2 DEF PalabraInv, Placed, States
<1>4. PICK c : c = s.at
  OBVIOUS
<1>5. PICK v : v = [s EXCEPT !.call = c]
  OBVIOUS
<1>6. v \in States /\ v.lanes = s.lanes /\ v.turns = s.turns /\ v.at = s.at
  BY <1>3, <1>4, <1>5 DEF States
<1>7. PalabraInv(v, 0) /\ c \in LanesOf(v)
  BY <1>2, <1>3, <1>4, <1>6, OtherStays DEF Stays, LanesOf
<1>8. PICK u : u = Palabra!Begin(v, c)
  OBVIOUS
<1>9. PalabraInv(u, 0)
  BY <1>7, <1>8, BeginStays DEF Stays
<1>10. Palabra!Becomes(u)
  BY <1>1, <1>4, <1>5, <1>8 DEF Palabra!Prepare
<1>. QED  BY <1>9, <1>10, NextState

LEMMA AnswerStep ==
  ASSUME PalabraNow, NEW i \in DOMAIN lanes, NEW ok \in BOOLEAN,
         Palabra!Becomes(Palabra!Answer(Palabra!S, i, ok))
  PROVE  PalabraNow'
BY Fields, AnswerStays, NextState DEF PalabraNow, Stays

LEMMA SocketOpensStep ==
  ASSUME PalabraNow, NEW i \in DOMAIN lanes, Palabra!SocketOpens(i)
  PROVE  PalabraNow'
<1>1. PICK l : l = [lanes[i] EXCEPT !.socket = "open", !.prep = "set"]
  OBVIOUS
<1>2. lanes[i] \in LaneRecs /\ Palabra!S \in States /\ lanes = Palabra!S.lanes
  BY Fields, LaneIn DEF PalabraNow
<1>3. l \in LaneRecs /\ l.retired = lanes[i].retired /\ l.turn = lanes[i].turn
  BY <1>1, <1>2 DEF LaneRecs
<1>4. PICK u : u = [Palabra!S EXCEPT !.lanes = [lanes EXCEPT ![i] = l]]
  OBVIOUS
<1>5. PalabraInv(u, 0)
  BY <1>3, <1>4, LaneStep DEF Stays
<1>6. u = [Palabra!S EXCEPT !.lanes[i].socket = "open", !.lanes[i].prep = "set"]
  BY <1>1, <1>2, <1>4 DEF States
<1>7. Palabra!Becomes(u)
  BY <1>6 DEF Palabra!SocketOpens
<1>. QED  BY <1>5, <1>7, NextState

LEMMA ConnectFailsStep ==
  ASSUME PalabraNow, NEW i \in DOMAIN lanes, Palabra!ConnectFails(i)
  PROVE  PalabraNow'
<1>1. PICK l : l = [lanes[i] EXCEPT !.closed = TRUE, !.socket = "closed"]
  OBVIOUS
<1>2. lanes[i] \in LaneRecs /\ Palabra!S \in States /\ lanes = Palabra!S.lanes
      /\ i \in LanesOf(Palabra!S)
  BY Fields, LaneIn DEF PalabraNow
<1>3. l \in LaneRecs /\ l.retired = lanes[i].retired /\ l.turn = lanes[i].turn
  BY <1>1, <1>2 DEF LaneRecs
<1>4. PICK v : v = [Palabra!S EXCEPT !.lanes = [lanes EXCEPT ![i] = l]]
  OBVIOUS
<1>5. Stays(Palabra!S, v, 0) /\ PalabraInv(v, 0) /\ i \in LanesOf(v)
  BY <1>2, <1>3, <1>4, LaneStep, InLanes DEF Stays, PalabraNow
<1>6. v = [Palabra!S EXCEPT !.lanes[i].closed = TRUE, !.lanes[i].socket = "closed"]
  BY <1>1, <1>2, <1>4 DEF States
<1>7. PICK u : u = Palabra!Answer(v, i, FALSE)
  OBVIOUS
<1>8. PalabraInv(u, 0)
  BY <1>5, <1>7, AnswerStays DEF Stays
<1>9. Palabra!Becomes(u)
  BY <1>6, <1>7 DEF Palabra!ConnectFails
<1>. QED  BY <1>8, <1>9, NextState

LEMMA AskTaskStep ==
  ASSUME PalabraNow, NEW i \in DOMAIN lanes, Palabra!AskTask(i)
  PROVE  PalabraNow'
<1> DEFINE s == Palabra!S
<1>0. s \in States /\ lanes = s.lanes /\ lanes[i] \in LaneRecs /\ i \in LanesOf(s) /\ i \in Nat
      /\ s.at <= Len(s.lanes) /\ PalabraInv(s, 0)
  BY Fields, LaneIn DEF PalabraNow, PalabraInv, Placed
<1>1. PICK w : w = [s EXCEPT !.strays = @ \cup {i}]
  OBVIOUS
<1>2. w \in States /\ w.lanes = s.lanes /\ w.turns = s.turns /\ w.at = s.at
  BY <1>0, <1>1 DEF States
<1>3. PalabraInv(w, 0) /\ i \in LanesOf(w)
  BY <1>0, <1>2, OtherStays DEF Stays, LanesOf
<1>4. PICK l : l = [lanes[i] EXCEPT !.prep = "asking"]
  OBVIOUS
<1>5. l \in LaneRecs /\ l.retired = lanes[i].retired /\ l.turn = lanes[i].turn
  BY <1>0, <1>4 DEF LaneRecs
<1>6. PICK v : v = [s EXCEPT !.lanes = [lanes EXCEPT ![i] = l]]
  OBVIOUS
<1>7. PalabraInv(v, 0) /\ v = [s EXCEPT !.lanes[i].prep = "asking"]
  <2>1. PalabraInv(v, 0)
    BY <1>5, <1>6, LaneStep DEF Stays
  <2>2. v = [s EXCEPT !.lanes[i].prep = "asking"]
    BY <1>0, <1>4, <1>6 DEF States
  <2>. QED  BY <2>1, <2>2
<1>8. \E u : Palabra!Becomes(u)
             /\ u \in {Palabra!Answer(s, i, FALSE), Palabra!Answer(w, i, FALSE),
                       Palabra!Answer(Palabra!Drop(s, i), i, FALSE),
                       Palabra!Answer(Palabra!Drop(w, i), i, FALSE), v}
  BY <1>1, <1>7 DEF Palabra!AskTask
<1>9. PalabraInv(Palabra!Answer(s, i, FALSE), 0) /\ PalabraInv(Palabra!Answer(w, i, FALSE), 0)
  BY <1>0, <1>3, AnswerStays DEF Stays
<1>10. PICK ds, dw : ds = Palabra!Drop(s, i) /\ dw = Palabra!Drop(w, i)
  OBVIOUS
<1>11. Stays(s, ds, 0) /\ Stays(w, dw, 0)
  BY <1>0, <1>3, <1>10, DropStays
<1>12. PalabraInv(ds, 0) /\ PalabraInv(dw, 0) /\ i \in LanesOf(ds) /\ i \in LanesOf(dw)
  BY <1>0, <1>3, <1>11, InLanes DEF Stays
<1>13. PalabraInv(Palabra!Answer(ds, i, FALSE), 0) /\ PalabraInv(Palabra!Answer(dw, i, FALSE), 0)
  BY <1>12, AnswerStays DEF Stays
<1>. QED  BY <1>7, <1>8, <1>9, <1>10, <1>13, NextState

LEMMA CurrentTaskStep ==
  ASSUME PalabraNow, NEW i \in DOMAIN lanes, Palabra!CurrentTask(i)
  PROVE  PalabraNow'
<1>1. PICK l : l = [lanes[i] EXCEPT !.prep = "polling"]
  OBVIOUS
<1>2. lanes[i] \in LaneRecs /\ Palabra!S \in States /\ lanes = Palabra!S.lanes
  BY Fields, LaneIn DEF PalabraNow
<1>3. l \in LaneRecs /\ l.retired = lanes[i].retired /\ l.turn = lanes[i].turn
  BY <1>1, <1>2 DEF LaneRecs
<1>4. PICK u : u = [Palabra!S EXCEPT !.lanes = [lanes EXCEPT ![i] = l]]
  OBVIOUS
<1>5. PalabraInv(u, 0)
  BY <1>3, <1>4, LaneStep DEF Stays
<1>6. u = [Palabra!S EXCEPT !.lanes[i].prep = "polling"]
  BY <1>1, <1>2, <1>4 DEF States
<1>7. Palabra!Becomes(Palabra!Answer(Palabra!S, i, TRUE)) \/ Palabra!Becomes(u)
  BY <1>6 DEF Palabra!CurrentTask
<1>. QED  BY <1>5, <1>7, NextState, AnswerStep

LEMMA StrayTimeoutStep ==
  ASSUME PalabraNow, NEW i \in DOMAIN lanes, Palabra!StrayTimeout(i)
  PROVE  PalabraNow'
<1>1. /\ Palabra!S \in States /\ Palabra!S.lanes = lanes /\ Palabra!S.turns = turns
      /\ Palabra!S.at = at /\ Palabra!S.strays = strays
      /\ Palabra!S.at <= Len(Palabra!S.lanes) /\ PalabraInv(Palabra!S, 0)
  BY Fields DEF PalabraNow, PalabraInv, Placed
<1>2. PICK u : u = [Palabra!S EXCEPT !.strays = strays \ {i}, !.orphan = TRUE]
  OBVIOUS
<1>3. u \in States /\ u.lanes = lanes /\ u.turns = turns /\ u.at = at
  BY <1>1, <1>2 DEF States
<1>4. PalabraInv(u, 0)
  BY <1>1, <1>3, OtherStays DEF Stays
<1>5. Palabra!Becomes(u)
  BY <1>2, <1>1, Fields DEF Palabra!StrayTimeout, Palabra!Becomes, Palabra!S
<1>. QED  BY <1>4, <1>5, NextState

-----------------------------------------------------------------------------
(* The actions of a turn and of the session.                                *)
LEMMA TranslateStep ==
  ASSUME PalabraNow, Palabra!Translate
  PROVE  PalabraNow'
<1>0. PICK c : c = Palabra!S
  OBVIOUS
<1>1. /\ PalabraInv(c, 0) /\ turns = c.turns
      /\ \A t \in TurnsOf(c) : Done(c, t) \/ c.turns[t].aborted
  <2>1. PalabraInv(c, 0) /\ turns = c.turns /\ DOMAIN turns = TurnsOf(c)
    BY <1>0, Fields DEF PalabraNow
  <2>2. \A t \in TurnsOf(c) : c.turns[t] \in TurnRecs
    BY <2>1, TurnIn
  <2>. QED  BY <2>1, <2>2, ZenonT(60) DEF Palabra!Translate, Palabra!Over, Done, TurnRecs, Waiting, Past
<1>2. PICK s : s = Palabra!WithLane(c)
  OBVIOUS
<1>3. Stays(c, s, 0) /\ PalabraInv(s, 0) /\ s.at \in LanesOf(s) /\ s.turns = c.turns
  BY <1>1, <1>2, WithLaneStays DEF Stays
<1>4. PICK i \in LanesOf(s) : i = s.at
  BY <1>3
<1>5. PICK n : n = [lane |-> i, life |-> "preparing", aborted |-> FALSE, ids |-> {}, heard |-> {}]
  BY ZenonT(60)
<1>6. /\ n \in TurnRecs /\ n.lane = i /\ n.life \in Waiting /\ n.ids = {} /\ n.heard = {}
      /\ ~n.aborted
  BY <1>3, <1>5, LaneIn DEF TurnRecs, Waiting
<1>7. PICK sent \in BOOLEAN :
        LET cut == IF s.lanes[i].turn # 0 THEN Palabra!CancelTurn(s, s.lanes[i].turn, sent) ELSE s
            begun == [cut EXCEPT !.turns = Append(@, n)]
            t == Len(begun.turns)
        IN Palabra!Becomes(IF cut.at # i THEN [begun EXCEPT !.turns[t].life = "failed"]
                           ELSE IF begun.lanes[i].prepared
                           THEN [begun EXCEPT !.turns[t].life = "prepared"]
                           ELSE Palabra!Begin(begun, i))
  BY <1>0, <1>2, <1>4, <1>5, ZenonT(60) DEF Palabra!Translate
<1>8. PICK cut : cut = IF s.lanes[i].turn # 0 THEN Palabra!CancelTurn(s, s.lanes[i].turn, sent) ELSE s
  OBVIOUS
<1>9. Stays(s, cut, 0)
  <2>1. CASE s.lanes[i].turn # 0
    <3>1. s.lanes[i].turn \in TurnsOf(s)
      BY <2>1, <1>3 DEF PalabraInv, HoldsTurn
    <3>. QED  BY <2>1, <3>1, <1>3, <1>8, CancelTurnStays
  <2>2. CASE s.lanes[i].turn = 0
    BY <2>2, <1>3, <1>8, StaysSame
  <2>. QED  BY <2>1, <2>2
<1>10. PalabraInv(cut, 0) /\ i \in LanesOf(cut) /\ TurnsOf(cut) = TurnsOf(s) /\ TurnsOf(s) = TurnsOf(c)
  BY <1>3, <1>9, InLanes DEF Stays, Kept, TurnsOf
<1>11. \A t \in TurnsOf(cut) : Done(cut, t) \/ cut.turns[t].aborted
  BY <1>1, <1>3, <1>9, <1>10 DEF Stays, Kept
<1>12. PICK begun : begun = [cut EXCEPT !.turns = Append(@, n)]
  OBVIOUS
<1>13. PICK t : t = Len(begun.turns)
  OBVIOUS
<1>14. PalabraInv(begun, 0) /\ begun.lanes = cut.lanes /\ t \in TurnsOf(begun) /\ begun.turns[t] = n
  BY <1>6, <1>10, <1>11, <1>12, <1>13, NewTurnStays, SMTT(30)
<1>15. i \in LanesOf(begun)
  BY <1>10, <1>14 DEF LanesOf
<1>16. \E u : /\ Palabra!Becomes(u)
              /\ u \in {[begun EXCEPT !.turns[t].life = "failed"],
                        [begun EXCEPT !.turns[t].life = "prepared"], Palabra!Begin(begun, i)}
  BY <1>7, <1>8, <1>12, <1>13, ZenonT(60)
<1>17. /\ PalabraInv([begun EXCEPT !.turns[t].life = "failed"], 0)
       /\ PalabraInv([begun EXCEPT !.turns[t].life = "prepared"], 0)
  BY <1>6, <1>14, LifeStays DEF Waiting, Past, Stays
<1>18. PalabraInv(Palabra!Begin(begun, i), 0)
  BY <1>14, <1>15, BeginStays DEF Stays
<1>. QED  BY <1>16, <1>17, <1>18, NextState

LEMMA StartTurnStep ==
  ASSUME PalabraNow, NEW t \in DOMAIN turns, Palabra!StartTurn(t)
  PROVE  PalabraNow'
<1>1. PICK c : c = Palabra!S
  OBVIOUS
<1>2. PalabraInv(c, 0) /\ turns = c.turns /\ t \in TurnsOf(c) /\ c.turns[t].life = "prepared"
  BY <1>1, Fields DEF PalabraNow, Palabra!StartTurn
<1>3. PICK s : s = Palabra!WithLane(c)
  OBVIOUS
<1>4. PalabraInv(s, 0) /\ s.at \in LanesOf(s) /\ s.turns = c.turns
  BY <1>2, <1>3, WithLaneStays DEF Stays
<1>5. PICK i \in LanesOf(s) : i = s.at
  BY <1>4
<1>6. PICK u : u = [s EXCEPT !.turns[t].life = "active", !.turns[t].lane = i, !.lanes[i].turn = t]
  OBVIOUS
<1>7. Palabra!Becomes(u)
  BY <1>1, <1>3, <1>5, <1>6 DEF Palabra!StartTurn
<1>8. t \in TurnsOf(s) /\ s.turns[t].life = "prepared"
  BY <1>2, <1>4 DEF TurnsOf
<1>9. PalabraInv(u, 0)
  BY <1>4, <1>6, <1>8, StartStays, ZenonT(60)
<1>. QED  BY <1>7, <1>9, NextState

LEMMA AbortStep ==
  ASSUME PalabraNow, NEW t \in DOMAIN turns, Palabra!Abort(t)
  PROVE  PalabraNow'
<1>1. PICK c : c = Palabra!S
  OBVIOUS
<1>2. /\ PalabraInv(c, 0) /\ turns = c.turns /\ t \in TurnsOf(c) /\ c \in States
      /\ c.turns[t] \in TurnRecs /\ c.turns[t].lane \in LanesOf(c)
      /\ c.turns[t].life \in {"preparing", "prepared", "active"}
  BY <1>1, Fields, TurnIn DEF PalabraNow, Palabra!Abort
<1>3. PICK n : n = [c.turns[t] EXCEPT !.aborted = TRUE]
  OBVIOUS
<1>4. PICK s : s = [c EXCEPT !.turns = [c.turns EXCEPT ![t] = n]]
  OBVIOUS
<1>5. s = [c EXCEPT !.turns[t].aborted = TRUE]
  BY <1>2, <1>3, <1>4 DEF States
<1>6. PalabraInv(s, t) /\ TurnIs(c, s, t, n) /\ s.lanes = c.lanes
  <2>1. /\ n \in TurnRecs /\ n.life = c.turns[t].life /\ n.ids = c.turns[t].ids
        /\ n.heard = c.turns[t].heard /\ n.lane = c.turns[t].lane /\ n.aborted = TRUE
    BY <1>2, <1>3 DEF TurnRecs
  <2>2. s \in States /\ TurnIs(c, s, t, n) /\ s.lanes = c.lanes /\ s.at = c.at
    BY <1>2, <1>4, <2>1, EditTurn DEF TurnsOf
  <2>3. PalabraInv(s, t)
    BY <1>2, <2>1, <2>2, AbortedStays
  <2>. QED  BY <2>2, <2>3
<1>7. /\ t \in TurnsOf(s) /\ s.turns[t].life = c.turns[t].life
      /\ s.turns[t].lane = c.turns[t].lane /\ s.turns[t].lane \in LanesOf(s)
  BY <1>2, <1>3, <1>6 DEF TurnIs, TurnsOf, LanesOf, TurnRecs
<1>8. PICK i \in LanesOf(s) : i = turns[t].lane
  BY <1>2, <1>7
<1>9. PICK sent \in BOOLEAN :
        Palabra!Becomes(
          CASE turns[t].life = "active"   -> Palabra!CancelTurn(s, t, sent)
            [] turns[t].life = "prepared" -> s
            [] OTHER -> Palabra!AbandonPreparation([s EXCEPT !.turns[t].life = "cancelled"], i))
  BY <1>1, <1>5, <1>8 DEF Palabra!Abort
<1>10. CASE turns[t].life = "active"
  <2>1. PICK u : u = Palabra!CancelTurn(s, t, sent)
    OBVIOUS
  <2>2. PalabraInv(u, t) /\ Done(u, t)
    BY <2>1, <1>2, <1>6, <1>7, <1>10, CancelTurnStays DEF Stays
  <2>3. PalabraInv(u, 0)
    BY <2>2, AbortDone
  <2>4. Palabra!Becomes(u)
    BY <2>1, <1>9, <1>10
  <2>. QED  BY <2>3, <2>4, NextState
<1>11. CASE turns[t].life = "prepared"
  <2>1. s.turns[t].life \in Waiting
    BY <1>2, <1>7, <1>11 DEF Waiting
  <2>2. s.turns[t].ids = {} /\ s.turns[t].heard = {}
    BY <2>1, <1>6, <1>7 DEF PalabraInv, Unused
  <2>3. PalabraInv(s, 0)
    BY <2>2, <1>6, AbortDone
  <2>4. Palabra!Becomes(s)
    BY <1>9, <1>11
  <2>. QED  BY <2>3, <2>4, NextState
<1>12. CASE turns[t].life = "preparing"
  <2>1. PICK v : v = [s EXCEPT !.turns[t].life = "cancelled"]
    OBVIOUS
  <2>2. s.turns[t].life \in Waiting
    BY <1>2, <1>7, <1>12 DEF Waiting
  <2>3. Stays(s, v, t) /\ v.lanes = s.lanes
    <3>1. PalabraInv(s, t) /\ "cancelled" \in Waiting \cup Past
      BY <1>6 DEF Past
    <3>2. Stays(s, [s EXCEPT !.turns[t].life = "cancelled"], t)
      BY <3>1, <2>2, <1>7, LifeStays
    <3>3. [s EXCEPT !.turns[t].life = "cancelled"].lanes = s.lanes
      BY <3>1, <2>2, <1>7, LifeStays
    <3>. QED  BY <2>1, <3>2, <3>3
  <2>4. PICK u : u = Palabra!AbandonPreparation(v, i)
    OBVIOUS
  <2>5. Stays(v, u, t)
    BY <2>3, <2>4, <1>6, InLanes, AbandonStays DEF Stays
  <2>6. Done(v, t)
    <3>1. s \in States /\ s.turns[t] \in TurnRecs
      BY <1>6, <1>7, TurnIn
    <3>2. v.turns[t].life = "cancelled"
      BY <2>1, <3>1, <1>7 DEF States, TurnsOf, TurnRecs
    <3>. QED  BY <3>2 DEF Done, Past
  <2>7. t \in TurnsOf(v)
    BY <2>3, <1>7 DEF Stays, Kept, TurnsOf
  <2>8. PalabraInv(u, t) /\ Done(u, t)
    BY <2>5, <2>6, <2>7 DEF Stays, Kept
  <2>9. PalabraInv(u, 0)
    BY <2>8, AbortDone
  <2>10. Palabra!Becomes(u)
    BY <2>1, <2>4, <1>9, <1>12
  <2>. QED  BY <2>9, <2>10, NextState
<1>. QED  BY <1>2, <1>10, <1>11, <1>12

LEMMA CancelStep ==
  ASSUME PalabraNow, Palabra!Cancel
  PROVE  PalabraNow'
<1>1. PICK c : c = Palabra!S
  OBVIOUS
<1>2. /\ PalabraInv(c, 0) /\ lanes = c.lanes /\ at = c.at
  BY <1>1, Fields DEF PalabraNow
<1>3. PICK t : t = lanes[at].turn
  OBVIOUS
<1>4. c.at \in LanesOf(c) /\ c.at # 0
  <2>1. c.at \in Nat /\ c.at # 0 /\ c.at <= Len(c.lanes) /\ Len(c.lanes) \in Nat
    BY <1>2, Counts DEF Palabra!Cancel, PalabraInv, Placed
  <2>. QED  BY <2>1 DEF LanesOf
<1>5. t \in TurnsOf(c)
  BY <1>1, <1>2, <1>3, <1>4 DEF Palabra!Cancel, Palabra!Live, PalabraInv, HoldsTurn
<1>6. PICK sent \in BOOLEAN : Palabra!Becomes(Palabra!CancelTurn(c, t, sent))
  BY <1>1, <1>3 DEF Palabra!Cancel
<1>. QED  BY <1>2, <1>5, <1>6, CancelTurnStays, NextState DEF Stays

LEMMA SendInputStep ==
  ASSUME PalabraNow, NEW t \in DOMAIN turns, Palabra!SendInput(t)
  PROVE  PalabraNow'
<1>1. PICK c : c = Palabra!S
  OBVIOUS
<1>2. /\ PalabraInv(c, 0) /\ turns = c.turns /\ lanes = c.lanes /\ t \in TurnsOf(c)
      /\ c.turns[t].life = "active" /\ ~c.turns[t].aborted /\ c.turns[t].lane \in LanesOf(c)
  BY <1>1, Fields, TurnIn DEF PalabraNow, Palabra!SendInput, Palabra!TakesInput
<1>3. PICK i \in LanesOf(c) : i = turns[t].lane
  BY <1>2
<1>4. PICK v : v = [c EXCEPT !.turns[t].heard = @ \cup {"open"}]
  OBVIOUS
<1>5. PalabraInv(v, 0) /\ v.lanes = c.lanes
  <2>1. PalabraInv(v, 0)
    BY <1>2, <1>4, HeardStays
  <2>2. c \in States
    BY <1>2 DEF PalabraInv
  <2>. QED  BY <2>1, <2>2, <1>4 DEF States
<1>6. Palabra!Becomes(c) \/ Palabra!Becomes(v) \/ Palabra!Becomes(Palabra!Drop(v, i))
  BY <1>1, <1>3, <1>4 DEF Palabra!SendInput
<1>7. PalabraInv(Palabra!Drop(v, i), 0)
  BY <1>3, <1>5, DropStays DEF Stays, LanesOf
<1>. QED  BY <1>2, <1>5, <1>6, <1>7, NextState

LEMMA InputEndsStep ==
  ASSUME PalabraNow, NEW t \in DOMAIN turns, Palabra!InputEnds(t)
  PROVE  PalabraNow'
<1>1. PICK c : c = Palabra!S
  OBVIOUS
<1>2. /\ PalabraInv(c, 0) /\ turns = c.turns /\ t \in TurnsOf(c)
      /\ c.turns[t].life = "active" /\ ~c.turns[t].aborted
  BY <1>1, Fields DEF PalabraNow, Palabra!InputEnds, Palabra!TakesInput
<1>3. PICK v : v = [c EXCEPT !.turns[t].heard = @ \cup {"open", "finished"}]
  OBVIOUS
<1>4. PalabraInv(v, 0)
  BY <1>2, <1>3, HeardStays
<1>5. Palabra!Becomes(v)
  BY <1>1, <1>3 DEF Palabra!InputEnds
<1>. QED  BY <1>4, <1>5, NextState

LEMMA ProviderEventStep ==
  ASSUME PalabraNow, NEW i \in DOMAIN lanes, Palabra!ProviderEvent(i)
  PROVE  PalabraNow'
<1>1. PICK c : c = Palabra!S
  OBVIOUS
<1>2. PalabraInv(c, 0) /\ turns = c.turns /\ lanes = c.lanes /\ i \in LanesOf(c)
  BY <1>1, Fields DEF PalabraNow
<1>3. PICK t : t = lanes[i].turn
  OBVIOUS
<1>4. t \in TurnsOf(c) /\ c.turns[t].lane = i /\ c.turns[t].life = "active"
      /\ "open" \in c.turns[t].heard
  BY <1>1, <1>2, <1>3, ZenonT(60) DEF Palabra!ProviderEvent, Palabra!Live, PalabraInv, HoldsTurn
<1>5. PICK id \in Ids, final \in {{}, {"target"}, {"audio"}} :
        /\ id \notin Palabra!ToSet(lanes[i].retired)
        /\ \/ Palabra!Becomes(Palabra!Drop(c, i))
           \/ Palabra!Becomes([c EXCEPT !.turns[t].ids = @ \cup {id}, !.turns[t].heard = @ \cup final])
  BY <1>1, <1>3, ZenonT(60) DEF Palabra!ProviderEvent
<1>6. ~Remembers(c, i, id)
  <2>1. c.lanes[i] \in LaneRecs
    BY <1>2, LaneIn
  <2>2. DOMAIN c.lanes[i].retired = 1..Len(c.lanes[i].retired)
    BY <2>1, LenProperties DEF LaneRecs
  <2>. QED  BY <2>2, <1>2, <1>5 DEF Palabra!ToSet, Remembers
<1>7. PalabraInv([c EXCEPT !.turns[t].ids = @ \cup {id}, !.turns[t].heard = @ \cup final], 0)
  BY <1>2, <1>4, <1>6, UseStays, ZenonT(60)
<1>8. PalabraInv(Palabra!Drop(c, i), 0)
  BY <1>2, DropStays DEF Stays
<1>. QED  BY <1>5, <1>7, <1>8, NextState

LEMMA TurnOverStep ==
  ASSUME PalabraNow, NEW t \in DOMAIN turns, Palabra!CompleteTurn(t) \/ Palabra!TurnFails(t)
  PROVE  PalabraNow'
<1>1. PICK c : c = Palabra!S
  OBVIOUS
<1>2. PalabraInv(c, 0) /\ turns = c.turns /\ t \in TurnsOf(c) /\ c.turns[t].life = "active"
  BY <1>1, Fields DEF PalabraNow, Palabra!CompleteTurn, Palabra!TurnFails
<1>3. PalabraInv(Palabra!EndTurn(c, t, "completed"), 0) /\ PalabraInv(Palabra!FailTurn(c, t), 0)
  BY <1>2, EndTurnStays, FailTurnStays DEF Past, Stays
<1>. QED  BY <1>1, <1>3, NextState DEF Palabra!CompleteTurn, Palabra!TurnFails

LEMMA LaneOverStep ==
  ASSUME PalabraNow, NEW i \in DOMAIN lanes, Palabra!ConnectionLost(i) \/ Palabra!CloseEnds(i)
  PROVE  PalabraNow'
BY Fields, DropStays, CloseNowStays, NextState
   DEF PalabraNow, Stays, Palabra!ConnectionLost, Palabra!CloseEnds

LEMMA CloseSessionStep ==
  ASSUME PalabraNow, Palabra!CloseSession
  PROVE  PalabraNow'
<1>1. PICK c : c = Palabra!S
  OBVIOUS
<1>2. PalabraInv(c, 0) /\ at = c.at
  BY <1>1, Fields DEF PalabraNow
<1>3. c.at \in LanesOf(c) /\ c \in States /\ c.at <= Len(c.lanes)
  <2>1. c \in States /\ c.at \in Nat /\ c.at # 0 /\ c.at <= Len(c.lanes) /\ Len(c.lanes) \in Nat
    BY <1>2, Counts DEF Palabra!CloseSession, PalabraInv, Placed
  <2>. QED  BY <2>1 DEF LanesOf
<1>4. PICK v : v = [c EXCEPT !.over = TRUE]
  OBVIOUS
<1>5. v \in States /\ v.lanes = c.lanes /\ v.turns = c.turns /\ v.at = c.at
  BY <1>3, <1>4 DEF States
<1>6. PalabraInv(v, 0) /\ at \in LanesOf(v)
  BY <1>2, <1>3, <1>5, OtherStays DEF Stays, LanesOf
<1>7. Palabra!Becomes(Palabra!CloseLane(v, at, TRUE))
  BY <1>1, <1>4 DEF Palabra!CloseSession
<1>. QED  BY <1>6, <1>7, CloseLaneStays, NextState DEF Stays

-----------------------------------------------------------------------------
(* The invariant holds, and what follows from it.                           *)
LEMMA PalabraStarts ==
  ASSUME Palabra!Init
  PROVE  PalabraNow
<1>1. PICK c : c = Palabra!S
  OBVIOUS
<1>2. /\ c.lanes = <<>> /\ c.turns = <<>> /\ c.at = 0 /\ Len(c.lanes) = 0 /\ Len(c.turns) = 0
      /\ c \in States
  <2>1. c = [lanes |-> <<>>, at |-> 0, turns |-> <<>>, call |-> 0, strays |-> {},
             orphan |-> FALSE, over |-> FALSE]
    BY <1>1 DEF Palabra!Init, Palabra!S
  <2>2. <<>> \in Seq(LaneRecs) /\ <<>> \in Seq(TurnRecs) /\ Len(<<>>) = 0
    BY EmptySeq
  <2>3. {} \in SUBSET Nat
    OBVIOUS
  <2>. QED  BY <2>1, <2>2, <2>3 DEF States
<1>3. LanesOf(c) = {} /\ TurnsOf(c) = {}
  BY <1>2 DEF LanesOf, TurnsOf
<1>4. HoldsTurn(c) /\ Placed(c) /\ Unused(c) /\ LastSpeaks(c, 0) /\ Memory(c)
  BY <1>2, <1>3 DEF HoldsTurn, Placed, Unused, LastSpeaks, Memory
<1>5. KeptOut(c) /\ InOrder(c) /\ Forgets(c) /\ Reuse(c)
  BY <1>3 DEF KeptOut, InOrder, Forgets, Reuse
<1>. QED  BY <1>1, <1>2, <1>4, <1>5 DEF PalabraNow, PalabraInv

LEMMA PalabraGoesOn ==
  ASSUME PalabraNow, Palabra!Next
  PROVE  PalabraNow'
<1>1. CASE Palabra!Prepare
  BY <1>1, PrepareStep
<1>2. CASE Palabra!Translate
  BY <1>2, TranslateStep
<1>3. CASE Palabra!Cancel
  BY <1>3, CancelStep
<1>4. CASE Palabra!CloseSession
  BY <1>4, CloseSessionStep
<1>5. CASE \E i \in DOMAIN lanes : Palabra!LaneNext(i)
  <2>. PICK i \in DOMAIN lanes : Palabra!LaneNext(i)
    BY <1>5
  <2>1. CASE Palabra!SocketOpens(i)
    BY <2>1, SocketOpensStep
  <2>2. CASE Palabra!ConnectFails(i)
    BY <2>2, ConnectFailsStep
  <2>3. CASE Palabra!AskTask(i)
    BY <2>3, AskTaskStep
  <2>4. CASE Palabra!CurrentTask(i)
    BY <2>4, CurrentTaskStep
  <2>5. CASE Palabra!PrepareError(i) \/ Palabra!ReadinessTimeout(i)
    BY <2>5, AnswerStep DEF Palabra!PrepareError, Palabra!ReadinessTimeout
  <2>6. CASE Palabra!StrayTimeout(i)
    BY <2>6, StrayTimeoutStep
  <2>7. CASE Palabra!ProviderEvent(i)
    BY <2>7, ProviderEventStep
  <2>8. CASE Palabra!ConnectionLost(i) \/ Palabra!CloseEnds(i)
    BY <2>8, LaneOverStep
  <2>. QED  BY <2>1, <2>2, <2>3, <2>4, <2>5, <2>6, <2>7, <2>8 DEF Palabra!LaneNext
<1>6. CASE \E t \in DOMAIN turns : Palabra!TurnNext(t)
  <2>. PICK t \in DOMAIN turns : Palabra!TurnNext(t)
    BY <1>6
  <2>1. CASE Palabra!StartTurn(t)
    BY <2>1, StartTurnStep
  <2>2. CASE Palabra!Abort(t)
    BY <2>2, AbortStep
  <2>3. CASE Palabra!SendInput(t)
    BY <2>3, SendInputStep
  <2>4. CASE Palabra!InputEnds(t)
    BY <2>4, InputEndsStep
  <2>5. CASE Palabra!CompleteTurn(t) \/ Palabra!TurnFails(t)
    BY <2>5, TurnOverStep
  <2>. QED  BY <2>1, <2>2, <2>3, <2>4, <2>5 DEF Palabra!TurnNext
<1>. QED  BY <1>1, <1>2, <1>3, <1>4, <1>5, <1>6 DEF Palabra!Next

LEMMA PalabraKept == MCSpec => []PalabraNow
<1>1. MCInit => PalabraNow
  BY PalabraStarts DEF MCInit
<1>2. PalabraNow /\ [MCNext]_allVars => PalabraNow'
  <2>. SUFFICES ASSUME PalabraNow, [MCNext]_allVars PROVE PalabraNow'
    OBVIOUS
  <2>1. CASE InPalabra(Palabra!Next)
    BY <2>1, PalabraGoesOn DEF InPalabra
  <2>2. CASE UNCHANGED palabraVars
    <3>1. Palabra!S' = Palabra!S
      BY <2>2 DEF palabraVars, Palabra!S
    <3>. QED  BY <3>1 DEF PalabraNow
  <2>3. InPalabra(Palabra!Next) \/ UNCHANGED palabraVars
    BY DEF MCNext, InNative, allVars
  <2>. QED  BY <2>1, <2>2, <2>3
<1>. QED  BY <1>1, <1>2, PTL DEF MCSpec

\* Many things do not fit in few.
LEMMA ManyCount ==
  ASSUME NEW X, IsFiniteSet(X), Many(X)
  PROVE  ~(Cardinality(X) <= MaxRetired)
<1>0. MaxRetired \in Nat /\ MaxRetired + 1 \in Nat
  BY ProvidersAssumption DEF Palabra!RetiredAssumption
<1>1. IsFiniteSet(1..(MaxRetired + 1)) /\ Cardinality(1..(MaxRetired + 1)) = MaxRetired + 1
  BY <1>0, FS_Interval
<1>2. \E f : f \in Injection(1..(MaxRetired + 1), X)
  BY DEF Many, Injection, IsInjective
<1>3. Cardinality(1..(MaxRetired + 1)) <= Cardinality(X)
  BY <1>2, FS_Injection
<1>4. Cardinality(X) \in Nat
  BY FS_CardinalityType
<1>. QED  BY <1>0, <1>1, <1>3, <1>4

\* The bound is on what the turns of the lane used since.
LEMMA PalabraKeepsOut == PalabraNow => LateIdsStayOut
<1>. SUFFICES ASSUME PalabraNow, NEW t \in DOMAIN turns, NEW u \in DOMAIN turns, t < u,
                     turns[t].lane = turns[u].lane,
                     Palabra!Cardinality(Palabra!Since(t, u)) <= MaxRetired,
                     NEW y, y \in turns[t].ids, y \in turns[u].ids
              PROVE  FALSE
  BY DEF LateIdsStayOut, Palabra!LateIdsStayOut
<1>1. PICK c : c = Palabra!S
  OBVIOUS
<1>2. PalabraInv(c, 0) /\ turns = c.turns /\ DOMAIN turns = TurnsOf(c) /\ c \in States
  BY <1>1, Fields DEF PalabraNow
<1>3. /\ Len(c.turns) \in Nat /\ t \in Nat /\ u \in Nat /\ u <= Len(c.turns) /\ 1 <= t
      /\ y \in Ids
  <2>1. Len(c.turns) \in Nat /\ c.turns[t] \in TurnRecs
    BY <1>2, Counts
  <2>. QED  BY <1>2, <2>1 DEF TurnsOf, TurnRecs
<1>4. PICK X : X = UsedBy(c, c.turns[t].lane, t, u)
  OBVIOUS
<1>5. Many(X)
  BY <1>2, <1>3, <1>4 DEF PalabraInv, Reuse
<1>6. PICK I : I = {w \in t..(u - 1) : turns[w].lane = turns[t].lane}
  OBVIOUS
<1>7. PICK Y : Y = {turns[v].ids : v \in I}
  OBVIOUS
<1>8. IsFiniteSet(UNION Y)
  <2>1. IsFiniteSet(t..(u - 1))
    BY <1>3, FS_Interval
  <2>2. IsFiniteSet(I)
    BY <2>1, <1>6, FS_Subset
  <2>3. IsFiniteSet(Y)
    <3>1. PICK f : f = [v \in I |-> turns[v].ids]
      OBVIOUS
    <3>2. f \in Surjection(I, Y)
      BY <3>1, <1>7 DEF Surjection
    <3>. QED  BY <2>2, <3>2, FS_Surjection
  <2>4. \A z \in Y : IsFiniteSet(z)
    BY <1>2, <1>3, <1>6, <1>7 DEF PalabraInv, Unused, TurnsOf
  <2>. QED  BY <2>3, <2>4, FS_UNION
<1>9. X \subseteq UNION Y
  BY <1>2, <1>3, <1>4, <1>6, <1>7 DEF UsedBy, TurnsOf
<1>10. Palabra!Since(t, u) = UNION Y
  BY <1>6, <1>7 DEF Palabra!Since
<1>11. Cardinality(UNION Y) <= MaxRetired
  BY <1>10, SameCardinality
<1>12. Many(UNION Y)
  BY <1>5, <1>9, ManyMore
<1>. QED  BY <1>8, <1>11, <1>12, ManyCount

\* A provider id is not taken by two turns of a connection while what its lane has
\* used since is not more than it remembers (#retireTurnIds).
THEOREM LateIdsAreKept == MCSpec => []LateIdsStayOut
BY PalabraKept, PalabraKeepsOut, PTL
=============================================================================
