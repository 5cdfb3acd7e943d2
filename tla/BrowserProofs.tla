---------------------------- MODULE BrowserProofs ----------------------------
(***************************************************************************)
(* What MCBrowser promises of its four parts, for any number of frames,    *)
(* cuts, sockets, starts, translations and marks and any capacities:       *)
(* behind an applied clear the device is silent, no news that a            *)
(* participant left is lost, what the server is told of a capture is true, *)
(* and so are the marks on the transcript. The parts share no variable,    *)
(* and each has an invariant of its own.                                   *)
(***************************************************************************)
EXTENDS MCBrowser, Filters, SequenceTheorems, FiniteSetTheorems, WellFoundedInduction,
        NaturalsInduction, TLAPS

-----------------------------------------------------------------------------
(***************************************************************************)
(* The playout (BrowserPlayout): the invariant.                            *)
(***************************************************************************)
Frame == [gen : Nat, n : Nat]
Message == [kind : {"frame", "clear", "close", "push", "reset", "applied", "started", "dropped"},
            gen : Nat, n : Nat]
Worklet == [gen : Nat \cup {-1}, queue : Seq(Frame), playing : Frame \cup {NoFrame},
            fence : BOOLEAN, receipts : SUBSET Nat]
Adapter == [socket : Nat, used : Nat, pending : SUBSET Frame, held : Frame \cup {NoFrame},
            clear : Nat, acked : BOOLEAN, gone : BOOLEAN]
Page == [running : BOOLEAN, socket : Nat, pending : [Generation -> Nat],
         answered : [Generation -> Nat]]
Relay == [gen : Nat, status : {"active", "paused", "waiting", "ended"}, made : Nat, told : Nat]

TypeOK ==
  /\ relay \in Relay /\ srv \in Adapter /\ page \in Page /\ work \in Worklet
  /\ down \in Seq(Message) /\ up \in Seq(Message)
  /\ toWork \in Seq(Message) /\ fromWork \in Seq(Message)

\* The page and the adapter are on the same connection.
Linked == srv.socket # 0 /\ page.socket = srv.socket

SocketInv ==
  /\ srv.clear = relay.gen /\ relay.told <= relay.gen
  /\ srv.socket = 0 => srv.held = NoFrame
  /\ srv.socket # 0 => page.socket \in {0, srv.socket}
  /\ ~page.running => page.socket = 0

\* What plays is of the generation of the worklet, and what it says to have
\* applied is not newer.
Heard(q) == \A m \in ToSet(q) : m.kind = "applied" => m.gen <= work.gen
Mute(q) == \A m \in ToSet(q) : m.kind # "applied"
Playing == ToSet(work.queue) \cup ({work.playing} \ {NoFrame})

WorkInv ==
  /\ \A f \in Playing : f.gen = work.gen
  /\ \A g \in work.receipts : g <= work.gen
  /\ Heard(fromWork)

\* What arrives on a connection was said by the worklet that is there, unless
\* the page has left the connection, and with it everything that it played.
Quiet == Playing = {} /\ \A m \in ToSet(toWork) : m.kind # "push"

UpInv ==
  /\ Linked => Heard(up)
  /\ Linked /\ Close \in ToSet(down) => up = <<Close>>
  /\ srv.socket # 0 /\ page.socket = 0 => Mute(up) \/ Quiet

\* A worklet that did not apply the clear the relay knows of is a new one, and
\* nothing older reaches it.
FreshInv ==
  work.gen < relay.told =>
    /\ Playing = {}
    /\ \A m \in ToSet(toWork) : m.kind = "push" => m.gen >= relay.told
    /\ page.socket # 0 => \A m \in ToSet(down) : m.kind = "frame" => m.gen >= relay.told
    /\ Linked /\ srv.held # NoFrame => srv.held.gen >= relay.told

PlayoutInv == TypeOK /\ SocketInv /\ WorkInv /\ UpInv /\ FreshInv

-----------------------------------------------------------------------------
(***************************************************************************)
(* What is on a queue, as a set.                                           *)
(***************************************************************************)
LEMMA SetOfEmpty == ToSet(<<>>) = {}
BY DEF ToSet

LEMMA SetOfAppend ==
  ASSUME NEW S, NEW s \in Seq(S), NEW e \in S
  PROVE  Append(s, e) \in Seq(S) /\ ToSet(Append(s, e)) = ToSet(s) \cup {e}
<1>1. /\ Append(s, e) \in Seq(S) /\ Len(Append(s, e)) = Len(s) + 1 /\ Len(s) \in Nat
      /\ \A i \in 1 .. Len(s) : Append(s, e)[i] = s[i]
      /\ Append(s, e)[Len(s) + 1] = e
  BY AppendProperties
<1>2. DOMAIN s = 1 .. Len(s) /\ DOMAIN Append(s, e) = 1 .. (Len(s) + 1)
  BY <1>1
<1>. QED  BY <1>1, <1>2 DEF ToSet

LEMMA SetOfHead ==
  ASSUME NEW S, NEW s \in Seq(S), s # <<>>
  PROVE  /\ Head(s) \in S /\ Head(s) \in ToSet(s)
         /\ Tail(s) \in Seq(S) /\ ToSet(Tail(s)) \subseteq ToSet(s)
<1>1. /\ Head(s) \in S /\ Tail(s) \in Seq(S) /\ Len(Tail(s)) = Len(s) - 1
      /\ Len(s) \in Nat /\ Len(s) # 0 /\ Head(s) = s[1]
      /\ \A i \in 1 .. Len(Tail(s)) : Tail(s)[i] = s[i + 1]
  BY HeadTailProperties, EmptySeq
<1>2. DOMAIN s = 1 .. Len(s) /\ DOMAIN Tail(s) = 1 .. (Len(s) - 1)
  BY <1>1
<1>3. \A i \in 1 .. (Len(s) - 1) : i + 1 \in 1 .. Len(s)
  BY <1>1
<1>4. 1 \in DOMAIN s
  BY <1>1, <1>2
<1>. QED  BY <1>1, <1>2, <1>3, <1>4 DEF ToSet

LEMMA SetOfConcat ==
  ASSUME NEW S, NEW s \in Seq(S), NEW t \in Seq(S)
  PROVE  s \o t \in Seq(S) /\ ToSet(s \o t) = ToSet(s) \cup ToSet(t)
<1>1. /\ s \o t \in Seq(S) /\ Len(s \o t) = Len(s) + Len(t) /\ Len(s) \in Nat /\ Len(t) \in Nat
      /\ \A i \in 1 .. Len(s) + Len(t) :
           (s \o t)[i] = IF i <= Len(s) THEN s[i] ELSE t[i - Len(s)]
  BY ConcatProperties
<1>2. DOMAIN s = 1 .. Len(s) /\ DOMAIN t = 1 .. Len(t) /\ DOMAIN (s \o t) = 1 .. Len(s) + Len(t)
  BY <1>1
<1>3. ASSUME NEW x \in ToSet(s \o t) PROVE x \in ToSet(s) \cup ToSet(t)
  <2>1. PICK i \in 1 .. Len(s) + Len(t) : x = (s \o t)[i]
    BY <1>2, <1>3 DEF ToSet
  <2>2. CASE i <= Len(s)
    <3>1. i \in 1 .. Len(s) /\ x = s[i]
      BY <1>1, <2>1, <2>2
    <3>. QED  BY <1>2, <3>1 DEF ToSet
  <2>3. CASE ~(i <= Len(s))
    <3>1. i - Len(s) \in 1 .. Len(t) /\ x = t[i - Len(s)]
      BY <1>1, <2>1, <2>3
    <3>. QED  BY <1>2, <3>1 DEF ToSet
  <2>. QED  BY <2>2, <2>3
<1>4. ASSUME NEW i \in 1 .. Len(s) PROVE s[i] \in ToSet(s \o t)
  <2>1. i \in 1 .. Len(s) + Len(t) /\ (s \o t)[i] = s[i]
    BY <1>1
  <2>. QED  BY <1>2, <2>1 DEF ToSet
<1>5. ASSUME NEW i \in 1 .. Len(t) PROVE t[i] \in ToSet(s \o t)
  <2>1. Len(s) + i \in 1 .. Len(s) + Len(t) /\ (s \o t)[Len(s) + i] = t[i]
    BY <1>1
  <2>. QED  BY <1>2, <2>1 DEF ToSet
<1>6. ToSet(s) \subseteq ToSet(s \o t) /\ ToSet(t) \subseteq ToSet(s \o t)
  BY <1>2, <1>4, <1>5 DEF ToSet
<1>. QED  BY <1>1, <1>3, <1>6

LEMMA SetOfSub ==
  ASSUME NEW S, NEW s \in Seq(S), NEW a \in Nat \ {0}, NEW b \in Nat, b <= Len(s)
  PROVE  SubSeq(s, a, b) \in Seq(S) /\ ToSet(SubSeq(s, a, b)) \subseteq ToSet(s)
<1>1. Len(s) \in Nat /\ DOMAIN s = 1 .. Len(s)
  OBVIOUS
<1>2. SubSeq(s, a, b) = [i \in 1 .. (1 + b - a) |-> s[i + a - 1]]
  OBVIOUS
<1>3. \A i \in 1 .. (1 + b - a) : i + a - 1 \in 1 .. Len(s)
  BY <1>1
<1>4. \A i \in 1 .. (1 + b - a) : s[i + a - 1] \in S
  BY <1>1, <1>3
<1>5. SubSeq(s, a, b) \in Seq(S)
  <2>1. CASE a <= b + 1
    BY <1>2, <1>4, <2>1
  <2>2. CASE ~(a <= b + 1)
    <3>1. 1 .. (1 + b - a) = {} /\ 1 .. 0 = {}
      BY <2>2
    <3>. QED  BY <1>2, <3>1
  <2>. QED  BY <2>1, <2>2
<1>6. DOMAIN SubSeq(s, a, b) = 1 .. (1 + b - a)
  BY <1>2
<1>7. \A i \in DOMAIN SubSeq(s, a, b) : SubSeq(s, a, b)[i] \in ToSet(s)
  BY <1>1, <1>2, <1>3, <1>6 DEF ToSet
<1>. QED  BY <1>5, <1>7 DEF ToSet

LEMMA ContainsIs ==
  ASSUME NEW S, NEW s \in Seq(S), NEW e
  PROVE  Contains(s, e) <=> e \in ToSet(s)
BY DEF Contains, ToSet

LEMMA SetOfOne == ASSUME NEW e PROVE ToSet(<<e>>) = {e}
BY DEF ToSet

-----------------------------------------------------------------------------
(***************************************************************************)
(* The clears that a page posts again: the generations of a set in their   *)
(* order.                                                                  *)
(***************************************************************************)
LEMMA LeastNumber ==
  ASSUME NEW T, T \subseteq Nat, T # {}
  PROVE  \E n \in T : \A m \in T : n <= m
<1>1. PICK n \in T : \A m \in T : ~(<<m, n>> \in OpToRel(<, Nat))
  BY NatLessThanWellFounded, WFMin, Zenon
<1>2. ASSUME NEW m \in T, m < n PROVE FALSE
  <2>1. <<m, n>> \in OpToRel(<, Nat)
    BY <1>2 DEF OpToRel
  <2>. QED  BY <1>1, <2>1
<1>. QED
  <2>1. \A m \in T : n <= m
    BY <1>2
  <2>. QED  BY <2>1

LEMMA GreatestGeneration ==
  ASSUME PlayoutAssumption, NEW S \in SUBSET Generation, S # {}
  PROVE  \E g \in S : \A h \in S : h <= g
<1>1. \A g \in S : g \in Nat /\ MaxCuts - g \in Nat
  BY DEF PlayoutAssumption, Generation
<1>2. PICK n \in {MaxCuts - g : g \in S} : \A m \in {MaxCuts - g : g \in S} : n <= m
  <2>1. {MaxCuts - g : g \in S} \subseteq Nat /\ {MaxCuts - g : g \in S} # {}
    BY <1>1
  <2>. QED  BY <2>1, LeastNumber
<1>3. PICK g \in S : n = MaxCuts - g
  BY <1>2
<1>4. ASSUME NEW h \in S PROVE h <= g
  <2>1. n <= MaxCuts - h
    BY <1>2
  <2>. QED  BY <1>1, <1>3, <2>1 DEF PlayoutAssumption
<1>. QED  BY <1>4

Below(S, g) == {h \in S : h < g}
Ranked(S) == \A i \in 1 .. Cardinality(S) : \E g \in S : Cardinality(Below(S, g)) = i - 1

LEMMA GenerationsAreFinite ==
  ASSUME PlayoutAssumption, NEW S \in SUBSET Generation
  PROVE  IsFiniteSet(S) /\ Cardinality(S) \in Nat
<1>1. IsFiniteSet(0 .. MaxCuts)
  <2>1. 0 \in Int /\ MaxCuts \in Int
    BY DEF PlayoutAssumption
  <2>. QED  BY <2>1, FS_Interval
<1>2. IsFiniteSet(S)
  BY <1>1, FS_Subset DEF Generation
<1>. QED  BY <1>2, FS_CardinalityType

\* A set of generations is ranked when it is so without its greatest element.
LEMMA RankedByOneMore ==
  ASSUME PlayoutAssumption, NEW S \in SUBSET Generation, NEW g \in S, \A h \in S : h <= g,
         Ranked(S \ {g})
  PROVE  Ranked(S)
<1>1. \A h \in S : h \in Nat
  BY DEF PlayoutAssumption, Generation
<1>2. Cardinality(S) \in Nat /\ Cardinality(S \ {g}) = Cardinality(S) - 1
  BY GenerationsAreFinite, FS_RemoveElement
<1>3. Below(S, g) = S \ {g}
  BY <1>1 DEF Below
<1>4. \A h \in S \ {g} : Below(S, h) = Below(S \ {g}, h)
  BY <1>1 DEF Below
<1>5. ASSUME NEW i \in 1 .. Cardinality(S)
      PROVE  \E h \in S : Cardinality(Below(S, h)) = i - 1
  <2>1. CASE i = Cardinality(S)
    BY <1>2, <1>3, <2>1
  <2>2. CASE i # Cardinality(S)
    <3>1. i \in 1 .. Cardinality(S \ {g})
      BY <1>2, <2>2
    <3>2. PICK h \in S \ {g} : Cardinality(Below(S \ {g}, h)) = i - 1
      BY <3>1 DEF Ranked
    <3>. QED  BY <1>4, <3>2
  <2>. QED  BY <2>1, <2>2
<1>. QED  BY <1>5 DEF Ranked

LEMMA GenerationsAreRanked ==
  ASSUME PlayoutAssumption, NEW S \in SUBSET Generation
  PROVE  Ranked(S)
<1> DEFINE Bad == {T \in SUBSET Generation : ~Ranked(T)}
<1>1. SUFFICES ASSUME Bad # {} PROVE FALSE
  OBVIOUS
<1>2. PICK n \in {Cardinality(T) : T \in Bad} : \A m \in {Cardinality(T) : T \in Bad} : n <= m
  <2>1. {Cardinality(T) : T \in Bad} \subseteq Nat /\ {Cardinality(T) : T \in Bad} # {}
    BY <1>1, GenerationsAreFinite
  <2>. QED  BY <2>1, LeastNumber
<1>3. PICK T \in Bad : Cardinality(T) = n
  BY <1>2
<1>4. IsFiniteSet(T) /\ n \in Nat
  BY <1>3, GenerationsAreFinite
<1>5. T # {}
  <2>1. ASSUME T = {} PROVE Ranked(T)
    BY <2>1, FS_EmptySet DEF Ranked
  <2>. QED  BY <2>1
<1>6. PICK g \in T : \A h \in T : h <= g
  BY <1>5, GreatestGeneration
<1>7. Cardinality(T \ {g}) = n - 1
  BY <1>3, <1>4, FS_RemoveElement
<1>8. ~(n <= n - 1)
  BY <1>4
<1>9. T \ {g} \notin Bad
  BY <1>2, <1>7, <1>8
<1>10. Ranked(T \ {g})
  BY <1>9
<1>. QED  BY <1>3, <1>6, <1>10, RankedByOneMore

LEMMA ClearsAre ==
  ASSUME PlayoutAssumption, NEW S \in SUBSET Generation
  PROVE  Clears(S) \in Seq(Message) /\ \A m \in ToSet(Clears(S)) : m.kind = "clear"
<1> DEFINE nth(i) == CHOOSE g \in S : Cardinality({h \in S : h < g}) = i - 1
<1>1. Cardinality(S) \in Nat
  BY GenerationsAreFinite
<1>2. \A i \in 1 .. Cardinality(S) : nth(i) \in S
  BY GenerationsAreRanked DEF Ranked, Below
<1>3. S \subseteq Nat
  BY DEF PlayoutAssumption, Generation
<1>4. Clears(S) = [i \in 1 .. Cardinality(S) |-> Msg("clear", nth(i), 0)]
  BY DEF Clears
<1> HIDE DEF nth
<1>5. \A i \in 1 .. Cardinality(S) : Msg("clear", nth(i), 0) \in Message
                                     /\ Msg("clear", nth(i), 0).kind = "clear"
  BY <1>2, <1>3 DEF Msg, Message
<1>6. Clears(S) \in Seq(Message) /\ DOMAIN Clears(S) = 1 .. Cardinality(S)
  BY <1>1, <1>4, <1>5
<1>. QED  BY <1>4, <1>5, <1>6 DEF ToSet

-----------------------------------------------------------------------------
(***************************************************************************)
(* The worklet.                                                            *)
(***************************************************************************)
Sound(w) ==
  /\ w \in Worklet
  /\ \A f \in ToSet(w.queue) : f.gen = w.gen
  /\ w.playing # NoFrame => w.playing.gen = w.gen
  /\ \A g \in w.receipts : g <= w.gen
Empty(w) == w.queue = <<>> /\ w.playing = NoFrame

LEMMA WorkIsSound == ASSUME TypeOK PROVE WorkInv <=> Sound(work) /\ Heard(fromWork)
<1>1. work \in Worklet
  BY DEF TypeOK
<1>2. (\A f \in Playing : f.gen = work.gen) <=>
        /\ \A f \in ToSet(work.queue) : f.gen = work.gen
        /\ work.playing # NoFrame => work.playing.gen = work.gen
  <2> DEFINE queued == ToSet(work.queue)
  <2> HIDE DEF queued
  <2>1. Playing = queued \cup ({work.playing} \ {NoFrame})
    BY DEF Playing, queued
  <2>2. NoFrame \notin queued \/ NoFrame \in queued
    OBVIOUS
  <2>3. (\A f \in Playing : f.gen = work.gen) <=>
          /\ \A f \in queued : f.gen = work.gen
          /\ work.playing # NoFrame => work.playing.gen = work.gen
    BY <2>1
  <2>. QED  BY <2>3 DEF queued
<1>. QED  BY <1>1, <1>2 DEF WorkInv, Sound

LEMMA SilentIsEmpty == ASSUME TypeOK PROVE Playing = {} <=> Empty(work)
<1>1. work.queue \in Seq(Frame)
  BY DEF TypeOK, Worklet
<1>2. ToSet(work.queue) = {} <=> work.queue = <<>>
  <2>1. ASSUME work.queue # <<>> PROVE ToSet(work.queue) # {}
    BY <1>1, <2>1, SetOfHead
  <2>. QED  BY <2>1, SetOfEmpty
<1>3. Playing = {} <=> ToSet(work.queue) = {} /\ work.playing = NoFrame
  BY DEF Playing
<1>. QED  BY <1>2, <1>3 DEF Empty

LEMMA AdvancedIs ==
  ASSUME TypeOK, Sound(work), NEW g \in Nat, g > work.gen
  PROVE  Sound(Advanced(g)) /\ Advanced(g).gen = g /\ Empty(Advanced(g))
         /\ Advanced(g).receipts = work.receipts
<1>0. work \in Worklet /\ <<>> \in Seq(Frame)
  BY DEF TypeOK
<1>1. /\ Advanced(g) \in Worklet /\ Advanced(g).gen = g /\ Empty(Advanced(g))
      /\ Advanced(g).receipts = work.receipts
  BY <1>0 DEF Advanced, Worklet, Empty
<1>2. \A h \in work.receipts : h <= g
  BY DEF TypeOK, Sound, Worklet
<1>. QED  BY <1>1, <1>2, SetOfEmpty DEF Sound, Empty

LEMMA KeptIsNatural == ASSUME PlayoutAssumption PROVE Kept \in Nat
BY DEF PlayoutAssumption, Kept

LEMMA TrimmedIs ==
  ASSUME PlayoutAssumption, NEW w, Sound(w)
  PROVE  Sound(Trimmed(w).w) /\ Trimmed(w).w.gen = w.gen /\ Trimmed(w).dropped \in Seq(Frame)
<1> DEFINE depth == Len(w.queue) + IF w.playing = NoFrame THEN 0 ELSE 1
           cut == IF Len(w.queue) > Kept THEN Len(w.queue) - (IF Kept > 0 THEN Kept ELSE 1) ELSE 0
           rest == SubSeq(w.queue, cut + 1, Len(w.queue))
           gone == SubSeq(w.queue, 1, cut)
           first == IF w.playing = NoFrame THEN <<>> ELSE <<w.playing>>
           less == [w EXCEPT !.playing = NoFrame, !.queue = rest]
<1>1. w \in Worklet /\ w.queue \in Seq(Frame) /\ Len(w.queue) \in Nat
  BY DEF Sound, Worklet
<1>2. cut \in Nat /\ cut <= Len(w.queue)
  BY <1>1, KeptIsNatural
<1>3. Trimmed(w) = IF depth <= WorkletFrames THEN [w |-> w, dropped |-> <<>>]
                   ELSE [w |-> less, dropped |-> first \o gone]
  BY DEF Trimmed
<1> HIDE DEF depth, cut
<1>4. rest \in Seq(Frame) /\ ToSet(rest) \subseteq ToSet(w.queue)
  <2>1. cut + 1 \in Nat \ {0}
    BY <1>2
  <2>. QED  BY <1>1, <2>1, SetOfSub
<1>5. gone \in Seq(Frame)
  <2>1. 1 \in Nat \ {0}
    OBVIOUS
  <2>. QED  BY <1>1, <1>2, <2>1, SetOfSub
<1> HIDE DEF rest, gone
<1>6. first \in Seq(Frame)
  <2>1. w.playing # NoFrame => w.playing \in Frame
    BY <1>1 DEF Worklet
  <2>. QED  BY <2>1
<1> HIDE DEF first
<1>7. first \o gone \in Seq(Frame)
  BY <1>5, <1>6, ConcatProperties
<1>8. /\ less \in Worklet /\ less.gen = w.gen /\ less.queue = rest /\ less.playing = NoFrame
      /\ less.receipts = w.receipts
  BY <1>1, <1>4 DEF Worklet
<1> HIDE DEF less
<1>9. Sound(less)
  BY <1>4, <1>8 DEF Sound
<1>10. CASE depth <= WorkletFrames
  <2>1. Trimmed(w).w = w /\ Trimmed(w).dropped = <<>>
    BY <1>3, <1>10
  <2>. QED  BY <2>1
<1>11. CASE ~(depth <= WorkletFrames)
  <2>1. Trimmed(w).w = less /\ Trimmed(w).dropped = first \o gone
    BY <1>3, <1>11
  <2>. QED  BY <2>1, <1>7, <1>8, <1>9
<1>. QED  BY <1>10, <1>11

LEMMA ReportsAre ==
  ASSUME NEW d \in Seq(Frame)
  PROVE  /\ [i \in DOMAIN d |-> Of("dropped", d[i])] \in Seq(Message)
         /\ Mute([i \in DOMAIN d |-> Of("dropped", d[i])])
<1>1. \A i \in DOMAIN d : d[i] \in Frame
  OBVIOUS
<1>2. \A i \in DOMAIN d : Of("dropped", d[i]) \in Message /\ Of("dropped", d[i]).kind = "dropped"
  BY <1>1 DEF Of, Msg, Message, Frame
<1>3. DOMAIN d = 1 .. Len(d) /\ Len(d) \in Nat
  OBVIOUS
<1>. QED  BY <1>2, <1>3 DEF Mute, ToSet

\* A frame that is taken is of the worklet's generation, or of a newer one
\* that it then has.
LEMMA PushIs ==
  ASSUME PlayoutAssumption, TypeOK, WorkInv, NEW f \in Frame, WorkPush(f)
  PROVE  /\ Sound(work') /\ work'.gen >= work.gen /\ work'.gen >= f.gen
         /\ fromWork' \in Seq(Message) /\ Heard(fromWork)'
<1>0. Sound(work) /\ Heard(fromWork) /\ work.gen \in Nat \cup {-1} /\ f.gen \in Nat
      /\ fromWork \in Seq(Message)
  BY WorkIsSound DEF TypeOK, Worklet, Frame
<1>1. CASE f.gen < work.gen \/ (f.gen = work.gen /\ work.fence)
  BY <1>0, <1>1 DEF WorkPush, Heard
<1>2. CASE ~(f.gen < work.gen \/ (f.gen = work.gen /\ work.fence))
  <2> DEFINE base == IF f.gen > work.gen THEN Advanced(f.gen) ELSE work
             more == [base EXCEPT !.queue = Append(@, f)]
             t == Trimmed(more)
             told == [i \in DOMAIN t.dropped |-> Of("dropped", t.dropped[i])]
  <2>1. Sound(base) /\ base.gen = f.gen /\ f.gen >= work.gen
    <3>1. CASE f.gen > work.gen
      BY <1>0, <3>1, AdvancedIs
    <3>2. CASE ~(f.gen > work.gen)
      BY <1>0, <1>2, <3>2
    <3>. QED  BY <3>1, <3>2
  <2>2. work' = t.w /\ fromWork' = fromWork \o told
    BY <1>2 DEF WorkPush
  <2> HIDE DEF base
  <2>3. Append(base.queue, f) \in Seq(Frame) /\ ToSet(Append(base.queue, f)) = ToSet(base.queue) \cup {f}
    BY <2>1, SetOfAppend DEF Sound, Worklet
  <2>4. /\ more \in Worklet /\ more.gen = base.gen /\ more.queue = Append(base.queue, f)
        /\ more.playing = base.playing /\ more.receipts = base.receipts
    BY <2>1, <2>3 DEF Sound, Worklet
  <2> HIDE DEF more
  <2>5. Sound(more)
    BY <2>1, <2>3, <2>4 DEF Sound
  <2>6. Sound(t.w) /\ t.w.gen = f.gen /\ t.dropped \in Seq(Frame)
    BY <2>1, <2>4, <2>5, TrimmedIs
  <2> HIDE DEF t
  <2>7. told \in Seq(Message) /\ Mute(told)
    BY <2>6, ReportsAre
  <2> HIDE DEF told
  <2>8. fromWork' \in Seq(Message) /\ ToSet(fromWork') = ToSet(fromWork) \cup ToSet(told)
    BY <1>0, <2>2, <2>7, SetOfConcat
  <2>9. \A m \in ToSet(fromWork) : m.kind = "applied" => m.gen <= f.gen
    <3>1. \A m \in ToSet(fromWork) : m.gen \in Nat
      <4>1. \A m \in ToSet(fromWork) : m \in Message
        BY <1>0 DEF ToSet
      <4>. QED  BY <4>1 DEF Message
    <3>. QED  BY <1>0, <2>1, <3>1 DEF Heard
  <2>. QED  BY <1>0, <2>1, <2>2, <2>6, <2>7, <2>8, <2>9 DEF Heard, Mute
<1>. QED  BY <1>1, <1>2

LEMMA WorkClearIs ==
  ASSUME TypeOK, WorkInv, NEW g \in Nat, WorkClear(g)
  PROVE  /\ Sound(work') /\ work'.gen >= work.gen
         /\ Empty(work) => Empty(work')
         /\ fromWork' \in Seq(Message) /\ Heard(fromWork)'
<1>0. Sound(work) /\ Heard(fromWork) /\ work \in Worklet /\ work.gen \in Nat \cup {-1}
      /\ fromWork \in Seq(Message)
  BY WorkIsSound DEF TypeOK, Worklet
<1> DEFINE answer == Msg("applied", g, 0)
<1>1. answer \in Message /\ answer.kind = "applied" /\ answer.gen = g
  BY DEF Msg, Message
<1> HIDE DEF answer
<1>2. \A m \in ToSet(fromWork) : m.gen \in Nat
  <2>1. \A m \in ToSet(fromWork) : m \in Message
    BY <1>0 DEF ToSet
  <2>. QED  BY <2>1 DEF Message
<1>3. CASE g \notin work.receipts /\ g < work.gen
  BY <1>0, <1>3 DEF WorkClear, Heard
<1>4. CASE g \in work.receipts
  <2>1. work' = [work EXCEPT !.fence = @ /\ work.gen # g] /\ fromWork' = Append(fromWork, answer)
    BY <1>4 DEF WorkClear, answer
  <2>2. /\ work' \in Worklet /\ work'.gen = work.gen /\ work'.queue = work.queue
        /\ work'.playing = work.playing /\ work'.receipts = work.receipts
    <3>1. (work.fence /\ work.gen # g) \in BOOLEAN
      OBVIOUS
    <3>. QED  BY <1>0, <2>1, <3>1 DEF Worklet
  <2>3. fromWork' \in Seq(Message) /\ ToSet(fromWork') = ToSet(fromWork) \cup {answer}
    BY <1>0, <1>1, <2>1, SetOfAppend
  <2>4. g <= work.gen
    BY <1>0, <1>4 DEF Sound
  <2>5. Sound(work')
    BY <1>0, <2>2 DEF Sound
  <2>6. Empty(work) => Empty(work')
    BY <2>2 DEF Empty
  <2>. QED  BY <1>0, <1>1, <2>2, <2>3, <2>4, <2>5, <2>6 DEF Heard
<1>5. CASE g \notin work.receipts /\ ~(g < work.gen)
  <2> DEFINE base == IF g > work.gen THEN Advanced(g) ELSE work
  <2>1. Sound(base) /\ base.gen = g /\ g >= work.gen /\ (Empty(work) => Empty(base))
        /\ base.receipts = work.receipts
    <3>1. CASE g > work.gen
      BY <1>0, <3>1, AdvancedIs
    <3>2. CASE ~(g > work.gen)
      BY <1>0, <1>5, <3>2
    <3>. QED  BY <3>1, <3>2
  <2>2. work' = [base EXCEPT !.fence = FALSE, !.receipts = @ \cup {g}]
        /\ fromWork' = Append(fromWork, answer)
    BY <1>5 DEF WorkClear, answer
  <2> HIDE DEF base
  <2>3. /\ work' \in Worklet /\ work'.gen = g /\ work'.queue = base.queue
        /\ work'.playing = base.playing /\ work'.receipts = base.receipts \cup {g}
    BY <2>1, <2>2 DEF Sound, Worklet
  <2>4. fromWork' \in Seq(Message) /\ ToSet(fromWork') = ToSet(fromWork) \cup {answer}
    BY <1>0, <1>1, <2>2, SetOfAppend
  <2>5. Sound(work')
    BY <2>1, <2>3 DEF Sound
  <2>6. Empty(work) => Empty(work')
    BY <2>1, <2>3 DEF Empty
  <2>7. \A m \in ToSet(fromWork) : m.kind = "applied" => m.gen <= g
    BY <1>0, <1>2, <2>1 DEF Heard
  <2>. QED  BY <1>0, <1>1, <2>1, <2>3, <2>4, <2>5, <2>6, <2>7 DEF Heard
<1>. QED  BY <1>3, <1>4, <1>5

-----------------------------------------------------------------------------
(***************************************************************************)
(* Messages.                                                               *)
(***************************************************************************)
LEMMA MessageIs ==
  ASSUME NEW kind \in {"frame", "clear", "close", "push", "reset", "applied", "started", "dropped"},
         NEW g \in Nat, NEW n \in Nat
  PROVE  Msg(kind, g, n) \in Message /\ Msg(kind, g, n) = [kind |-> kind, gen |-> g, n |-> n]
BY DEF Msg, Message

LEMMA CloseIs == Close \in Message /\ Close.kind = "close"
BY DEF Close, Msg, Message

LEMMA FrameMessageIs ==
  ASSUME NEW f \in Frame
  PROVE  /\ Of("frame", f) \in Message /\ Of("frame", f).kind = "frame" /\ Of("frame", f).gen = f.gen
         /\ Of("started", f) \in Message /\ Of("started", f).kind = "started"
BY DEF Of, Msg, Message, Frame

\* What is sent arrives only on a connection that both ends are on and that
\* nothing closed.
LEMMA DownIs ==
  ASSUME TypeOK, NEW m \in Message
  PROVE  /\ Down(m) \in Seq(Message)
         /\ \A d \in ToSet(Down(m)) : d \in ToSet(down) \/ (Linked /\ d = m)
<1>1. CASE Lost(down)
  BY <1>1 DEF Down, TypeOK
<1>2. CASE ~Lost(down)
  <2>1. Linked
    BY <1>2 DEF Lost, Linked
  <2>2. Down(m) = Append(down, m) /\ down \in Seq(Message)
    BY <1>2 DEF Down, TypeOK
  <2>. QED  BY <2>1, <2>2, SetOfAppend
<1>. QED  BY <1>1, <1>2

LEMMA UpIs ==
  ASSUME TypeOK, NEW m \in Message
  PROVE  /\ Up(m) \in Seq(Message)
         /\ \/ Up(m) = up
            \/ Linked /\ Close \notin ToSet(up) /\ ToSet(Up(m)) = ToSet(up) \cup {m}
<1>1. CASE Lost(up)
  BY <1>1 DEF Up, TypeOK
<1>2. CASE ~Lost(up)
  <2>1. Linked
    BY <1>2 DEF Lost, Linked
  <2>2. Up(m) = Append(up, m) /\ up \in Seq(Message)
    BY <1>2 DEF Up, TypeOK
  <2>3. Close \notin ToSet(up)
    BY <1>2, <2>2, ContainsIs DEF Lost
  <2>. QED  BY <2>1, <2>2, <2>3, SetOfAppend
<1>. QED  BY <1>1, <1>2

-----------------------------------------------------------------------------
(***************************************************************************)
(* The steps of the adapter and the relay.  They leave the browser alone,  *)
(* and all that the invariant needs of them is the following.              *)
(***************************************************************************)
Told == \E m \in ToSet(up) : m.kind = "applied" /\ srv.socket # 0 /\ relay'.told = m.gen

AdapterMove ==
  /\ relay' \in Relay /\ srv' \in Adapter /\ down' \in Seq(Message) /\ up' \in Seq(Message)
  /\ UNCHANGED browser
  /\ srv'.clear = relay'.gen /\ relay'.told <= relay'.gen
  /\ relay'.told = relay.told \/ Told
  /\ srv'.socket \in {0, srv.socket} /\ (srv'.socket = 0 => srv'.held = NoFrame)
  /\ srv'.held \in {NoFrame, srv.held} \/ srv'.held.gen = relay.gen
  /\ \A m \in ToSet(down') :
       \/ m \in ToSet(down)
       \/ /\ Linked
          /\ m = Close => srv'.socket = 0
          /\ m.kind = "frame" =>
               m.gen = relay.gen \/ (srv.held # NoFrame /\ m.gen = srv.held.gen)
  /\ ToSet(up') \subseteq ToSet(up)
  /\ srv'.socket # 0 /\ up = <<Close>> => up' = up

LEMMA AdapterMoveKeeps == ASSUME PlayoutInv, AdapterMove PROVE PlayoutInv'
<1>0. TypeOK /\ SocketInv /\ WorkInv /\ UpInv /\ FreshInv
  BY DEF PlayoutInv
<1>1. /\ relay \in Relay /\ srv \in Adapter /\ page \in Page /\ work \in Worklet
      /\ page' = page /\ work' = work /\ toWork' = toWork /\ fromWork' = fromWork
  BY <1>0 DEF TypeOK, AdapterMove, browser
<1>2. TypeOK'
  BY <1>0, <1>1 DEF TypeOK, AdapterMove
<1>3. SocketInv'
  BY <1>0, <1>1 DEF SocketInv, AdapterMove
<1>4. WorkInv'
  BY <1>0, <1>1 DEF WorkInv, Playing, Heard
<1>5. Linked' => Linked
  BY <1>1 DEF Linked, AdapterMove
<1>6. UpInv'
  <2>1. (Linked => Heard(up))'
    BY <1>0, <1>1, <1>5 DEF UpInv, Heard, AdapterMove
  <2>2. (Linked /\ Close \in ToSet(down) => up = <<Close>>)'
    <3> SUFFICES ASSUME Linked', Close \in ToSet(down') PROVE up' = <<Close>>
      OBVIOUS
    <3>1. srv'.socket # 0
      BY DEF Linked
    <3>2. Close \in ToSet(down)
      BY <3>1 DEF AdapterMove
    <3>3. up = <<Close>>
      BY <1>0, <1>5, <3>2 DEF UpInv
    <3>. QED  BY <3>1, <3>3 DEF AdapterMove
  <2>3. (srv.socket # 0 /\ page.socket = 0 => Mute(up) \/ Quiet)'
    <3> SUFFICES ASSUME srv'.socket # 0, page'.socket = 0 PROVE Mute(up') \/ Quiet'
      BY DEF Mute
    <3>1. Mute(up) \/ Quiet
      BY <1>0, <1>1 DEF UpInv, AdapterMove
    <3>2. Mute(up) => Mute(up')
      BY DEF Mute, AdapterMove
    <3>3. Quiet => Quiet'
      BY <1>1 DEF Quiet, Playing
    <3>. QED  BY <3>1, <3>2, <3>3
  <2>. QED  BY <2>1, <2>2, <2>3 DEF UpInv
<1>7. FreshInv'
  <2> SUFFICES ASSUME work'.gen < relay'.told
               PROVE  /\ Playing'= {}
                      /\ \A m \in ToSet(toWork') : m.kind = "push" => m.gen >= relay'.told
                      /\ page'.socket # 0 =>
                           \A m \in ToSet(down') : m.kind = "frame" => m.gen >= relay'.told
                      /\ Linked' /\ srv'.held # NoFrame => srv'.held.gen >= relay'.told
    BY DEF FreshInv
  <2>1. Playing' = Playing
    BY <1>1 DEF Playing
  <2>2. CASE relay'.told = relay.told
    <3>1. /\ Playing = {}
          /\ \A m \in ToSet(toWork) : m.kind = "push" => m.gen >= relay.told
          /\ page.socket # 0 => \A m \in ToSet(down) : m.kind = "frame" => m.gen >= relay.told
          /\ Linked /\ srv.held # NoFrame => srv.held.gen >= relay.told
      BY <1>0, <1>1, <2>2 DEF FreshInv
    <3>2. relay.gen >= relay.told
      BY <1>0, <1>1 DEF SocketInv, Relay
    <3>3. page'.socket # 0 => \A m \in ToSet(down') : m.kind = "frame" => m.gen >= relay'.told
      BY <1>1, <2>2, <3>1, <3>2 DEF AdapterMove
    <3>4. Linked' /\ srv'.held # NoFrame => srv'.held.gen >= relay'.told
      BY <1>5, <2>2, <3>1, <3>2 DEF AdapterMove
    <3>. QED  BY <1>1, <2>1, <2>2, <3>1, <3>3, <3>4
  <2>3. CASE Told
    <3>1. PICK m \in ToSet(up) : m.kind = "applied" /\ srv.socket # 0 /\ relay'.told = m.gen
      BY <2>3 DEF Told
    <3>2. m.gen \in Nat /\ work.gen \in Nat \cup {-1}
      <4>1. m \in Message
        BY <1>0, <3>1 DEF TypeOK, ToSet
      <4>. QED  BY <1>1, <4>1 DEF Message, Worklet
    <3>3. ~Heard(up)
      BY <1>1, <3>1, <3>2 DEF Heard
    <3>4. page.socket = 0
      BY <1>0, <3>1, <3>3 DEF UpInv, SocketInv, Linked
    <3>5. Quiet
      BY <1>0, <3>1, <3>4 DEF UpInv, Mute
    <3>6. ~Linked
      BY <3>1, <3>4 DEF Linked
    <3>. QED  BY <1>1, <1>5, <2>1, <3>4, <3>5, <3>6 DEF Quiet
  <2>. QED  BY <2>2, <2>3 DEF AdapterMove
<1>. QED  BY <1>2, <1>3, <1>4, <1>6, <1>7 DEF PlayoutInv

LEMMA SendFrameIs ==
  ASSUME TypeOK, NEW f \in Frame, SendFrame(f)
  PROVE  /\ srv' \in Adapter /\ srv'.clear = srv.clear /\ srv'.socket = srv.socket
         /\ srv'.held = NoFrame
         /\ down' \in Seq(Message)
         /\ \A m \in ToSet(down') :
              m \in ToSet(down) \/ (Linked /\ m # Close /\ m.gen = f.gen)
<1>1. srv \in Adapter
  BY DEF TypeOK
<1>2. /\ srv' \in Adapter /\ srv'.clear = srv.clear /\ srv'.socket = srv.socket
      /\ srv'.held = NoFrame
  BY <1>1 DEF SendFrame, Adapter
<1> DEFINE m == Of("frame", f)
<1>3. m \in Message /\ m # Close /\ m.gen = f.gen
  BY FrameMessageIs, CloseIs
<1>4. down' = Down(m)
  BY DEF SendFrame
<1> HIDE DEF m
<1>. QED  BY <1>2, <1>3, <1>4, DownIs

LEMMA PlayFrameMoves == ASSUME PlayoutInv, PlayFrame PROVE AdapterMove
<1>0. TypeOK /\ SocketInv
  BY DEF PlayoutInv
<1>1. relay \in Relay /\ srv \in Adapter /\ down \in Seq(Message) /\ up \in Seq(Message)
  BY <1>0 DEF TypeOK
<1> DEFINE f == [gen |-> relay.gen, n |-> relay.made + 1]
<1>2. f \in Frame /\ f.gen = relay.gen
  BY <1>1 DEF Frame, Relay
<1>3. /\ relay' \in Relay /\ relay'.gen = relay.gen /\ relay'.told = relay.told
      /\ up' = up /\ UNCHANGED browser
  BY <1>1 DEF PlayFrame, Relay
<1>4. CASE UNCHANGED <<srv, down>>
  BY <1>0, <1>1, <1>3, <1>4 DEF AdapterMove, SocketInv
<1>5. CASE srv.socket # 0 /\ SendFrame(f)
  BY <1>0, <1>1, <1>2, <1>3, <1>5, SendFrameIs DEF AdapterMove, SocketInv
<1>6. CASE srv.socket # 0 /\ srv' = [srv EXCEPT !.held = f] /\ UNCHANGED down
  <2>1. /\ srv' \in Adapter /\ srv'.clear = srv.clear /\ srv'.socket = srv.socket
        /\ srv'.held = f
    BY <1>1, <1>2, <1>6 DEF Adapter
  <2>. QED  BY <1>0, <1>1, <1>2, <1>3, <1>6, <2>1 DEF AdapterMove, SocketInv
<1>. QED  BY <1>4, <1>5, <1>6 DEF PlayFrame

LEMMA ReleaseFrameMoves == ASSUME PlayoutInv, ReleaseFrame PROVE AdapterMove
<1>0. TypeOK /\ SocketInv
  BY DEF PlayoutInv
<1>1. relay \in Relay /\ srv \in Adapter /\ up \in Seq(Message)
  BY <1>0 DEF TypeOK
<1>2. /\ srv.held # NoFrame /\ SendFrame(srv.held)
      /\ relay' = relay /\ up' = up /\ UNCHANGED browser
  BY DEF ReleaseFrame
<1>3. srv.held \in Frame
  BY <1>1, <1>2 DEF Adapter
<1>4. /\ srv' \in Adapter /\ srv'.clear = srv.clear /\ srv'.socket = srv.socket
      /\ srv'.held = NoFrame
      /\ down' \in Seq(Message)
      /\ \A m \in ToSet(down') :
           m \in ToSet(down) \/ (Linked /\ m # Close /\ m.gen = srv.held.gen)
  BY <1>0, <1>2, <1>3, SendFrameIs
<1>. QED  BY <1>0, <1>1, <1>2, <1>4 DEF AdapterMove, SocketInv

LEMMA ExpireFrameMoves == ASSUME PlayoutInv, ExpireFrame PROVE AdapterMove
<1>0. TypeOK /\ SocketInv
  BY DEF PlayoutInv
<1>1. relay \in Relay /\ srv \in Adapter /\ down \in Seq(Message) /\ up \in Seq(Message)
  BY <1>0 DEF TypeOK
<1>2. PICK f \in srv.pending : srv' = [srv EXCEPT !.pending = @ \ {f}]
  BY DEF ExpireFrame
<1>3. UNCHANGED <<relay, down, up, browser>>
  BY DEF ExpireFrame
<1>4. /\ srv' \in Adapter /\ srv'.clear = srv.clear /\ srv'.socket = srv.socket
      /\ srv'.held = srv.held
  BY <1>1, <1>2 DEF Adapter
<1>. QED  BY <1>0, <1>1, <1>3, <1>4 DEF AdapterMove, SocketInv

\* A detached adapter holds no frame.
LEMMA DetachedIs ==
  ASSUME NEW s \in Adapter
  PROVE  /\ Detached(s) \in Adapter /\ Detached(s).socket = 0 /\ Detached(s).held = NoFrame
         /\ Detached(s).clear = s.clear
BY DEF Detached, Adapter

LEMMA CutMoves ==
  ASSUME PlayoutInv, NEW status \in {"active", "paused", "waiting"}, Cut(status)
  PROVE  AdapterMove
<1>0. TypeOK /\ SocketInv
  BY DEF PlayoutInv
<1>1. relay \in Relay /\ srv \in Adapter /\ down \in Seq(Message) /\ up \in Seq(Message)
  BY <1>0 DEF TypeOK
<1> DEFINE g == relay.gen + 1
           s == [srv EXCEPT !.clear = g, !.acked = FALSE,
                            !.pending = {f \in @ : f.gen >= g}, !.gone = FALSE]
<1>2. g \in Nat /\ relay.told <= g
  BY <1>0, <1>1 DEF Relay, SocketInv
<1>3. s \in Adapter /\ s.clear = g /\ s.socket = srv.socket /\ s.held = srv.held
  <2>1. {f \in srv.pending : f.gen >= g} \in SUBSET Frame
    BY <1>1 DEF Adapter
  <2>. QED  BY <1>1, <1>2, <2>1 DEF Adapter
<1>4. UNCHANGED <<up, browser>>
  BY DEF Cut
<1>5. CASE /\ relay' = [relay EXCEPT !.gen = g, !.status = status]
           /\ srv' = s
           /\ down' = IF srv.socket # 0 THEN Down(Msg("clear", g, 0)) ELSE down
  <2>1. relay' \in Relay /\ relay'.gen = g /\ relay'.told = relay.told
    BY <1>1, <1>2, <1>5 DEF Relay
  <2> DEFINE m == Msg("clear", g, 0)
  <2>2. m \in Message /\ m # Close /\ m.kind = "clear"
    BY <1>2, MessageIs, CloseIs
  <2>3. down' = down \/ down' = Down(m)
    BY <1>5
  <2> HIDE DEF m, s, g
  <2>4. /\ down' \in Seq(Message)
        /\ \A d \in ToSet(down') : d \in ToSet(down) \/ (Linked /\ d = m)
    BY <1>0, <1>1, <2>2, <2>3, DownIs
  <2>5. \A d \in ToSet(down') :
          d \in ToSet(down) \/ (Linked /\ d # Close /\ d.kind # "frame")
    BY <2>2, <2>4
  <2>. QED  BY <1>0, <1>1, <1>2, <1>3, <1>4, <1>5, <2>1, <2>4, <2>5 DEF AdapterMove, SocketInv
<1>6. CASE /\ srv.socket # 0
           /\ relay' = [relay EXCEPT !.gen = g, !.status = "ended"]
           /\ srv' = Detached(s) /\ down' = Down(Close)
  <2>1. relay' \in Relay /\ relay'.gen = g /\ relay'.told = relay.told
    BY <1>1, <1>2, <1>6 DEF Relay
  <2> HIDE DEF s, g
  <2>2. srv' \in Adapter /\ srv'.clear = g /\ srv'.socket = 0 /\ srv'.held = NoFrame
    BY <1>3, <1>6, DetachedIs
  <2>3. /\ down' \in Seq(Message)
        /\ \A d \in ToSet(down') : d \in ToSet(down) \/ (Linked /\ d = Close)
    BY <1>0, <1>6, CloseIs, DownIs
  <2>. QED  BY <1>0, <1>1, <1>2, <1>4, <2>1, <2>2, <2>3, CloseIs DEF AdapterMove, SocketInv
<1>. QED  BY <1>5, <1>6 DEF Cut

LEMMA HearGoneMoves == ASSUME PlayoutInv, HearGone PROVE AdapterMove
<1>0. TypeOK /\ SocketInv
  BY DEF PlayoutInv
<1>1. relay \in Relay /\ srv \in Adapter /\ down \in Seq(Message) /\ up \in Seq(Message)
  BY <1>0 DEF TypeOK
<1>2. CASE Cut("waiting")
  BY <1>2, CutMoves
<1>3. CASE /\ relay' = [relay EXCEPT !.status = "waiting"]
           /\ srv' = [srv EXCEPT !.gone = FALSE]
           /\ UNCHANGED <<down, up, browser>>
  <2>1. relay' \in Relay /\ relay'.gen = relay.gen /\ relay'.told = relay.told
    BY <1>1, <1>3 DEF Relay
  <2>2. /\ srv' \in Adapter /\ srv'.clear = srv.clear /\ srv'.socket = srv.socket
        /\ srv'.held = srv.held
    BY <1>1, <1>3 DEF Adapter
  <2>. QED  BY <1>0, <1>1, <1>3, <2>1, <2>2 DEF AdapterMove, SocketInv
<1>. QED  BY <1>2, <1>3 DEF HearGone

LEMMA StartMoves == ASSUME PlayoutInv, Start PROVE AdapterMove
<1>0. TypeOK /\ SocketInv
  BY DEF PlayoutInv
<1>1. relay \in Relay /\ srv \in Adapter /\ down \in Seq(Message) /\ up \in Seq(Message)
  BY <1>0 DEF TypeOK
<1>2. relay' \in Relay /\ relay'.gen = relay.gen /\ relay'.told = relay.told
  BY <1>1 DEF Start, Relay
<1>3. UNCHANGED <<srv, down, up, browser>>
  BY DEF Start
<1>. QED  BY <1>0, <1>1, <1>2, <1>3 DEF AdapterMove, SocketInv

LEMMA ReceiveUpMoves == ASSUME PlayoutInv, ReceiveUp PROVE AdapterMove
<1>0. TypeOK /\ SocketInv
  BY DEF PlayoutInv
<1>1. relay \in Relay /\ srv \in Adapter /\ down \in Seq(Message) /\ up \in Seq(Message)
  BY <1>0 DEF TypeOK
<1>2. srv.socket # 0 /\ up # <<>> /\ UNCHANGED browser
  BY DEF ReceiveUp
<1> DEFINE m == Head(up)
           answers == m.kind = "applied" /\ ~srv.acked /\ m.gen = srv.clear
<1>3. m \in Message /\ m \in ToSet(up) /\ Tail(up) \in Seq(Message) /\ ToSet(Tail(up)) \subseteq ToSet(up)
  BY <1>1, <1>2, SetOfHead
<1>4. up = <<Close>> => m = Close
  OBVIOUS
<1>5. <<>> \in Seq(Message) /\ ToSet(<<>>) \subseteq ToSet(up)
  BY SetOfEmpty
<1>6. relay.told <= relay.gen
  BY <1>0 DEF SocketInv
<1>7. CASE m = Close /\ srv' = Detached(srv) /\ up' = <<>> /\ UNCHANGED <<relay, down>>
  BY <1>0, <1>1, <1>2, <1>5, <1>7, DetachedIs DEF AdapterMove, SocketInv
<1>8. CASE /\ m.kind \in {"started", "dropped"}
           /\ srv' = [srv EXCEPT !.pending = @ \ {FrameOf(m)}]
           /\ up' = Tail(up) /\ UNCHANGED <<relay, down>>
  <2>1. /\ srv' \in Adapter /\ srv'.clear = srv.clear /\ srv'.socket = srv.socket
        /\ srv'.held = srv.held
    BY <1>1, <1>8 DEF Adapter
  <2>2. m # Close
    BY <1>8, CloseIs
  <2>. QED  BY <1>0, <1>1, <1>2, <1>3, <1>4, <1>8, <2>1, <2>2 DEF AdapterMove, SocketInv
<1>9. CASE /\ answers
           /\ srv' = [srv EXCEPT !.acked = TRUE]
           /\ relay' = [relay EXCEPT !.told = m.gen]
           /\ up' = Tail(up) /\ UNCHANGED down
  <2>1. /\ srv' \in Adapter /\ srv'.clear = srv.clear /\ srv'.socket = srv.socket
        /\ srv'.held = srv.held
    BY <1>1, <1>9 DEF Adapter
  <2>2. m.gen \in Nat /\ m.gen = relay.gen
    BY <1>0, <1>3, <1>9 DEF Message, SocketInv
  <2>3. relay' \in Relay /\ relay'.gen = relay.gen /\ relay'.told = m.gen
    BY <1>1, <1>9, <2>2 DEF Relay
  <2>4. m # Close
    BY <1>9, CloseIs
  <2>5. Told
    BY <1>2, <1>3, <1>9, <2>3 DEF Told
  <2>6. relay'.told <= relay'.gen
    BY <2>2, <2>3
  <2>. QED  BY <1>0, <1>1, <1>2, <1>3, <1>4, <1>9, <2>1, <2>3, <2>4, <2>5, <2>6
            DEF AdapterMove, SocketInv
<1>10. CASE /\ srv' = Detached(srv) /\ up' = <<>> /\ down' = Down(Close)
            /\ UNCHANGED relay
  <2>1. /\ down' \in Seq(Message)
        /\ \A d \in ToSet(down') : d \in ToSet(down) \/ (Linked /\ d = Close)
    BY <1>0, <1>10, CloseIs, DownIs
  <2>. QED  BY <1>0, <1>1, <1>2, <1>5, <1>10, <2>1, DetachedIs, CloseIs DEF AdapterMove, SocketInv
<1>11. CASE m.kind = "applied" /\ up' = Tail(up) /\ UNCHANGED <<srv, relay, down>>
  <2>1. m # Close
    BY <1>11, CloseIs
  <2>. QED  BY <1>0, <1>1, <1>2, <1>3, <1>4, <1>11, <2>1 DEF AdapterMove, SocketInv
<1>. QED  BY <1>7, <1>8, <1>9, <1>10, <1>11 DEF ReceiveUp

-----------------------------------------------------------------------------
(***************************************************************************)
(* The steps of the sockets and the page.                                  *)
(***************************************************************************)
LEMMA ConnectKeeps == ASSUME PlayoutAssumption, PlayoutInv, Connect PROVE PlayoutInv'
<1>0. TypeOK /\ SocketInv /\ WorkInv /\ FreshInv
  BY DEF PlayoutInv
<1>1. srv \in Adapter /\ page \in Page /\ toWork \in Seq(Message)
  BY <1>0 DEF TypeOK
<1> DEFINE n == srv.used + 1
           S == {g \in Generation : page.pending[g] # 0}
           replay == Msg("clear", srv.clear, 0)
<1>2. n \in Nat /\ n # 0
  BY <1>1 DEF Adapter
<1>3. /\ page.running /\ srv.socket = 0
      /\ srv' = [srv EXCEPT !.socket = n, !.used = n]
      /\ page' = [page EXCEPT !.socket = n,
                      !.pending = [g \in Generation |-> IF @[g] # 0 THEN n ELSE 0]]
      /\ down' = IF srv.acked THEN <<>> ELSE <<replay>>
      /\ up' = <<>> /\ toWork' = toWork \o Clears(S)
      /\ UNCHANGED <<relay, work, fromWork>>
  BY DEF Connect
<1>4. srv' \in Adapter /\ srv'.clear = srv.clear /\ srv'.socket = n /\ srv'.held = NoFrame
  BY <1>0, <1>1, <1>2, <1>3 DEF Adapter, SocketInv
<1>5. page' \in Page /\ page'.socket = n /\ page'.running
  <2>1. [g \in Generation |-> IF page.pending[g] # 0 THEN n ELSE 0] \in [Generation -> Nat]
    BY <1>2
  <2>. QED  BY <1>1, <1>2, <1>3, <2>1 DEF Page
<1>6. replay \in Message /\ replay.kind = "clear" /\ replay # Close
  <2>1. srv.clear \in Nat
    BY <1>1 DEF Adapter
  <2>. QED  BY <2>1, MessageIs, CloseIs
<1> HIDE DEF replay
<1>7. down' \in Seq(Message) /\ \A m \in ToSet(down') : m = replay
  BY <1>3, <1>6, SetOfEmpty, SetOfOne
<1>8. toWork' \in Seq(Message) /\ \A m \in ToSet(toWork') : m \in ToSet(toWork) \/ m.kind = "clear"
  <2>1. S \in SUBSET Generation
    OBVIOUS
  <2> DEFINE clears == Clears(S)
  <2>2. clears \in Seq(Message) /\ \A m \in ToSet(clears) : m.kind = "clear"
    BY <2>1, ClearsAre
  <2>3. toWork' = toWork \o clears
    BY <1>3
  <2> HIDE DEF clears, S
  <2>4. ToSet(toWork') = ToSet(toWork) \cup ToSet(clears) /\ toWork' \in Seq(Message)
    BY <1>1, <2>2, <2>3, SetOfConcat
  <2>. QED  BY <2>2, <2>4
<1> HIDE DEF n, S
<1>9. TypeOK' /\ SocketInv'
  BY <1>0, <1>3, <1>4, <1>5, <1>7, <1>8 DEF TypeOK, SocketInv
<1>10. WorkInv'
  BY <1>0, <1>3 DEF WorkInv, Playing, Heard
<1>11. UpInv'
  BY <1>2, <1>3, <1>5, <1>6, <1>7, SetOfEmpty DEF UpInv, Heard
<1>12. FreshInv'
  BY <1>0, <1>3, <1>4, <1>6, <1>7, <1>8 DEF FreshInv, Playing
<1>. QED  BY <1>9, <1>10, <1>11, <1>12 DEF PlayoutInv

LEMMA BreakKeeps == ASSUME PlayoutInv, Break PROVE PlayoutInv'
<1>0. TypeOK /\ SocketInv /\ WorkInv /\ FreshInv
  BY DEF PlayoutInv
<1>1. /\ page.socket # 0 /\ down' = <<Close>> /\ up' = <<Close>>
      /\ relay' = relay /\ srv' = srv /\ page' = page /\ work' = work
      /\ toWork' = toWork /\ fromWork' = fromWork
  BY DEF Break, browser
<1>2. down' \in Seq(Message) /\ ToSet(down') = {Close} /\ ToSet(up') = {Close}
  BY <1>1, CloseIs, SetOfOne
<1>3. TypeOK' /\ SocketInv'
  BY <1>0, <1>1, <1>2 DEF TypeOK, SocketInv
<1>4. WorkInv'
  BY <1>0, <1>1 DEF WorkInv, Playing, Heard
<1>5. UpInv'
  BY <1>1, <1>2, CloseIs DEF UpInv, Heard
<1>6. FreshInv'
  BY <1>0, <1>1, <1>2, CloseIs DEF FreshInv, Playing, Linked
<1>. QED  BY <1>3, <1>4, <1>5, <1>6 DEF PlayoutInv

LEMMA NewPageIs ==
  ASSUME PlayoutAssumption
  PROVE  NewPage \in Page /\ NewPage.socket = 0 /\ NewPage.running
         /\ [NewPage EXCEPT !.running = FALSE] \in Page
         /\ [NewPage EXCEPT !.running = FALSE].socket = 0
BY DEF NewPage, NoClears, Page

LEMMA StartPageKeeps == ASSUME PlayoutAssumption, PlayoutInv, StartPage PROVE PlayoutInv'
<1>0. TypeOK /\ SocketInv /\ WorkInv /\ UpInv /\ FreshInv
  BY DEF PlayoutInv
<1>1. /\ ~page.running /\ page' = NewPage
      /\ UNCHANGED <<relay, srv, down, up, work, toWork, fromWork>>
  BY DEF StartPage
<1>2. page.socket = 0 /\ page' \in Page /\ page'.socket = 0 /\ page'.running
  BY <1>0, <1>1, NewPageIs DEF SocketInv
<1>3. TypeOK' /\ SocketInv'
  BY <1>0, <1>1, <1>2 DEF TypeOK, SocketInv
<1>4. WorkInv'
  BY <1>0, <1>1 DEF WorkInv, Playing, Heard
<1>5. UpInv'
  BY <1>0, <1>1, <1>2 DEF UpInv, Linked, Heard, Mute, Quiet, Playing
<1>6. FreshInv'
  BY <1>0, <1>1, <1>2 DEF FreshInv, Playing, Linked
<1>. QED  BY <1>3, <1>4, <1>5, <1>6 DEF PlayoutInv

\* A page that stops takes all that its worklet played with it.
LEMMA StopPageKeeps == ASSUME PlayoutAssumption, PlayoutInv, StopPage PROVE PlayoutInv'
<1>0. TypeOK /\ SocketInv
  BY DEF PlayoutInv
<1>1. /\ page' = [NewPage EXCEPT !.running = FALSE]
      /\ work' = NewWork /\ toWork' = <<>> /\ fromWork' = <<>>
      /\ up' = Up(Close) /\ down' = <<>>
      /\ UNCHANGED <<relay, srv>>
  BY DEF StopPage
<1>2. page' \in Page /\ page'.socket = 0
  BY <1>1, NewPageIs
<1>3. up' \in Seq(Message)
  BY <1>0, <1>1, UpIs, CloseIs
<1>4. work' \in Worklet /\ work'.queue = <<>> /\ work'.playing = NoFrame /\ work'.receipts = {}
  BY <1>1 DEF NewWork, Worklet
<1>5. TypeOK' /\ SocketInv'
  BY <1>0, <1>1, <1>2, <1>3, <1>4 DEF TypeOK, SocketInv
<1>6. Playing' = {}
  BY <1>4, SetOfEmpty DEF Playing
<1>7. WorkInv'
  BY <1>1, <1>4, <1>6, SetOfEmpty DEF WorkInv, Heard
<1>8. ~Linked'
  BY <1>2 DEF Linked
<1>9. UpInv'
  BY <1>1, <1>6, <1>8, SetOfEmpty DEF UpInv, Quiet
<1>10. FreshInv'
  BY <1>1, <1>2, <1>6, <1>8, SetOfEmpty DEF FreshInv
<1>. QED  BY <1>5, <1>7, <1>9, <1>10 DEF PlayoutInv

LEMMA TakeClearIs ==
  ASSUME TypeOK, NEW g \in Nat, TakeClear(g)
  PROVE  /\ page' \in Page /\ page'.socket = page.socket /\ page'.running = page.running
         /\ toWork' \in Seq(Message)
         /\ \A m \in ToSet(toWork') : m \in ToSet(toWork) \/ m.kind = "clear"
<1>1. page \in Page /\ toWork \in Seq(Message)
  BY DEF TypeOK
<1>2. CASE UNCHANGED <<page, toWork>>
  BY <1>1, <1>2
<1>3. CASE /\ page' = [page EXCEPT !.pending[g] = page.socket, !.answered[g] = 0]
           /\ toWork' = Append(toWork, Msg("clear", g, 0))
  <2>1. Msg("clear", g, 0) \in Message /\ Msg("clear", g, 0).kind = "clear"
    BY MessageIs
  <2>2. page' \in Page /\ page'.socket = page.socket /\ page'.running = page.running
    BY <1>1, <1>3 DEF Page
  <2>. QED  BY <1>1, <1>3, <2>1, <2>2, SetOfAppend
<1>. QED  BY <1>2, <1>3 DEF TakeClear

LEMMA ReceiveDownKeeps == ASSUME PlayoutInv, ReceiveDown PROVE PlayoutInv'
<1>0. TypeOK /\ SocketInv /\ WorkInv /\ UpInv /\ FreshInv
  BY DEF PlayoutInv
<1>1. page \in Page /\ srv \in Adapter /\ down \in Seq(Message) /\ toWork \in Seq(Message)
  BY <1>0 DEF TypeOK
<1> DEFINE m == Head(down)
<1>2. /\ page.socket # 0 /\ down # <<>> /\ down' = Tail(down)
      /\ UNCHANGED <<relay, srv, up, work, fromWork>>
  BY DEF ReceiveDown
<1>3. m \in Message /\ m \in ToSet(down) /\ down' \in Seq(Message) /\ ToSet(down') \subseteq ToSet(down)
  BY <1>1, <1>2, SetOfHead
<1> DEFINE sent == [m EXCEPT !.kind = "push"]
<1>4. WorkInv'
  BY <1>0, <1>2 DEF WorkInv, Playing, Heard
<1>5. ASSUME page' \in Page, page'.socket = page.socket, page'.running = page.running,
             toWork' \in Seq(Message),
             \A d \in ToSet(toWork') :
               \/ d \in ToSet(toWork) \/ d.kind = "clear"
               \/ m.kind = "frame" /\ d.gen = m.gen
      PROVE  PlayoutInv'
  <2>1. TypeOK' /\ SocketInv'
    BY <1>0, <1>2, <1>3, <1>5 DEF TypeOK, SocketInv
  <2>2. UpInv'
    BY <1>0, <1>2, <1>3, <1>5 DEF UpInv, Linked, Heard
  <2>3. FreshInv'
    BY <1>0, <1>2, <1>3, <1>5 DEF FreshInv, Playing, Linked
  <2>. QED  BY <1>4, <2>1, <2>2, <2>3 DEF PlayoutInv
<1>6. CASE m.kind = "clear" /\ TakeClear(m.gen)
  <2>1. m.gen \in Nat
    BY <1>3 DEF Message
  <2>. QED  BY <1>0, <1>5, <1>6, <2>1, TakeClearIs
<1>7. CASE m.kind = "frame" /\ toWork' = Append(toWork, sent) /\ UNCHANGED page
  <2>1. sent \in Message /\ sent.gen = m.gen
    BY <1>3 DEF Message
  <2> HIDE DEF sent, m
  <2>2. toWork' \in Seq(Message) /\ ToSet(toWork') = ToSet(toWork) \cup {sent}
    BY <1>1, <1>7, <2>1, SetOfAppend
  <2>. QED  BY <1>1, <1>5, <1>7, <2>1, <2>2
<1>8. CASE /\ m = Close
           /\ page' = [page EXCEPT !.socket = 0]
           /\ toWork' = Append(toWork, Msg("reset", 0, 0))
  <2>1. page' \in Page /\ page'.socket = 0
    BY <1>1, <1>8 DEF Page
  <2>2. Msg("reset", 0, 0) \in Message /\ Msg("reset", 0, 0).kind = "reset"
    BY MessageIs
  <2>3. toWork' \in Seq(Message) /\ ToSet(toWork') = ToSet(toWork) \cup {Msg("reset", 0, 0)}
    BY <1>1, <1>8, <2>2, SetOfAppend
  <2>4. TypeOK' /\ SocketInv'
    BY <1>0, <1>2, <1>3, <2>1, <2>3 DEF TypeOK, SocketInv
  <2>5. ~Linked'
    BY <2>1 DEF Linked
  <2>6. srv.socket # 0 => Mute(up')
    <3>1. srv.socket # 0 => up = <<Close>>
      BY <1>0, <1>2, <1>3, <1>8 DEF UpInv, SocketInv, Linked
    <3>. QED  BY <1>2, <3>1, CloseIs, SetOfOne DEF Mute
  <2>7. UpInv'
    BY <1>2, <2>5, <2>6 DEF UpInv, Mute
  <2>8. FreshInv'
    BY <1>0, <1>2, <2>1, <2>2, <2>3, <2>5 DEF FreshInv, Playing
  <2>. QED  BY <1>4, <2>4, <2>7, <2>8 DEF PlayoutInv
<1>. QED  BY <1>6, <1>7, <1>8 DEF ReceiveDown

LEMMA ForwardKeeps == ASSUME PlayoutInv, Forward PROVE PlayoutInv'
<1>0. TypeOK /\ SocketInv /\ WorkInv /\ UpInv /\ FreshInv
  BY DEF PlayoutInv
<1>1. page \in Page /\ up \in Seq(Message) /\ fromWork \in Seq(Message)
  BY <1>0 DEF TypeOK
<1> DEFINE m == Head(fromWork)
<1>2. /\ fromWork # <<>> /\ fromWork' = Tail(fromWork)
      /\ UNCHANGED <<relay, srv, down, work, toWork>>
  BY DEF Forward
<1>3. /\ m \in Message /\ m \in ToSet(fromWork) /\ fromWork' \in Seq(Message)
      /\ ToSet(fromWork') \subseteq ToSet(fromWork)
  BY <1>1, <1>2, SetOfHead
<1>4. page' \in Page /\ page'.socket = page.socket /\ page'.running = page.running
  <2>1. page' = page \/ page' = [page EXCEPT !.pending[m.gen] = 0, !.answered[m.gen] = page.socket]
    BY DEF Forward
  <2> DEFINE owed == [page.pending EXCEPT ![m.gen] = 0]
             answered == [page.answered EXCEPT ![m.gen] = page.socket]
  <2> HIDE DEF m
  <2>2. page.socket \in Nat /\ page.pending \in [Generation -> Nat] /\ page.answered \in [Generation -> Nat]
    BY <1>1 DEF Page
  <2>3. owed \in [Generation -> Nat] /\ answered \in [Generation -> Nat]
    BY <2>2
  <2>4. page' = page \/ page' = [page EXCEPT !.pending = owed, !.answered = answered]
    BY <2>1
  <2> HIDE DEF owed, answered
  <2>. QED  BY <1>1, <2>3, <2>4 DEF Page
<1>5. up' = up \/ up' = Up(m)
  BY DEF Forward
<1> HIDE DEF m
<1>6. /\ up' \in Seq(Message)
      /\ \/ up' = up
         \/ Linked /\ Close \notin ToSet(up) /\ ToSet(up') = ToSet(up) \cup {m}
  BY <1>0, <1>1, <1>3, <1>5, UpIs
<1>7. TypeOK' /\ SocketInv'
  BY <1>0, <1>2, <1>3, <1>4, <1>6 DEF TypeOK, SocketInv
<1>8. WorkInv'
  BY <1>0, <1>2, <1>3 DEF WorkInv, Playing, Heard
<1>9. UpInv'
  <2>1. CASE up' = up
    BY <1>0, <1>2, <1>4, <2>1 DEF UpInv, Linked, Heard, Mute, Quiet, Playing
  <2>2. CASE Linked /\ Close \notin ToSet(up) /\ ToSet(up') = ToSet(up) \cup {m}
    <3>1. Heard(up)'
      BY <1>0, <1>2, <1>3, <2>2 DEF UpInv, WorkInv, Heard
    <3>2. up # <<Close>>
      BY <2>2, SetOfOne
    <3>3. Close \notin ToSet(down')
      BY <1>0, <1>2, <2>2, <3>2 DEF UpInv
    <3>4. page'.socket # 0
      BY <1>4, <2>2 DEF Linked
    <3>. QED  BY <3>1, <3>3, <3>4 DEF UpInv
  <2>. QED  BY <1>6, <2>1, <2>2
<1>10. FreshInv'
  BY <1>0, <1>2, <1>4 DEF FreshInv, Playing, Linked
<1>. QED  BY <1>7, <1>8, <1>9, <1>10 DEF PlayoutInv

-----------------------------------------------------------------------------
(***************************************************************************)
(* The steps of the worklet.                                               *)
(***************************************************************************)
LEMMA WorkReceiveKeeps ==
  ASSUME PlayoutAssumption, PlayoutInv, WorkReceive PROVE PlayoutInv'
<1>0. TypeOK /\ SocketInv /\ WorkInv /\ UpInv /\ FreshInv
  BY DEF PlayoutInv
<1>1. /\ relay \in Relay /\ work \in Worklet /\ work.gen \in Nat \cup {-1} /\ relay.told \in Nat
      /\ toWork \in Seq(Message) /\ fromWork \in Seq(Message) /\ up \in Seq(Message)
  BY <1>0 DEF TypeOK, Relay, Worklet
<1> DEFINE m == Head(toWork)
<1>2. /\ toWork # <<>> /\ toWork' = Tail(toWork)
      /\ UNCHANGED <<relay, srv, down, up, page>>
  BY DEF WorkReceive
<1>3. /\ m \in Message /\ m \in ToSet(toWork) /\ toWork' \in Seq(Message)
      /\ ToSet(toWork') \subseteq ToSet(toWork)
  BY <1>1, <1>2, SetOfHead
<1>4. ASSUME Sound(work'), work'.gen >= work.gen, fromWork' \in Seq(Message), Heard(fromWork)',
             m.kind # "push" => (Empty(work) => Empty(work')),
             m.kind = "push" => work'.gen >= m.gen
      PROVE  PlayoutInv'
  <2>1. work' \in Worklet /\ work'.gen \in Nat \cup {-1}
    BY <1>4 DEF Sound, Worklet
  <2>2. TypeOK' /\ SocketInv'
    BY <1>0, <1>2, <1>3, <1>4, <2>1 DEF TypeOK, SocketInv
  <2>3. WorkInv'
    <3>1. (WorkInv <=> Sound(work) /\ Heard(fromWork))'
      BY <2>2, WorkIsSound, PTL
    <3>. QED  BY <1>4, <3>1
  <2>4. (Playing = {} <=> Empty(work)) /\ (Playing = {} <=> Empty(work))'
    BY <1>0, <2>2, SilentIsEmpty, PTL
  <2>5. Quiet => Quiet'
    BY <1>3, <1>4, <2>4 DEF Quiet
  <2>6. (Linked => Heard(up)) => (Linked => Heard(up))'
    <3>1. \A a \in ToSet(up) : a.gen \in Nat
      <4>1. \A a \in ToSet(up) : a \in Message
        BY <1>1 DEF ToSet
      <4>. QED  BY <4>1 DEF Message
    <3>. QED  BY <1>1, <1>2, <1>4, <2>1, <3>1 DEF Heard, Linked
  <2>7. UpInv'
    BY <1>0, <1>2, <2>5, <2>6 DEF UpInv, Linked, Mute
  <2>8. FreshInv'
    <3> SUFFICES ASSUME work'.gen < relay'.told PROVE FreshInv'
      BY DEF FreshInv
    <3>1. work.gen < relay.told
      BY <1>1, <1>2, <1>4, <2>1
    <3>2. m.kind # "push"
      <4>1. m.kind = "push" => m.gen >= relay.told /\ work'.gen >= m.gen
        BY <1>0, <1>3, <1>4, <3>1 DEF FreshInv
      <4>2. m.gen \in Nat /\ relay'.told = relay.told
        BY <1>2, <1>3 DEF Message
      <4>. QED  BY <1>1, <2>1, <4>1, <4>2
    <3>3. Playing' = {}
      BY <1>0, <1>4, <2>4, <3>1, <3>2 DEF FreshInv
    <3>. QED  BY <1>0, <1>2, <1>3, <3>1, <3>3 DEF FreshInv, Linked
  <2>. QED  BY <2>2, <2>3, <2>7, <2>8 DEF PlayoutInv
<1>5. CASE m.kind = "clear" /\ WorkClear(m.gen)
  <2>1. m.gen \in Nat
    BY <1>3 DEF Message
  <2>. QED  BY <1>0, <1>4, <1>5, <2>1, WorkClearIs
<1>6. CASE m.kind = "push" /\ WorkPush(FrameOf(m))
  <2>1. FrameOf(m) \in Frame /\ FrameOf(m).gen = m.gen
    BY <1>3 DEF FrameOf, Frame, Message
  <2>. QED  BY <1>0, <1>4, <1>6, <2>1, PushIs
<1>7. CASE m.kind = "reset" /\ WorkReset
  <2>1. /\ work' \in Worklet /\ work'.gen = work.gen /\ work'.queue = <<>>
        /\ work'.playing = NoFrame /\ work'.receipts = work.receipts /\ fromWork' = fromWork
    <3>1. <<>> \in Seq(Frame)
      OBVIOUS
    <3>. QED  BY <1>1, <1>7, <3>1 DEF WorkReset, Worklet
  <2>2. Sound(work) /\ Heard(fromWork)
    BY <1>0, WorkIsSound
  <2>3. Sound(work') /\ Empty(work') /\ Heard(fromWork)'
    BY <2>1, <2>2, SetOfEmpty DEF Sound, Empty, Heard
  <2>. QED  BY <1>1, <1>4, <1>7, <2>1, <2>3
<1>. QED  BY <1>5, <1>6, <1>7 DEF WorkReceive

LEMMA WorkPlayKeeps == ASSUME PlayoutInv, WorkPlay PROVE PlayoutInv'
<1>0. TypeOK /\ SocketInv /\ WorkInv /\ UpInv /\ FreshInv
  BY DEF PlayoutInv
<1>1. work \in Worklet /\ work.queue \in Seq(Frame) /\ fromWork \in Seq(Message)
  BY <1>0 DEF TypeOK, Worklet
<1>2. UNCHANGED <<relay, srv, down, up, page, toWork>>
  BY DEF WorkPlay
<1>3. Sound(work) /\ Heard(fromWork)
  BY <1>0, WorkIsSound
<1>4. ~Empty(work)
  BY DEF WorkPlay, Empty
<1>5. Playing # {}
  BY <1>0, <1>4, SilentIsEmpty
<1>6. ASSUME Sound(work'), work'.gen = work.gen, fromWork' \in Seq(Message), Heard(fromWork)'
      PROVE  PlayoutInv'
  <2>1. TypeOK' /\ SocketInv'
    BY <1>0, <1>2, <1>6 DEF TypeOK, SocketInv, Sound
  <2>2. WorkInv'
    <3>1. (WorkInv <=> Sound(work) /\ Heard(fromWork))'
      BY <2>1, WorkIsSound, PTL
    <3>. QED  BY <1>6, <3>1
  <2>3. UpInv'
    BY <1>0, <1>2, <1>5, <1>6 DEF UpInv, Linked, Heard, Mute, Quiet
  <2>4. FreshInv'
    BY <1>0, <1>2, <1>5, <1>6 DEF FreshInv
  <2>. QED  BY <2>1, <2>2, <2>3, <2>4 DEF PlayoutInv
<1>7. CASE /\ work.queue # <<>>
           /\ work' = [work EXCEPT !.playing = Head(work.queue), !.queue = Tail(@)]
           /\ fromWork' = Append(fromWork, Of("started", Head(work.queue)))
  <2>1. /\ Head(work.queue) \in Frame /\ Head(work.queue) \in ToSet(work.queue)
        /\ Tail(work.queue) \in Seq(Frame) /\ ToSet(Tail(work.queue)) \subseteq ToSet(work.queue)
    BY <1>1, <1>7, SetOfHead
  <2>2. /\ work' \in Worklet /\ work'.gen = work.gen /\ work'.queue = Tail(work.queue)
        /\ work'.playing = Head(work.queue) /\ work'.receipts = work.receipts
    BY <1>1, <1>7, <2>1 DEF Worklet
  <2>3. Sound(work')
    BY <1>3, <2>1, <2>2 DEF Sound
  <2> DEFINE started == Of("started", Head(work.queue))
  <2>4. started \in Message /\ started.kind = "started"
    BY <2>1, FrameMessageIs
  <2>5. fromWork' = Append(fromWork, started)
    BY <1>7
  <2> HIDE DEF started
  <2>6. fromWork' \in Seq(Message) /\ ToSet(fromWork') = ToSet(fromWork) \cup {started}
    BY <1>1, <2>4, <2>5, SetOfAppend
  <2>7. Heard(fromWork)'
    BY <1>3, <2>2, <2>4, <2>6 DEF Heard
  <2>. QED  BY <1>6, <2>2, <2>3, <2>6, <2>7
<1>8. CASE work' = [work EXCEPT !.playing = NoFrame] /\ UNCHANGED fromWork
  <2>1. /\ work' \in Worklet /\ work'.gen = work.gen /\ work'.queue = work.queue
        /\ work'.playing = NoFrame /\ work'.receipts = work.receipts
    BY <1>1, <1>8 DEF Worklet
  <2>2. Sound(work') /\ Heard(fromWork)'
    BY <1>3, <1>8, <2>1 DEF Sound, Heard
  <2>. QED  BY <1>1, <1>6, <1>8, <2>1, <2>2
<1>. QED  BY <1>7, <1>8 DEF WorkPlay

-----------------------------------------------------------------------------
(***************************************************************************)
(* The theorem.                                                            *)
(***************************************************************************)
LEMMA PlayoutStarts == ASSUME PlayoutAssumption, Init PROVE PlayoutInv
<1>1. TypeOK
  BY NewPageIs DEF Init, TypeOK, Relay, Adapter, Worklet, NewWork
<1>2. SocketInv
  BY NewPageIs DEF Init, SocketInv
<1>3. Playing = {} /\ work.receipts = {}
  BY SetOfEmpty DEF Init, NewWork, Playing
<1>4. WorkInv /\ UpInv /\ FreshInv
  BY <1>3, SetOfEmpty DEF Init, WorkInv, UpInv, FreshInv, Heard, Mute, Linked
<1>. QED  BY <1>1, <1>2, <1>4 DEF PlayoutInv

LEMMA PlayoutStays == ASSUME PlayoutAssumption, PlayoutInv, [Next]_vars PROVE PlayoutInv'
<1>1. CASE PlayFrame \/ ReleaseFrame \/ ExpireFrame \/ HearGone \/ Start \/ ReceiveUp
  BY <1>1, PlayFrameMoves, ReleaseFrameMoves, ExpireFrameMoves, HearGoneMoves, StartMoves,
     ReceiveUpMoves, AdapterMoveKeeps
<1>2. CASE BargeIn \/ Pause \/ Resume
  <2>1. Cut("active") \/ Cut("paused")
    BY <1>2 DEF BargeIn, Pause, Resume
  <2>. QED  BY <2>1, CutMoves, AdapterMoveKeeps
<1>3. CASE Connect \/ Break \/ StartPage \/ StopPage \/ ReceiveDown \/ Forward
  BY <1>3, ConnectKeeps, BreakKeeps, StartPageKeeps, StopPageKeeps, ReceiveDownKeeps,
     ForwardKeeps
<1>4. CASE WorkReceive \/ WorkPlay
  BY <1>4, WorkReceiveKeeps, WorkPlayKeeps
<1>5. CASE UNCHANGED vars
  BY <1>5 DEF vars, PlayoutInv, TypeOK, SocketInv, WorkInv, UpInv, FreshInv, Linked, Heard, Mute,
              Quiet, Playing
<1>. QED  BY <1>1, <1>2, <1>3, <1>4, <1>5 DEF Next

\* Once the relay was told that a clear was applied, nothing older is queued
\* or plays on the participant's device (web/public/playout-worklet.js,
\* src/adapters/media/browser-websocket.ts).
THEOREM ClearedStaysSilent == Spec => []ClearedIsSilent
<1>1. PlayoutAssumption
  BY PlayoutAssumption
<1>2. Init => PlayoutInv
  BY <1>1, PlayoutStarts
<1>3. PlayoutInv /\ [Next]_vars => PlayoutInv'
  BY <1>1, PlayoutStays
<1>4. PlayoutInv => ClearedIsSilent
  <2> SUFFICES ASSUME PlayoutInv, NEW f \in Playing PROVE f.gen >= relay.told
    BY DEF ClearedIsSilent, Playing
  <2>1. f.gen = work.gen /\ ~(work.gen < relay.told)
    BY DEF PlayoutInv, WorkInv, FreshInv
  <2>2. work.gen \in Nat \cup {-1} /\ relay.told \in Nat
    BY DEF PlayoutInv, TypeOK, Worklet, Relay
  <2>. QED  BY <2>1, <2>2
<1>. QED  BY <1>2, <1>3, <1>4, PTL DEF Spec

-----------------------------------------------------------------------------
(***************************************************************************)
(* What is left of a filtered array.                                       *)
(***************************************************************************)
FilterStep(s, gone, g, i) ==
  IF i = 0 THEN <<>> ELSE IF s[i] \in gone THEN g[i - 1] ELSE Append(g[i - 1], s[i])
Filtered(s, gone, n, g) == g = [i \in 0 .. n |-> FilterStep(s, gone, g, i)]

LEMMA FilteredExists ==
  ASSUME NEW S, NEW s \in Seq(S), NEW gone
  PROVE  \E g : Filtered(s, gone, Len(s), g)
<1>. DEFINE Bad == {n \in 0 .. Len(s) : ~ \E g : Filtered(s, gone, n, g)}
<1>1. SUFFICES ASSUME Bad # {} PROVE FALSE
  <2>1. Len(s) \in 0 .. Len(s)
    BY LenProperties
  <2>. QED  BY <2>1
<1>2. PICK n \in Bad : \A m \in Bad : n <= m
  <2>1. Bad \subseteq Nat
    BY LenProperties
  <2>. QED  BY <1>1, <2>1, LeastNumber
<1>3. n \in Nat /\ n <= Len(s) /\ ~ \E g : Filtered(s, gone, n, g)
  BY <1>2, LenProperties
<1>4. n # 0
  <2>1. Filtered(s, gone, 0, [i \in 0 .. 0 |-> <<>>])
    BY DEF Filtered, FilterStep
  <2>. QED  BY <1>3, <2>1
<1>5. PICK g : Filtered(s, gone, n - 1, g)
  <2>1. n - 1 \in 0 .. Len(s) /\ ~(n <= n - 1)
    BY <1>3, <1>4, LenProperties
  <2>. QED  BY <1>2, <2>1
<1>6. DEFINE h == [i \in 0 .. n |-> FilterStep(s, gone, g, i)]
<1>7. \A i \in 0 .. n : i # 0 => i - 1 \in 0 .. n - 1
  BY <1>3
<1>8. \A i \in 0 .. n - 1 : i \in 0 .. n /\ h[i] = g[i]
  BY <1>3, <1>5 DEF Filtered
<1>9. \A i \in 0 .. n : FilterStep(s, gone, g, i) = FilterStep(s, gone, h, i)
  <2>. HIDE DEF h
  <2>. QED  BY <1>7, <1>8 DEF FilterStep
<1>10. Filtered(s, gone, n, h)
  BY <1>9 DEF Filtered
<1>. QED  BY <1>3, <1>10

Injective(s) == \A i, j \in DOMAIN s : s[i] = s[j] => i = j
\* k is what is left of the first i places of s.
KeptOf(s, gone, i, k) ==
  /\ Len(k) <= i
  /\ \A e : e \in ToSet(k) <=> e \notin gone /\ \E j \in 1 .. i : s[j] = e
  /\ Injective(s) => Injective(k)

\* A filter removes what it is told to and nothing else.
LEMMA WithoutIs ==
  ASSUME NEW S, NEW s \in Seq(S), NEW gone
  PROVE  /\ Without(s, gone) \in Seq(S)
         /\ ToSet(Without(s, gone)) = ToSet(s) \ gone
         /\ Len(Without(s, gone)) <= Len(s)
         /\ Injective(s) => Injective(Without(s, gone))
<1>1. PICK g : Filtered(s, gone, Len(s), g) /\ Without(s, gone) = g[Len(s)]
  <2>. DEFINE f == CHOOSE f : f = [i \in 0 .. Len(s) |->
                  IF i = 0 THEN <<>> ELSE IF s[i] \in gone THEN f[i - 1] ELSE Append(f[i - 1], s[i])]
  <2>1. Without(s, gone) = f[Len(s)]
    BY Zenon DEF Without
  <2>2. \E h : h = [i \in 0 .. Len(s) |->
                  IF i = 0 THEN <<>> ELSE IF s[i] \in gone THEN h[i - 1] ELSE Append(h[i - 1], s[i])]
    <3>1. PICK h : Filtered(s, gone, Len(s), h)
      BY FilteredExists
    <3>2. h = [i \in 0 .. Len(s) |->
                  IF i = 0 THEN <<>> ELSE IF s[i] \in gone THEN h[i - 1] ELSE Append(h[i - 1], s[i])]
      BY <3>1, Zenon DEF Filtered, FilterStep
    <3>. QED  BY <3>2, Zenon
  <2>3. f = [i \in 0 .. Len(s) |->
                  IF i = 0 THEN <<>> ELSE IF s[i] \in gone THEN f[i - 1] ELSE Append(f[i - 1], s[i])]
    BY <2>2, Zenon
  <2>. HIDE DEF f
  <2>4. Filtered(s, gone, Len(s), f)
    BY <2>3, Zenon DEF Filtered, FilterStep
  <2>. QED  BY <2>1, <2>4
<1>2. /\ g[0] = <<>>
      /\ \A i \in 1 .. Len(s) : g[i] = IF s[i] \in gone THEN g[i - 1] ELSE Append(g[i - 1], s[i])
  <2>1. 0 \in 0 .. Len(s) /\ \A i \in 1 .. Len(s) : i \in 0 .. Len(s) /\ i # 0
    BY LenProperties
  <2>. QED  BY <1>1, <2>1 DEF Filtered, FilterStep
<1>. DEFINE Bad == {n \in 0 .. Len(s) : ~(g[n] \in Seq(S) /\ KeptOf(s, gone, n, g[n]))}
<1>3. Bad = {}
  <2> SUFFICES ASSUME Bad # {} PROVE FALSE
    OBVIOUS
  <2>1. PICK n \in Bad : \A m \in Bad : n <= m
    <3>1. Bad \subseteq Nat
      BY LenProperties
    <3>. QED  BY <3>1, LeastNumber
  <2>2. n \in Nat /\ n <= Len(s) /\ ~(g[n] \in Seq(S) /\ KeptOf(s, gone, n, g[n]))
    BY <2>1, LenProperties
  <2>3. n # 0
    <3>1. ASSUME n = 0 PROVE FALSE
      <4>1. g[n] = <<>> /\ <<>> \in Seq(S)
        BY <1>2, <3>1
      <4>2. KeptOf(s, gone, 0, <<>>)
        BY DEF KeptOf, Injective, ToSet
      <4>. QED  BY <2>2, <3>1, <4>1, <4>2
    <3>. QED  BY <3>1
  <2>4. n \in 1 .. Len(s) /\ n - 1 \in 0 .. Len(s) /\ ~(n <= n - 1)
    BY <2>2, <2>3, LenProperties
  <2>5. g[n - 1] \in Seq(S) /\ KeptOf(s, gone, n - 1, g[n - 1])
    BY <2>1, <2>4
  <2>6. PICK k \in Seq(S) : k = g[n - 1]
    BY <2>5
  <2>7. 1 .. n = (1 .. n - 1) \cup {n} /\ n \notin 1 .. n - 1 /\ 1 .. n - 1 \subseteq DOMAIN s /\ n \in DOMAIN s /\ s[n] \in S
    BY <2>4, LenProperties
  <2>8. CASE s[n] \in gone
    <3>1. g[n] = k
      BY <1>2, <2>4, <2>6, <2>8
    <3>2. KeptOf(s, gone, n, k)
      <4>1. KeptOf(s, gone, n - 1, k)
        BY <2>5, <2>6
      <4>2. Len(k) <= n
        BY <4>1, <2>2, LenProperties DEF KeptOf
      <4>3. \A e : e \in ToSet(k) <=> e \notin gone /\ \E j \in 1 .. n : s[j] = e
        BY <4>1, <2>7, <2>8 DEF KeptOf
      <4>. QED  BY <4>1, <4>2, <4>3 DEF KeptOf
    <3>. QED  BY <2>2, <3>1, <3>2
  <2>9. CASE s[n] \notin gone
    <3>1. g[n] = Append(k, s[n])
      BY <1>2, <2>4, <2>6, <2>9
    <3>2. PICK l : l = Append(k, s[n])
      OBVIOUS
    <3>3. /\ l \in Seq(S) /\ Len(l) = Len(k) + 1 /\ DOMAIN l = DOMAIN k \cup {Len(k) + 1}
          /\ l[Len(k) + 1] = s[n] /\ \A i \in DOMAIN k : l[i] = k[i]
      BY <3>2, <2>7, LenProperties, AppendProperties
    <3>4. KeptOf(s, gone, n - 1, k)
      BY <2>5, <2>6
    <3>5. Len(l) <= n
      BY <3>3, <3>4, <2>2, LenProperties DEF KeptOf
    <3>6. ToSet(l) = ToSet(k) \cup {s[n]}
      BY <3>3 DEF ToSet
    <3>7. \A e : e \in ToSet(l) <=> e \notin gone /\ \E j \in 1 .. n : s[j] = e
      BY <3>4, <3>6, <2>7, <2>9 DEF KeptOf
    <3>8. Injective(s) => Injective(l)
      <4> SUFFICES ASSUME Injective(s), NEW i \in DOMAIN l, NEW j \in DOMAIN l, l[i] = l[j]
                   PROVE  i = j
        BY DEF Injective
      <4>1. s[n] \notin ToSet(k)
        <5>1. \A j0 \in 1 .. n - 1 : s[j0] # s[n]
          BY <2>7 DEF Injective
        <5>. QED  BY <5>1, <3>4 DEF KeptOf
      <4>2. \A h \in DOMAIN k : k[h] # s[n]
        BY <4>1 DEF ToSet
      <4>3. Injective(k)
        BY <3>4 DEF KeptOf
      <4>. QED  BY <3>3, <4>2, <4>3 DEF Injective
    <3>. QED  BY <2>2, <3>1, <3>2, <3>3, <3>5, <3>7, <3>8 DEF KeptOf
  <2>. QED  BY <2>8, <2>9
<1>4. g[Len(s)] \in Seq(S) /\ KeptOf(s, gone, Len(s), g[Len(s)])
  <2>1. Len(s) \in 0 .. Len(s)
    BY LenProperties
  <2>. QED  BY <1>3, <2>1
<1>5. \A e : e \in ToSet(s) <=> \E j \in 1 .. Len(s) : s[j] = e
  BY LenProperties DEF ToSet
<1>6. ToSet(Without(s, gone)) = ToSet(s) \ gone
  BY <1>1, <1>4, <1>5 DEF KeptOf
<1>. QED  BY <1>1, <1>4, <1>6 DEF KeptOf

\* The two modules take their helpers from the same libraries.
LEMMA IngressHelpers ==
  (\A s : Ingress!ToSet(s) = ToSet(s)) /\ (\A s, gone : Ingress!Without(s, gone) = Without(s, gone))
<1>1. \A s : Ingress!ToSet(s) = ToSet(s)
  BY DEF Ingress!ToSet, ToSet
<1>2. \A s, gone : Ingress!Without(s, gone) = Without(s, gone)
  BY DEF Ingress!Without, Without
<1>. QED  BY <1>1, <1>2

LEMMA TranscriptHelpers ==
  /\ \A s : Transcript!ToSet(s) = ToSet(s)
  /\ \A s, gone : Transcript!Without(s, gone) = Without(s, gone)
  /\ \A S : Transcript!Cardinality(S) = Cardinality(S)
<1>1. \A s : Transcript!ToSet(s) = ToSet(s)
  BY DEF Transcript!ToSet, ToSet
<1>2. \A s, gone : Transcript!Without(s, gone) = Without(s, gone)
  BY DEF Transcript!Without, Without
<1>3. \A S : Transcript!Cardinality(S) = Cardinality(S)
  BY DEF Transcript!Cardinality, Cardinality
<1>. QED  BY <1>1, <1>2, <1>3

LEMMA InjectiveIsShort ==
  ASSUME NEW S, NEW s \in Seq(S), Injective(s), NEW T, IsFiniteSet(T), ToSet(s) \subseteq T
  PROVE  Len(s) <= Cardinality(T)
<1>1. DOMAIN s = 1 .. Len(s) /\ Len(s) \in Nat
  BY LenProperties
<1>2. \A i \in 1 .. Len(s) : s[i] \in T
  BY <1>1 DEF ToSet
<1>. DEFINE f == [i \in 1 .. Len(s) |-> s[i]]
<1>3. f \in Injection(1 .. Len(s), T)
  BY <1>1, <1>2 DEF Injection, IsInjective, Injective
<1>4. Cardinality(1 .. Len(s)) = Len(s)
  BY <1>1, FS_Interval
<1>. HIDE DEF f
<1>5. Cardinality(1 .. Len(s)) <= Cardinality(T)
  BY <1>3, FS_Injection
<1>. QED  BY <1>4, <1>5

LEMMA AppendIs ==
  ASSUME NEW S, NEW s \in Seq(S), NEW e \in S, e \notin ToSet(s)
  PROVE  /\ Append(s, e) \in Seq(S) /\ Len(Append(s, e)) = Len(s) + 1
         /\ ToSet(Append(s, e)) = ToSet(s) \cup {e}
         /\ Injective(s) => Injective(Append(s, e))
<1>1. PICK l : l = Append(s, e)
  OBVIOUS
<1>2. /\ l \in Seq(S) /\ Len(l) = Len(s) + 1 /\ DOMAIN l = DOMAIN s \cup {Len(s) + 1}
      /\ l[Len(s) + 1] = e /\ \A i \in DOMAIN s : l[i] = s[i]
  BY <1>1, LenProperties, AppendProperties
<1>3. ToSet(l) = ToSet(s) \cup {e}
  BY <1>2 DEF ToSet
<1>4. \A i \in DOMAIN s : s[i] # e
  BY DEF ToSet
<1>5. Injective(s) => Injective(l)
  BY <1>2, <1>4 DEF Injective
<1>. QED  BY <1>1, <1>2, <1>3, <1>5

LEMMA TailIs ==
  ASSUME NEW S, NEW s \in Seq(S), s # <<>>
  PROVE  /\ Tail(s) \in Seq(S) /\ ToSet(Tail(s)) \subseteq ToSet(s)
         /\ Injective(s) => Injective(Tail(s))
<1>1. PICK l : l = Tail(s)
  OBVIOUS
<1>2. /\ l \in Seq(S) /\ DOMAIN l = 1 .. Len(s) - 1 /\ DOMAIN s = 1 .. Len(s) /\ Len(s) \in Nat
      /\ \A i \in DOMAIN l : l[i] = s[i + 1]
  BY <1>1, LenProperties, HeadTailProperties
<1>3. \A i \in DOMAIN l : i + 1 \in DOMAIN s
  BY <1>2
<1>4. ToSet(l) \subseteq ToSet(s)
  BY <1>2, <1>3 DEF ToSet
<1>5. Injective(s) => Injective(l)
  BY <1>2, <1>3 DEF Injective
<1>. QED  BY <1>1, <1>2, <1>4, <1>5

-----------------------------------------------------------------------------
(***************************************************************************)
(* The events on their way to the relay (BrowserIngress).                  *)
(***************************************************************************)
\* r is s without its place i.
Shorter(s, r, i) ==
  /\ Len(r) = Len(s) - 1
  /\ \A j \in 1 .. Len(r) : r[j] = IF j < i THEN s[j] ELSE s[j + 1]

LEMMA RemoveAtShorter ==
  ASSUME NEW S, NEW s \in Seq(S), NEW i \in 1 .. Len(s)
  PROVE  Ingress!RemoveAt(s, i) \in Seq(S) /\ Shorter(s, Ingress!RemoveAt(s, i), i)
<1> DEFINE a == SubSeq(s, 1, i - 1)
           b == SubSeq(s, i + 1, Len(s))
<1>1. a \in Seq(S) /\ Len(a) = i - 1 /\ \A j \in 1 .. i - 1 : a[j] = s[j]
  BY SubSeqProperties
<1>2. b \in Seq(S) /\ Len(b) = Len(s) - i /\ \A j \in 1 .. Len(s) - i : b[j] = s[i + j]
  BY SubSeqProperties
<1> HIDE DEF a, b
<1>3. /\ a \o b \in Seq(S) /\ Len(a \o b) = Len(s) - 1
      /\ \A j \in 1 .. Len(s) - 1 : (a \o b)[j] = IF j <= i - 1 THEN a[j] ELSE b[j - (i - 1)]
  <2>1. /\ a \o b \in Seq(S) /\ Len(a \o b) = Len(a) + Len(b)
        /\ \A j \in 1 .. Len(a) + Len(b) :
             (a \o b)[j] = IF j <= Len(a) THEN a[j] ELSE b[j - Len(a)]
    BY <1>1, <1>2, ConcatProperties
  <2>2. Len(a) = i - 1 /\ Len(a) + Len(b) = Len(s) - 1
    BY <1>1, <1>2
  <2> QED BY <2>1, <2>2
<1>4. \A j \in 1 .. Len(s) - 1 : (a \o b)[j] = IF j < i THEN s[j] ELSE s[j + 1]
  <2> SUFFICES ASSUME NEW j \in 1 .. Len(s) - 1
               PROVE  (a \o b)[j] = IF j < i THEN s[j] ELSE s[j + 1]
    OBVIOUS
  <2>1. CASE j < i
    <3>1. j <= i - 1 /\ j \in 1 .. i - 1
      BY <2>1
    <3> QED BY <2>1, <3>1, <1>1, <1>3
  <2>2. CASE j >= i
    <3>1. j - (i - 1) \in 1 .. Len(s) - i /\ i + (j - (i - 1)) = j + 1
      BY <2>2
    <3>2. b[j - (i - 1)] = s[j + 1]
      BY <3>1, <1>2
    <3>3. ~(j <= i - 1) /\ ~(j < i)
      BY <2>2
    <3> QED BY <3>2, <3>3, <1>3
  <2>3. j < i \/ j >= i
    OBVIOUS
  <2> HIDE DEF a, b
  <2> QED BY <2>1, <2>2, <2>3, Zenon
<1>5. Ingress!RemoveAt(s, i) = a \o b
  BY DEF Ingress!RemoveAt, a, b
<1> QED BY <1>3, <1>4, <1>5 DEF Shorter

LEMMA TailShorter ==
  ASSUME NEW S, NEW s \in Seq(S), s # <<>>
  PROVE  Tail(s) \in Seq(S) /\ Shorter(s, Tail(s), 1) /\ Head(s) = s[1] /\ 1 \in 1 .. Len(s)
BY DEF Shorter

Kinds == {"none", "connected", "gone", "ready", "stopped", "audio", "sample", "speech", "alert", "cleared"}
Events == {e \in [kind : Kinds, side : Ingress!Side, at : Nat, last : BOOLEAN] : e.kind = "connected" => ~e.last}
Port == [queue : Seq(Events), closed : BOOLEAN, socket : [Ingress!Side -> Nat], used : [Ingress!Side -> Nat],
         ready : [Ingress!Side -> BOOLEAN], anchors : [Ingress!Side -> Events], pending : Seq(Events),
         flush : Seq(Ingress!Side), todo : Seq(Ingress!Side), reader : {"idle", "waiting", "handling", "done"},
         hand : Events, value : Events, ok : BOOLEAN]
Beliefs == [connected : [Ingress!Side -> BOOLEAN], at : [Ingress!Side -> Nat], since : [Ingress!Side -> Nat],
            ready : [Ingress!Side -> BOOLEAN]]

\* The events about the last socket of a side.
Gone(m, s) == Ingress!Ended("gone", s, m.used[s])
Joined(m, s) == Ingress!Event("connected", s, m.used[s])
Held(m) == IF m.reader = "handling" THEN {m.hand} ELSE {}
Way(m) == ToSet(m.queue) \cup ToSet(m.pending) \cup Held(m)

\* y comes behind x.
Behind(q, x, y) == \E i, j \in DOMAIN q : i < j /\ q[i] = x /\ q[j] = y

\* Nothing that connects comes behind the news that the same socket is gone.
InOrder(m, s) ==
  /\ Gone(m, s) \in Held(m) \cup ToSet(m.pending) => Joined(m, s) \notin ToSet(m.queue)
  /\ ~Behind(m.queue, Gone(m, s), Joined(m, s))

PortInv(m) ==
  /\ m \in Port
  /\ \A s \in Ingress!Side : m.socket[s] \in {0, m.used[s]}
  /\ \A e \in Way(m) : 1 <= e.at /\ e.at <= m.used[e.side]
  /\ \A e \in ToSet(m.pending) : Ingress!Terminal(e)
  /\ m.reader = "waiting" => m.queue = <<>>
  /\ \A s \in Ingress!Side : InOrder(m, s)

\* The end of the last socket was told, or will be.
EndTold(m, r, s) ==
  m.socket[s] = 0 /\ m.used[s] > 0 =>
    \/ Gone(m, s) \in Way(m)
    \/ ~r.connected[s] /\ r.at[s] = m.used[s] /\ Joined(m, s) \notin Way(m)

RelayInv(m, r) ==
  /\ r \in Beliefs
  /\ \A s \in Ingress!Side :
       /\ r.at[s] <= m.used[s] /\ r.since[s] <= r.at[s]
       /\ r.ready[s] => r.connected[s]
       /\ r.connected[s] => r.at[s] > 0

\* Of every side whose last socket is closed the relay knows it or will.
IngressInv ==
  /\ PortInv(port) /\ RelayInv(port, believed)
  /\ port.closed => \A s \in Ingress!Side : port.socket[s] = 0
  /\ \A s \in Ingress!Side : EndTold(port, believed, s)

-----------------------------------------------------------------------------
\* e joins the queue, and something that it may evict leaves it.
Put(q, r, e) ==
  /\ r \in Seq(Events) /\ ToSet(r) \subseteq ToSet(q) \cup {e} /\ e \in ToSet(r)
  /\ \A c \in ToSet(q) : ~Ingress!Evictable(e, c) => c \in ToSet(r)
  /\ \A x, y : y # e /\ Behind(r, x, y) => Behind(q, x, y)

LEMMA AppendPuts ==
  ASSUME NEW q \in Seq(Events), NEW e \in Events
  PROVE  Put(q, Append(q, e), e)
<1>1. PICK r : r = Append(q, e)
  OBVIOUS
<1>2. /\ r \in Seq(Events) /\ Len(r) = Len(q) + 1 /\ DOMAIN r = DOMAIN q \cup {Len(q) + 1}
      /\ r[Len(q) + 1] = e /\ \A i \in DOMAIN q : r[i] = q[i]
      /\ DOMAIN q = 1 .. Len(q) /\ Len(q) \in Nat
  BY <1>1, LenProperties, AppendProperties
<1>3. ToSet(r) = ToSet(q) \cup {e}
  BY <1>2 DEF ToSet
<1>4. ASSUME NEW x, NEW y, y # e, Behind(r, x, y) PROVE Behind(q, x, y)
  <2>1. PICK i \in DOMAIN r, j \in DOMAIN r : i < j /\ r[i] = x /\ r[j] = y
    BY <1>4 DEF Behind
  <2>2. j \in DOMAIN q
    BY <2>1, <1>2, <1>4
  <2>3. i \in DOMAIN q
    BY <2>1, <2>2, <1>2
  <2>. QED  BY <2>1, <2>2, <2>3, <1>2 DEF Behind
<1>. QED  BY <1>1, <1>2, <1>3, <1>4 DEF Put

LEMMA RemovePuts ==
  ASSUME NEW q \in Seq(Events), NEW e \in Events, NEW v \in DOMAIN q, Ingress!Evictable(e, q[v])
  PROVE  Put(q, Append(Ingress!RemoveAt(q, v), e), e)
<1>1. PICK r : r = Ingress!RemoveAt(q, v)
  OBVIOUS
<1>2. DOMAIN q = 1 .. Len(q) /\ Len(q) \in Nat
  BY LenProperties
<1>3. /\ r \in Seq(Events) /\ DOMAIN r = 1 .. Len(q) - 1
      /\ \A i \in DOMAIN r : r[i] = IF i < v THEN q[i] ELSE q[i + 1]
  <2>1. v \in 1 .. Len(q)
    BY <1>2
  <2>2. r \in Seq(Events) /\ Shorter(q, r, v)
    BY <1>1, <2>1, RemoveAtShorter
  <2>3. DOMAIN r = 1 .. Len(r)
    BY <2>2, LenProperties
  <2>. QED  BY <2>2, <2>3 DEF Shorter
<1>4. ToSet(r) \subseteq ToSet(q)
  BY <1>2, <1>3 DEF ToSet
<1>5. \A i \in DOMAIN q : i # v => q[i] \in ToSet(r)
  <2> SUFFICES ASSUME NEW i \in DOMAIN q, i # v PROVE q[i] \in ToSet(r)
    OBVIOUS
  <2>1. CASE i < v
    <3>1. i \in DOMAIN r /\ r[i] = q[i]
      BY <2>1, <1>2, <1>3
    <3>. QED  BY <3>1 DEF ToSet
  <2>2. CASE i > v
    <3>1. i - 1 \in DOMAIN r /\ ~(i - 1 < v) /\ (i - 1) + 1 = i
      BY <2>2, <1>2, <1>3
    <3>2. r[i - 1] = q[i]
      BY <3>1, <1>3
    <3>. QED  BY <3>1, <3>2 DEF ToSet
  <2>. QED  BY <1>2, <2>1, <2>2
<1>6. \A c \in ToSet(q) : ~Ingress!Evictable(e, c) => c \in ToSet(r)
  BY <1>5 DEF ToSet
<1>7. ASSUME NEW x, NEW y, Behind(r, x, y) PROVE Behind(q, x, y)
  <2>1. PICK i \in DOMAIN r, j \in DOMAIN r : i < j /\ r[i] = x /\ r[j] = y
    BY <1>7 DEF Behind
  <2>2. PICK a \in DOMAIN q, b \in DOMAIN q :
          a = (IF i < v THEN i ELSE i + 1) /\ b = (IF j < v THEN j ELSE j + 1)
    BY <2>1, <1>2, <1>3
  <2>3. a < b /\ q[a] = x /\ q[b] = y
    BY <2>1, <2>2, <1>2, <1>3
  <2>. QED  BY <2>3 DEF Behind
<1>8. PICK l : l = Append(r, e)
  OBVIOUS
<1>9. Put(r, l, e)
  BY <1>3, <1>8, AppendPuts
<1>10. Put(q, l, e)
  BY <1>4, <1>6, <1>7, <1>9 DEF Put
<1>. QED  BY <1>1, <1>8, <1>10

\* What an offer leaves alone.
Beyond(m, o) ==
  /\ o.closed = m.closed /\ o.socket = m.socket /\ o.used = m.used
Apart(m, o) ==
  /\ Beyond(m, o) /\ o.ready = m.ready
  /\ o.anchors = m.anchors /\ o.pending = m.pending /\ o.flush = m.flush /\ o.todo = m.todo

Refused(m, o, e) ==
  /\ ~o.ok /\ o.queue = m.queue /\ o.reader = m.reader /\ o.hand = m.hand
  /\ e.kind # "audio" /\ ~m.closed => \A c \in ToSet(m.queue) : ~Ingress!Evictable(e, c)
Handed(m, o, e) ==
  o.ok /\ m.reader = "waiting" /\ o.reader = "handling" /\ o.hand = e /\ o.queue = m.queue
Queued(m, o, e) ==
  o.ok /\ m.reader # "waiting" /\ o.reader = m.reader /\ o.hand = m.hand /\ Put(m.queue, o.queue, e)

LEMMA OfferIs ==
  ASSUME NEW m \in Port, NEW e \in Events
  PROVE  /\ Ingress!Offer(m, e) \in Port /\ Apart(m, Ingress!Offer(m, e))
         /\ Refused(m, Ingress!Offer(m, e), e) \/ Handed(m, Ingress!Offer(m, e), e) \/ Queued(m, Ingress!Offer(m, e), e)
<1>. DEFINE victims == {i \in DOMAIN m.queue : Ingress!Evictable(e, m.queue[i])}
            victim == CHOOSE i \in victims : \A j \in victims : i <= j
            put(q) == [m EXCEPT !.queue = Append(q, e), !.ok = TRUE]
            no == [m EXCEPT !.ok = FALSE]
<1>0. Ingress!Offer(m, e) =
        CASE m.closed -> no
          [] ~m.closed /\ m.reader = "waiting" ->
                 [m EXCEPT !.reader = "handling", !.hand = e, !.value = e, !.ok = TRUE]
          [] ~m.closed /\ m.reader # "waiting" /\ Len(m.queue) < EventCapacity -> put(m.queue)
          [] OTHER -> IF e.kind # "audio" /\ victims # {} THEN put(Ingress!RemoveAt(m.queue, victim)) ELSE no
  BY Zenon DEF Ingress!Offer
<1>1. PICK q \in Seq(Events) : q = m.queue
  BY DEF Port
<1>2. DOMAIN q = 1 .. Len(q) /\ Len(q) \in Nat
  BY LenProperties
<1>3. /\ m.closed \in BOOLEAN
      /\ m.reader \in {"idle", "waiting", "handling", "done"}
  BY DEF Port
<1>4. PICK o : o = Ingress!Offer(m, e)
  OBVIOUS
<1>5. CASE o = no /\ (e.kind # "audio" /\ ~m.closed => victims = {})
  <2>1. o \in Port /\ Apart(m, o) /\ ~o.ok /\ o.queue = m.queue /\ o.reader = m.reader /\ o.hand = m.hand
    BY <1>5 DEF Port, Apart, Beyond
  <2>2. e.kind # "audio" /\ ~m.closed => \A c \in ToSet(m.queue) : ~Ingress!Evictable(e, c)
    BY <1>5 DEF ToSet
  <2>. QED  BY <1>4, <2>1, <2>2 DEF Refused
<1>6. CASE ~m.closed /\ m.reader = "waiting"
  <2>1. o = [m EXCEPT !.reader = "handling", !.hand = e, !.value = e, !.ok = TRUE]
    BY <1>0, <1>4, <1>6
  <2>2. o \in Port /\ Apart(m, o) /\ o.ok /\ o.reader = "handling" /\ o.hand = e /\ o.queue = m.queue
    BY <2>1 DEF Port, Apart, Beyond
  <2>. QED  BY <1>4, <1>6, <2>2 DEF Handed
<1>7. ASSUME NEW r, o = [m EXCEPT !.queue = r, !.ok = TRUE], Put(m.queue, r, e), m.reader # "waiting"
      PROVE  o \in Port /\ Apart(m, o) /\ Queued(m, o, e)
  <2>1. r \in Seq(Events)
    BY <1>7 DEF Put
  <2>2. o \in Port /\ Apart(m, o) /\ o.ok /\ o.reader = m.reader /\ o.hand = m.hand /\ o.queue = r
    BY <2>1, <1>7 DEF Port, Apart, Beyond
  <2>. QED  BY <1>7, <2>2 DEF Queued
<1>8. CASE ~m.closed /\ m.reader # "waiting" /\ o = put(m.queue)
  <2>1. Put(m.queue, Append(m.queue, e), e)
    BY <1>1, AppendPuts
  <2>. QED  BY <1>4, <1>7, <1>8, <2>1
<1>9. CASE ~m.closed /\ m.reader # "waiting" /\ victims # {} /\ o = put(Ingress!RemoveAt(m.queue, victim))
  <2>1. PICK n \in victims : \A j \in victims : n <= j
    <3>1. victims \subseteq Nat /\ victims # {}
      BY <1>1, <1>2, <1>9
    <3>. HIDE DEF victims
    <3>. QED  BY <3>1, LeastNumber
  <2>2. victim \in victims
    <3>. HIDE DEF victims
    <3>. QED  BY <2>1
  <2>3. PICK v \in DOMAIN q : v = victim /\ Ingress!Evictable(e, q[v])
    BY <1>1, <2>2
  <2>4. Put(m.queue, Append(Ingress!RemoveAt(m.queue, v), e), e)
    BY <1>1, <2>3, RemovePuts
  <2>5. o = [m EXCEPT !.queue = Append(Ingress!RemoveAt(m.queue, v), e), !.ok = TRUE]
    BY <1>9, <2>3
  <2>. QED  BY <1>4, <1>7, <1>9, <2>4, <2>5
<1>. QED
  <2>1. CASE m.closed
    <3>1. o = no
      BY <1>0, <1>4, <2>1
    <3>. HIDE DEF no, victims
    <3>. QED  BY <1>5, <2>1, <3>1
  <2>2. CASE ~m.closed /\ m.reader # "waiting" /\ Len(m.queue) < EventCapacity
    <3>1. o = put(m.queue)
      BY <1>0, <1>4, <2>2
    <3>. QED  BY <1>8, <2>2, <3>1
  <2>3. CASE ~m.closed /\ m.reader # "waiting" /\ ~(Len(m.queue) < EventCapacity)
    <3>1. o = IF e.kind # "audio" /\ victims # {} THEN put(Ingress!RemoveAt(m.queue, victim)) ELSE no
      BY <1>0, <1>4, <2>3
    <3>. HIDE DEF no, put, victim, victims
    <3>. QED  BY <1>5, <1>9, <2>3, <3>1
  <2>. QED  BY <1>6, <2>1, <2>2, <2>3

-----------------------------------------------------------------------------
\* No news of the end of this side is lost, and none of its beginning is new.
Carried(m, o, t) ==
  /\ o.used[t] = m.used[t]
  /\ Gone(m, t) \in Way(m) => Gone(m, t) \in Way(o)
  /\ Joined(m, t) \in Way(o) => Joined(m, t) \in Way(m)

LEMMA NamesAre ==
  ASSUME NEW m \in Port, NEW s \in Ingress!Side
  PROVE  /\ Gone(m, s) \in Events /\ Gone(m, s).kind = "gone" /\ Gone(m, s).side = s
         /\ Gone(m, s).at = m.used[s] /\ Ingress!Terminal(Gone(m, s))
         /\ Joined(m, s) \in Events /\ Joined(m, s).kind = "connected" /\ Joined(m, s).side = s
         /\ Joined(m, s).at = m.used[s] /\ ~Ingress!Terminal(Joined(m, s))
         /\ \A e : ~Ingress!Evictable(e, Gone(m, s))
BY DEF Gone, Joined, Ingress!Ended, Ingress!Event, Events, Kinds, Port, Ingress!Terminal, Ingress!Evictable

LEMMA SameNames ==
  ASSUME NEW m, NEW o, NEW s, o.used[s] = m.used[s]
  PROVE  Gone(o, s) = Gone(m, s) /\ Joined(o, s) = Joined(m, s)
BY DEF Gone, Joined

LEMMA WayIs ==
  ASSUME NEW m, NEW e
  PROVE  e \in Way(m) <=> e \in ToSet(m.queue) \/ e \in ToSet(m.pending) \/ (m.reader = "handling" /\ e = m.hand)
BY DEF Way, Held

LEMMA OfferKeeps ==
  ASSUME NEW m, PortInv(m), NEW e \in Events, 1 <= e.at, e.at <= m.used[e.side],
         \A s \in Ingress!Side : e = Joined(m, s) => Gone(m, s) \notin Way(m),
         NEW o, o = Ingress!Offer(m, e)
  PROVE  /\ PortInv(o) /\ Apart(m, o)
         /\ \A t \in Ingress!Side : e # Joined(m, t) => Carried(m, o, t)
         /\ o.ok => e \in Way(o)
         /\ ~o.ok /\ Ingress!Terminal(e) /\ ~m.closed => \A c \in ToSet(o.queue) : Ingress!Terminal(c)
<1>1. /\ m \in Port /\ o \in Port /\ Apart(m, o)
      /\ Refused(m, o, e) \/ Handed(m, o, e) \/ Queued(m, o, e)
  BY OfferIs DEF PortInv
<1>2. /\ o.closed = m.closed /\ o.socket = m.socket /\ o.used = m.used /\ o.pending = m.pending
  BY <1>1 DEF Apart, Beyond
<1>3. \A s \in Ingress!Side : Gone(o, s) = Gone(m, s) /\ Joined(o, s) = Joined(m, s)
  BY <1>2, SameNames
<1>4. Way(o) \subseteq Way(m) \cup {e}
  BY <1>1, <1>2, WayIs DEF Refused, Handed, Queued, Put
<1>5. \A t \in Ingress!Side : Gone(m, t) \in Way(m) => Gone(m, t) \in Way(o)
  <2> SUFFICES ASSUME NEW t \in Ingress!Side, Gone(m, t) \in Way(m) PROVE Gone(m, t) \in Way(o)
    OBVIOUS
  <2>1. ~Ingress!Evictable(e, Gone(m, t))
    BY <1>1, NamesAre
  <2>. QED  BY <2>1, <1>1, <1>2, WayIs DEF Refused, Handed, Queued, Put
<1>6. \A t \in Ingress!Side : e # Joined(m, t) => Carried(m, o, t)
  BY <1>2, <1>4, <1>5 DEF Carried
<1>7. o.ok => e \in Way(o)
  BY <1>1, WayIs DEF Refused, Handed, Queued, Put
<1>8. ASSUME ~o.ok, Ingress!Terminal(e), ~m.closed, NEW c \in ToSet(o.queue) PROVE Ingress!Terminal(c)
  <2>1. Refused(m, o, e)
    BY <1>1, <1>8 DEF Handed, Queued
  <2>2. ~Ingress!Evictable(e, c) /\ e.kind # "audio"
    BY <2>1, <1>8 DEF Refused, Ingress!Terminal
  <2>. QED  BY <2>2, <1>8 DEF Ingress!Evictable
<1>9. ASSUME NEW s \in Ingress!Side PROVE InOrder(o, s)
  <2>1. InOrder(m, s)
    BY DEF PortInv
  <2>2. Gone(m, s) # Joined(m, s)
    BY <1>1, NamesAre
  <2>3. CASE Refused(m, o, e)
    BY <2>1, <2>3, <1>2, <1>3 DEF Refused, InOrder, Held
  <2>4. CASE Handed(m, o, e)
    <3>1. m.queue = <<>> /\ o.queue = <<>>
      BY <2>4 DEF PortInv, Handed
    <3>. QED  BY <3>1 DEF InOrder, Behind, ToSet
  <2>5. CASE Queued(m, o, e)
    <3>1. CASE e = Joined(m, s)
      <4>1. Gone(m, s) \notin Way(o)
        BY <3>1, <2>2, <1>4
      <4>2. \A i \in DOMAIN o.queue : o.queue[i] # Gone(m, s)
        BY <4>1, WayIs DEF ToSet
      <4>. QED  BY <4>1, <4>2, <1>3 DEF InOrder, Behind, Way
    <3>2. CASE e # Joined(m, s)
      <4>1. ~Behind(o.queue, Gone(m, s), Joined(m, s))
        BY <3>2, <2>1, <2>5 DEF Queued, Put, InOrder
      <4>2. Held(o) = Held(m) /\ (Joined(m, s) \in ToSet(o.queue) => Joined(m, s) \in ToSet(m.queue))
        BY <3>2, <2>5 DEF Queued, Put, Held
      <4>. QED  BY <4>1, <4>2, <2>1, <1>2, <1>3 DEF InOrder
    <3>. QED  BY <3>1, <3>2
  <2>. QED  BY <1>1, <2>3, <2>4, <2>5
<1>10. PortInv(o)
  <2>1. \A c \in Way(o) : 1 <= c.at /\ c.at <= o.used[c.side]
    BY <1>2, <1>4 DEF PortInv
  <2>2. o.reader = "waiting" => o.queue = <<>>
    BY <1>1 DEF PortInv, Refused, Handed, Queued
  <2>. QED  BY <1>1, <1>2, <1>9, <2>1, <2>2 DEF PortInv
<1>. QED  BY <1>1, <1>6, <1>7, <1>8, <1>10

\* e waits beside the queue, in place of the one of its side and kind or behind the others.
PutBeside(m, o, e) ==
  /\ o \in Port /\ Beyond(m, o) /\ o.ready = m.ready
  /\ o.queue = m.queue /\ o.reader = m.reader /\ o.hand = m.hand
  /\ e \in ToSet(o.pending) /\ \A c \in ToSet(o.pending) : c = e \/ c \in ToSet(m.pending)
  /\ \A c \in ToSet(m.pending) : c.side # e.side => c \in ToSet(o.pending)

LEMMA BesideIs ==
  ASSUME NEW m \in Port, NEW e \in Events, NEW accepted \in Events, NEW o, o = Ingress!Beside(m, e, accepted)
  PROVE  PutBeside(m, o, e)
<1>. DEFINE same == {i \in DOMAIN m.pending : m.pending[i].side = e.side /\ m.pending[i].kind = e.kind}
<1>1. PICK p \in Seq(Events) : p = m.pending
  BY DEF Port
<1>2. DOMAIN p = 1 .. Len(p) /\ Len(p) \in Nat
  BY LenProperties
<1>3. PICK q : q = IF same = {} THEN Append(p, e) ELSE [i \in DOMAIN p |-> IF i \in same THEN e ELSE p[i]]
  OBVIOUS
<1>4. PICK a : a = [m.anchors EXCEPT ![e.side] = IF @ = Ingress!NoEvent THEN accepted ELSE @]
  OBVIOUS
<1>5. e.side \in Ingress!Side /\ m.anchors \in [Ingress!Side -> Events]
  BY DEF Events, Port
<1>6. a \in [Ingress!Side -> Events]
  BY <1>4, <1>5
<1>7. /\ q \in Seq(Events) /\ ToSet(q) \subseteq ToSet(p) \cup {e} /\ e \in ToSet(q)
      /\ \A c \in ToSet(p) : c.side # e.side => c \in ToSet(q)
  <2>1. CASE same = {}
    <3>1. q = Append(p, e)
      BY <1>3, <2>1
    <3>2. /\ q \in Seq(Events) /\ DOMAIN q = DOMAIN p \cup {Len(p) + 1}
          /\ q[Len(p) + 1] = e /\ \A i \in DOMAIN p : q[i] = p[i]
      BY <3>1, <1>2, LenProperties, AppendProperties
    <3>. QED  BY <3>2 DEF ToSet
  <2>2. CASE same # {}
    <3>1. q = [i \in DOMAIN p |-> IF i \in same THEN e ELSE p[i]]
      BY <1>3, <2>2
    <3>2. same \subseteq DOMAIN p /\ \A i \in same : p[i].side = e.side
      BY <1>1
    <3>. HIDE DEF same
    <3>3. DOMAIN q = DOMAIN p /\ \A i \in DOMAIN p : q[i] = IF i \in same THEN e ELSE p[i]
      BY <3>1
    <3>4. q \in Seq(Events)
      <4>1. \A i \in 1 .. Len(p) : p[i] \in Events
        BY <1>2
      <4>2. q \in [1 .. Len(p) -> Events]
        BY <3>1, <4>1, <1>2
      <4>. QED  BY <4>2, <1>2, SeqDef
    <3>5. ToSet(q) \subseteq ToSet(p) \cup {e} /\ e \in ToSet(q)
      BY <2>2, <3>2, <3>3 DEF ToSet
    <3>6. \A c \in ToSet(p) : c.side # e.side => c \in ToSet(q)
      BY <3>2, <3>3 DEF ToSet
    <3>. QED  BY <3>4, <3>5, <3>6
  <2>. QED  BY <2>1, <2>2
<1>8. o = [m EXCEPT !.pending = q, !.anchors = a]
  <2>1. o = [m EXCEPT !.pending = IF same = {} THEN Append(@, e)
                              ELSE [i \in DOMAIN @ |-> IF i \in same THEN e ELSE @[i]],
                      !.anchors[e.side] = IF @ = Ingress!NoEvent THEN accepted ELSE @]
    BY Zenon DEF Ingress!Beside
  <2>. HIDE DEF same
  <2>. QED  BY <2>1, <1>1, <1>3, <1>4
<1>9. /\ o \in Port /\ Beyond(m, o) /\ o.ready = m.ready /\ o.pending = q
      /\ o.queue = m.queue /\ o.reader = m.reader /\ o.hand = m.hand
  BY <1>6, <1>7, <1>8 DEF Port, Beyond
<1>. QED  BY <1>1, <1>7, <1>9 DEF PutBeside

LEMMA OfferTerminalKeeps ==
  ASSUME NEW m, PortInv(m), NEW e \in Events, 1 <= e.at, e.at <= m.used[e.side], Ingress!Terminal(e),
         ~m.closed, NEW accepted \in Events, NEW o, o = Ingress!OfferTerminal(m, e, accepted)
  PROVE  /\ PortInv(o) /\ Beyond(m, o) /\ o.ready = m.ready /\ e \in Way(o)
         /\ \A t \in Ingress!Side : t # e.side => Carried(m, o, t)
<1>1. PICK p : p = Ingress!Offer(m, e)
  OBVIOUS
<1>2. m \in Port /\ \A s \in Ingress!Side : e # Joined(m, s)
  BY NamesAre DEF PortInv
<1>3. /\ PortInv(p) /\ Apart(m, p) /\ \A t \in Ingress!Side : Carried(m, p, t)
      /\ p.ok => e \in Way(p)
      /\ ~p.ok => \A c \in ToSet(p.queue) : Ingress!Terminal(c)
  BY <1>1, <1>2, OfferKeeps
<1>4. CASE p.ok
  <2>1. o = p
    BY <1>1, <1>4 DEF Ingress!OfferTerminal
  <2>. QED  BY <2>1, <1>3, <1>4 DEF Apart
<1>5. CASE ~p.ok
  <2>1. o = Ingress!Beside(p, e, accepted)
    BY <1>1, <1>5 DEF Ingress!OfferTerminal
  <2>2. p \in Port
    BY <1>3 DEF PortInv
  <2>3. /\ o \in Port /\ Beyond(p, o) /\ o.ready = p.ready
        /\ o.queue = p.queue /\ o.reader = p.reader /\ o.hand = p.hand
        /\ e \in ToSet(o.pending) /\ \A c \in ToSet(o.pending) : c = e \/ c \in ToSet(p.pending)
        /\ \A c \in ToSet(p.pending) : c.side # e.side => c \in ToSet(o.pending)
    <3>1. PutBeside(p, o, e)
      BY <2>1, <2>2, BesideIs
    <3>. QED  BY <3>1 DEF PutBeside
  <2>4. /\ p.used = m.used /\ o.used = m.used /\ o.socket = p.socket /\ Beyond(m, o) /\ o.ready = m.ready
    BY <2>3, <1>3 DEF Apart, Beyond
  <2>5. \A s \in Ingress!Side :
            /\ Gone(o, s) = Gone(p, s) /\ Joined(o, s) = Joined(p, s)
            /\ Gone(m, s) = Gone(p, s) /\ Joined(m, s) = Joined(p, s)
    BY <2>4, SameNames
  <2>6. Way(o) \subseteq Way(p) \cup {e} /\ e \in Way(o)
    BY <2>3 DEF Way, Held
  <2>7. \A s \in Ingress!Side : Joined(o, s) \notin ToSet(o.queue)
    BY <2>3, <1>3, <1>5, NamesAre
  <2>8. \A s \in Ingress!Side : InOrder(o, s)
    BY <2>7 DEF InOrder, Behind, ToSet
  <2>9. PortInv(o)
    <3>1. \A c \in Way(o) : 1 <= c.at /\ c.at <= o.used[c.side]
      BY <2>4, <2>6, <1>3 DEF PortInv
    <3>2. \A c \in ToSet(o.pending) : Ingress!Terminal(c)
      BY <2>3, <1>3 DEF PortInv
    <3>3. o.reader = "waiting" => o.queue = <<>>
      BY <2>3, <1>3 DEF PortInv
    <3>. QED  BY <2>3, <2>4, <2>8, <3>1, <3>2, <3>3, <1>3 DEF PortInv
  <2>10. ASSUME NEW t \in Ingress!Side, t # e.side PROVE Carried(m, o, t)
    <3>1. Carried(m, p, t)
      BY <1>3
    <3>2. Gone(p, t).side # e.side /\ Joined(p, t).side # e.side
      BY <2>2, <2>10, NamesAre
    <3>3. Gone(p, t) \in Way(p) => Gone(p, t) \in Way(o)
      BY <3>2, <2>3, WayIs
    <3>4. Joined(p, t) \in Way(o) => Joined(p, t) \in Way(p)
      BY <3>2, <2>6
    <3>. QED  BY <3>1, <3>3, <3>4, <2>4, <2>5 DEF Carried
  <2>. QED  BY <2>4, <2>6, <2>9, <2>10
<1>. QED  BY <1>4, <1>5

LEMMA CarriedOn ==
  ASSUME NEW m, NEW p, NEW o, NEW t, Carried(m, p, t), Carried(p, o, t)
  PROVE  Carried(m, o, t)
<1>1. Gone(p, t) = Gone(m, t) /\ Joined(p, t) = Joined(m, t)
  BY SameNames DEF Carried
<1>. QED  BY <1>1 DEF Carried

\* The port as it is when the socket of a side closes.
Closes(m, o, s) ==
  /\ PortInv(o) /\ o.used = m.used /\ o.closed = m.closed
  /\ o.socket = [m.socket EXCEPT ![s] = 0]
  /\ Gone(o, s) \in Way(o)
  /\ \A t \in Ingress!Side : t # s => Carried(m, o, t)

LEMMA DetachedCloses ==
  ASSUME NEW m, PortInv(m), NEW s \in Ingress!Side, m.socket[s] # 0, ~m.closed, NEW o, o = Ingress!Detached(m, s)
  PROVE  Closes(m, o, s)
<1>1. m \in Port /\ m.socket[s] = m.used[s] /\ m.used[s] \in Nat /\ m.used[s] >= 1
  BY DEF PortInv, Port
<1>. DEFINE at == m.socket[s]
<1>b. PICK m0 : m0 = IF Ingress!Contains(m.flush, s)
              THEN [m EXCEPT !.pending = Ingress!Without(@, {e \in Ingress!ToSet(@) : e.side = s}),
                             !.flush = Ingress!Without(@, {s})]
              ELSE m
  OBVIOUS
<1>2. m0 = IF Ingress!Contains(m.flush, s)
              THEN [m EXCEPT !.pending = Without(@, {e \in ToSet(@) : e.side = s}),
                             !.flush = Without(@, {s})]
              ELSE m
  BY <1>b, IngressHelpers
<1>3. PICK stop : stop = IF m.ready[s] THEN Ingress!OfferTerminal(m0, Ingress!Ended("stopped", s, at), Ingress!NoEvent) ELSE m0
  OBVIOUS
<1>4. PICK news : news = IF m.ready[s] /\ ~Ingress!Contains(stop.pending, Ingress!Ended("stopped", s, at))
                THEN Ingress!Ended("stopped", s, at) ELSE Ingress!NoEvent
  OBVIOUS
<1>5. PICK gone : gone = Ingress!OfferTerminal(stop, Ingress!Ended("gone", s, at), news)
  OBVIOUS
<1>6. o = [gone EXCEPT !.socket[s] = 0, !.ready[s] = FALSE]
  BY <1>b, <1>3, <1>4, <1>5, Zenon DEF Ingress!Detached
<1>7. /\ Ingress!NoEvent \in Events /\ \A k \in {"stopped", "gone"} :
           /\ Ingress!Ended(k, s, at) \in Events /\ Ingress!Terminal(Ingress!Ended(k, s, at))
           /\ Ingress!Ended(k, s, at).side = s /\ Ingress!Ended(k, s, at).at = at
  <2>1. Ingress!NoEvent \in Events
    BY DEF Ingress!NoEvent, Events, Kinds, Ingress!Side
  <2>2. at \in Nat
    BY <1>1
  <2>3. ASSUME NEW k \in {"stopped", "gone"}
        PROVE  /\ Ingress!Ended(k, s, at) \in Events /\ Ingress!Terminal(Ingress!Ended(k, s, at))
               /\ Ingress!Ended(k, s, at).side = s /\ Ingress!Ended(k, s, at).at = at
    BY <2>2 DEF Ingress!Ended, Ingress!Event, Events, Kinds, Ingress!Terminal
  <2>. QED  BY <2>1, <2>3
<1>8. news \in Events
  BY <1>4, <1>7
<1>9. PortInv(m0) /\ Beyond(m, m0) /\ \A t \in Ingress!Side : t # s => Carried(m, m0, t)
  <2>1. CASE m0 = m
    BY <2>1 DEF Beyond, Carried
  <2>2. CASE m0 # m
    <3>. DEFINE p == Without(m.pending, {e \in ToSet(m.pending) : e.side = s})
                f == Without(m.flush, {s})
    <3>1. m0 = [m EXCEPT !.pending = p, !.flush = f]
      BY <1>2, <2>2
    <3>2. /\ p \in Seq(Events) /\ f \in Seq(Ingress!Side)
          /\ ToSet(p) = ToSet(m.pending) \ {e \in ToSet(m.pending) : e.side = s}
      BY <1>1, WithoutIs DEF Port
    <3>3. /\ m0 \in Port /\ Beyond(m, m0) /\ m0.pending = p /\ m0.queue = m.queue
          /\ m0.reader = m.reader /\ m0.hand = m.hand
      <4>. HIDE DEF p, f
      <4>. QED  BY <1>1, <3>1, <3>2 DEF Port, Beyond
    <3>. HIDE DEF p, f
    <3>4. Way(m0) \subseteq Way(m) /\ Held(m0) = Held(m)
      BY <3>2, <3>3 DEF Way, Held
    <3>5. \A t \in Ingress!Side : Gone(m0, t) = Gone(m, t) /\ Joined(m0, t) = Joined(m, t)
      BY <3>3, SameNames DEF Beyond
    <3>6. \A t \in Ingress!Side : InOrder(m0, t)
      <4> SUFFICES ASSUME NEW t \in Ingress!Side PROVE InOrder(m0, t)
        OBVIOUS
      <4>1. InOrder(m, t)
        BY DEF PortInv
      <4>. QED  BY <4>1, <3>2, <3>3, <3>4, <3>5 DEF InOrder
    <3>7. PortInv(m0)
      BY <3>2, <3>3, <3>4, <3>6 DEF PortInv, Beyond
    <3>8. ASSUME NEW t \in Ingress!Side, t # s PROVE Carried(m, m0, t)
      <4>1. Gone(m, t).side # s
        BY <1>1, <3>8, NamesAre
      <4>2. Gone(m, t) \in Way(m) => Gone(m, t) \in Way(m0)
        BY <4>1, <3>2, <3>3, WayIs
      <4>. QED  BY <4>2, <3>3, <3>4 DEF Carried, Beyond
    <3>. QED  BY <3>3, <3>7, <3>8
  <2>. QED  BY <2>1, <2>2
<1>10. PortInv(stop) /\ Beyond(m, stop) /\ \A t \in Ingress!Side : t # s => Carried(m, stop, t)
  <2>1. CASE m.ready[s]
    <3>1. PICK e \in Events : e = Ingress!Ended("stopped", s, at)
      BY <1>7
    <3>2. e.side = s /\ 1 <= e.at /\ e.at <= m0.used[e.side] /\ Ingress!Terminal(e) /\ ~m0.closed
      BY <3>1, <1>1, <1>7, <1>9 DEF Beyond
    <3>3. stop = Ingress!OfferTerminal(m0, e, Ingress!NoEvent)
      BY <1>3, <2>1, <3>1
    <3>4. PortInv(stop) /\ Beyond(m0, stop) /\ \A t \in Ingress!Side : t # e.side => Carried(m0, stop, t)
      BY <3>2, <3>3, <1>7, <1>9, OfferTerminalKeeps
    <3>. QED  BY <3>2, <3>4, <1>9, CarriedOn DEF Beyond
  <2>2. CASE ~m.ready[s]
    BY <1>3, <1>9, <2>2
  <2>. QED  BY <2>1, <2>2
<1>11. /\ PortInv(gone) /\ Beyond(m, gone) /\ Ingress!Ended("gone", s, at) \in Way(gone)
       /\ \A t \in Ingress!Side : t # s => Carried(m, gone, t)
  <2>1. PICK e \in Events : e = Ingress!Ended("gone", s, at)
    BY <1>7
  <2>2. e.side = s /\ 1 <= e.at /\ e.at <= stop.used[e.side] /\ Ingress!Terminal(e) /\ ~stop.closed
    BY <2>1, <1>1, <1>7, <1>10 DEF Beyond
  <2>3. gone = Ingress!OfferTerminal(stop, e, news)
    BY <1>5, <2>1
  <2>4. PortInv(gone) /\ Beyond(stop, gone) /\ e \in Way(gone) /\ \A t \in Ingress!Side : t # e.side => Carried(stop, gone, t)
    BY <2>2, <2>3, <1>8, <1>10, OfferTerminalKeeps
  <2>. QED  BY <2>1, <2>2, <2>4, <1>10, CarriedOn DEF Beyond
<1>12. PICK so : so = [gone.socket EXCEPT ![s] = 0]
  OBVIOUS
<1>13. PICK re : re = [gone.ready EXCEPT ![s] = FALSE]
  OBVIOUS
<1>14. o = [gone EXCEPT !.socket = so, !.ready = re]
  BY <1>6, <1>12, <1>13
<1>15. gone \in Port /\ so \in [Ingress!Side -> Nat] /\ re \in [Ingress!Side -> BOOLEAN]
  BY <1>11, <1>12, <1>13 DEF PortInv, Port
<1>16. /\ o \in Port /\ o.socket = so /\ o.used = gone.used /\ o.closed = gone.closed
       /\ o.queue = gone.queue /\ o.pending = gone.pending /\ o.reader = gone.reader /\ o.hand = gone.hand
  BY <1>14, <1>15 DEF Port
<1>17. Way(o) = Way(gone) /\ Held(o) = Held(gone)
  BY <1>16 DEF Way, Held
<1>18. \A t \in Ingress!Side : Gone(o, t) = Gone(gone, t) /\ Joined(o, t) = Joined(gone, t)
  BY <1>16, SameNames
<1>19. \A t \in Ingress!Side : so[t] \in {0, o.used[t]}
  BY <1>11, <1>12, <1>15, <1>16 DEF PortInv, Port
<1>20. PortInv(o)
  <2>1. \A t \in Ingress!Side : InOrder(o, t)
    BY <1>11, <1>16, <1>17, <1>18 DEF PortInv, InOrder
  <2>. QED  BY <2>1, <1>11, <1>16, <1>17, <1>19 DEF PortInv
<1>21. Gone(o, s) \in Way(o)
  BY <1>1, <1>11, <1>16, <1>17 DEF Gone, Beyond
<1>22. \A t \in Ingress!Side : t # s => Carried(m, o, t)
  BY <1>11, <1>16, <1>17 DEF Carried
<1>. QED  BY <1>11, <1>12, <1>16, <1>20, <1>21, <1>22 DEF Closes, Beyond

LEMMA ToldStill ==
  ASSUME NEW m, NEW o, NEW r, NEW t, EndTold(m, r, t), Carried(m, o, t), o.socket[t] = m.socket[t]
  PROVE  EndTold(o, r, t)
<1>1. Gone(o, t) = Gone(m, t) /\ Joined(o, t) = Joined(m, t)
  BY SameNames DEF Carried
<1>. QED  BY <1>1 DEF EndTold, Carried

LEMMA ClosesTells ==
  ASSUME NEW m, NEW o, NEW r, NEW s \in Ingress!Side, m \in Port, Closes(m, o, s),
         \A t \in Ingress!Side : t # s => EndTold(m, r, t)
  PROVE  \A t \in Ingress!Side : EndTold(o, r, t)
<1> SUFFICES ASSUME NEW t \in Ingress!Side PROVE EndTold(o, r, t)
  OBVIOUS
<1>1. CASE t = s
  BY <1>1 DEF Closes, EndTold
<1>2. CASE t # s
  <2>1. o.socket[t] = m.socket[t]
    BY <1>2 DEF Closes, Port
  <2>. QED  BY <1>2, <2>1, ToldStill DEF Closes
<1>. QED  BY <1>1, <1>2

-----------------------------------------------------------------------------
(***************************************************************************)
(* The sockets.                                                            *)
(***************************************************************************)
LEMMA RelayStays ==
  ASSUME NEW m, NEW o, NEW r, RelayInv(m, r), o.used = m.used
  PROVE  RelayInv(o, r)
BY DEF RelayInv

LEMMA DetachInv == ASSUME IngressInv, NEW s \in Ingress!Side, Ingress!Detach(s) PROVE IngressInv'
<1>1. PortInv(port) /\ port \in Port /\ port.socket[s] # 0 /\ ~port.closed /\ port' = Ingress!Detached(port, s) /\ believed' = believed
  BY DEF IngressInv, Ingress!Detach, PortInv, Port
<1>2. Closes(port, port', s)
  BY <1>1, DetachedCloses
<1>3. \A t \in Ingress!Side : EndTold(port', believed, t)
  BY <1>1, <1>2, ClosesTells DEF IngressInv
<1>4. RelayInv(port', believed)
  BY <1>2, RelayStays DEF IngressInv, Closes
<1>. QED  BY <1>1, <1>2, <1>3, <1>4 DEF IngressInv, Closes

LEMMA CloseSessionInv == ASSUME IngressInv, Ingress!CloseSession PROVE IngressInv'
<1>1. ~port.closed /\ believed' = believed /\ PortInv(port) /\ port \in Port
  BY DEF Ingress!CloseSession, IngressInv, PortInv
<1>2. PICK a : a = IF port.socket["A"] # 0 THEN Ingress!Detached(port, "A") ELSE port
  OBVIOUS
<1>3. PICK b : b = IF a.socket["B"] # 0 THEN Ingress!Detached(a, "B") ELSE a
  OBVIOUS
<1>4. port' = [b EXCEPT !.closed = TRUE, !.reader = IF @ = "waiting" THEN "idle" ELSE @]
  BY <1>2, <1>3 DEF Ingress!CloseSession
<1>5. /\ PortInv(a) /\ ~a.closed /\ a.used = port.used /\ a.socket["A"] = 0
      /\ \A t \in Ingress!Side : EndTold(a, believed, t)
  <2>1. CASE port.socket["A"] # 0
    <3>1. a = Ingress!Detached(port, "A") /\ "A" \in Ingress!Side
      BY <2>1, <1>2 DEF Ingress!Side
    <3>2. Closes(port, a, "A")
      BY <3>1, <2>1, <1>1, DetachedCloses
    <3>3. \A t \in Ingress!Side : EndTold(a, believed, t)
      BY <3>1, <3>2, <1>1, ClosesTells DEF IngressInv
    <3>. QED  BY <3>1, <3>2, <3>3, <1>1 DEF Closes, Port
  <2>2. CASE port.socket["A"] = 0
    BY <2>2, <1>1, <1>2 DEF IngressInv
  <2>. QED  BY <2>1, <2>2
<1>6. /\ PortInv(b) /\ ~b.closed /\ b.used = port.used /\ \A t \in Ingress!Side : b.socket[t] = 0
      /\ \A t \in Ingress!Side : EndTold(b, believed, t)
  <2>1. CASE a.socket["B"] # 0
    <3>1. b = Ingress!Detached(a, "B") /\ "B" \in Ingress!Side /\ a \in Port
      BY <2>1, <1>3, <1>5 DEF Ingress!Side, PortInv
    <3>2. Closes(a, b, "B")
      BY <3>1, <2>1, <1>5, DetachedCloses
    <3>3. \A t \in Ingress!Side : EndTold(b, believed, t)
      BY <3>1, <3>2, <1>5, ClosesTells
    <3>4. \A t \in Ingress!Side : b.socket[t] = 0
      BY <3>1, <3>2, <1>5 DEF Closes, Port, Ingress!Side
    <3>. QED  BY <3>2, <3>3, <3>4, <1>5 DEF Closes
  <2>2. CASE a.socket["B"] = 0
    BY <2>2, <1>3, <1>5 DEF Ingress!Side
  <2>. QED  BY <2>1, <2>2
<1>7. PICK r : r = IF b.reader = "waiting" THEN "idle" ELSE b.reader
  OBVIOUS
<1>8. port' = [b EXCEPT !.closed = TRUE, !.reader = r]
  BY <1>4, <1>7
<1>9. b \in Port
  BY <1>6 DEF PortInv
<1>10. /\ port' \in Port /\ port'.socket = b.socket /\ port'.used = b.used /\ port'.queue = b.queue
       /\ port'.pending = b.pending /\ port'.reader = r /\ port'.hand = b.hand
       /\ r \in {"idle", "handling", "done"} /\ (r = "handling" <=> b.reader = "handling")
  BY <1>7, <1>8, <1>9 DEF Port
<1>11. Way(port') = Way(b) /\ Held(port') = Held(b)
  BY <1>10 DEF Way, Held
<1>12. \A t \in Ingress!Side : Gone(port', t) = Gone(b, t) /\ Joined(port', t) = Joined(b, t)
  BY <1>10, SameNames
<1>13. PortInv(port')
  <2>1. \A t \in Ingress!Side : InOrder(port', t)
    BY <1>6, <1>10, <1>11, <1>12 DEF PortInv, InOrder
  <2>. QED  BY <2>1, <1>6, <1>10, <1>11 DEF PortInv
<1>14. \A t \in Ingress!Side : EndTold(port', believed, t)
  BY <1>6, <1>10, <1>11, <1>12 DEF EndTold
<1>15. RelayInv(port', believed)
  BY <1>6, <1>10, RelayStays DEF IngressInv
<1>. QED  BY <1>1, <1>6, <1>10, <1>13, <1>14, <1>15 DEF IngressInv

LEMMA AttachInv == ASSUME IngressInv, NEW s \in Ingress!Side, Ingress!Attach(s) PROVE IngressInv'
<1>1. /\ ~port.closed /\ port.socket[s] = 0 /\ believed' = believed /\ PortInv(port) /\ port \in Port
      /\ RelayInv(port, believed) /\ \A t \in Ingress!Side : EndTold(port, believed, t)
  BY DEF Ingress!Attach, IngressInv, PortInv
<1>2. PICK at \in Nat : at = port.used[s] + 1
  BY <1>1 DEF Port
<1>3. PICK us : us = [port.used EXCEPT ![s] = at]
  OBVIOUS
<1>4. PICK so : so = [port.socket EXCEPT ![s] = at]
  OBVIOUS
<1>5. PICK m0 : m0 = [port EXCEPT !.used = us, !.socket = so]
  OBVIOUS
<1>6. PICK e : e = Ingress!Event("connected", s, at)
  OBVIOUS
<1>7. PICK m : m = Ingress!Offer(m0, e)
  OBVIOUS
<1>8. port' = IF ~m.ok THEN Ingress!Detached(m, s)
              ELSE IF m.anchors[s] # Ingress!NoEvent /\ m.pending # <<>>
              THEN [m EXCEPT !.anchors[s] = Ingress!NoEvent,
                             !.flush = IF Ingress!Contains(@, s) THEN @ ELSE Append(@, s)]
              ELSE m
  <2>1. m0 = [port EXCEPT !.used[s] = at, !.socket[s] = at]
    BY <1>3, <1>4, <1>5
  <2>2. PICK n : n = Ingress!Offer([port EXCEPT !.used[s] = port.used[s] + 1, !.socket[s] = port.used[s] + 1],
                           Ingress!Event("connected", s, port.used[s] + 1))
    OBVIOUS
  <2>3. port' = IF ~n.ok THEN Ingress!Detached(n, s)
                ELSE IF n.anchors[s] # Ingress!NoEvent /\ n.pending # <<>>
                THEN [n EXCEPT !.anchors[s] = Ingress!NoEvent,
                               !.flush = IF Ingress!Contains(@, s) THEN @ ELSE Append(@, s)]
                ELSE n
    BY <2>2 DEF Ingress!Attach
  <2>4. m = n
    BY <2>1, <2>2, <1>2, <1>6, <1>7
  <2>. QED  BY <2>3, <2>4, Zenon
<1>9. /\ us \in [Ingress!Side -> Nat] /\ so \in [Ingress!Side -> Nat] /\ us[s] = at /\ so[s] = at
      /\ \A t \in Ingress!Side : t # s => us[t] = port.used[t] /\ so[t] = port.socket[t]
  BY <1>1, <1>2, <1>3, <1>4 DEF Port
<1>10. /\ m0 \in Port /\ m0.used = us /\ m0.socket = so /\ m0.closed = port.closed
       /\ m0.queue = port.queue /\ m0.pending = port.pending /\ m0.reader = port.reader /\ m0.hand = port.hand
  BY <1>1, <1>5, <1>9 DEF Port
<1>11. Way(m0) = Way(port) /\ Held(m0) = Held(port)
  BY <1>10 DEF Way, Held
<1>12. \A c \in Way(m0) : 1 <= c.at /\ c.at <= port.used[c.side] /\ c.at <= us[c.side] /\ (c.side = s => c.at # at)
  <2> SUFFICES ASSUME NEW c \in Way(m0)
               PROVE  1 <= c.at /\ c.at <= port.used[c.side] /\ c.at <= us[c.side] /\ (c.side = s => c.at # at)
    OBVIOUS
  <2>1. c \in Events /\ 1 <= c.at /\ c.at <= port.used[c.side]
    <3>1. 1 <= c.at /\ c.at <= port.used[c.side]
      BY <1>1, <1>11 DEF PortInv
    <3>2. \A q \in Seq(Events) : \A x \in ToSet(q) : x \in Events
      BY LenProperties DEF ToSet
    <3>3. port.queue \in Seq(Events) /\ port.pending \in Seq(Events) /\ port.hand \in Events
      BY <1>1 DEF Port
    <3>. QED  BY <3>1, <3>2, <3>3, <1>11, WayIs
  <2>2. c.at \in Nat /\ c.side \in Ingress!Side /\ port.used[c.side] \in Nat
    BY <2>1, <1>1 DEF Events, Port
  <2>. QED  BY <2>1, <2>2, <1>2, <1>9
<1>13. PortInv(m0)
  <2>1. ASSUME NEW t \in Ingress!Side PROVE InOrder(m0, t)
    <3>1. CASE t = s
      <4>1. Gone(m0, s) \notin Way(m0)
        BY <1>9, <1>10, <1>12, NamesAre
      <4>2. \A i \in DOMAIN m0.queue : m0.queue[i] # Gone(m0, s)
        BY <4>1, WayIs DEF ToSet
      <4>. QED  BY <3>1, <4>1, <4>2 DEF InOrder, Behind, Way
    <3>2. CASE t # s
      <4>1. Gone(m0, t) = Gone(port, t) /\ Joined(m0, t) = Joined(port, t)
        BY <3>2, <1>9, <1>10, SameNames
      <4>. QED  BY <4>1, <1>1, <1>10, <1>11 DEF PortInv, InOrder
    <3>. QED  BY <3>1, <3>2
  <2>2. \A t \in Ingress!Side : so[t] \in {0, us[t]}
    BY <1>1, <1>9 DEF PortInv
  <2>. QED  BY <2>1, <2>2, <1>1, <1>10, <1>12 DEF PortInv
<1>14. /\ e \in Events /\ e.side = s /\ e.at = at /\ e = Joined(m0, s)
       /\ \A t \in Ingress!Side : t # s => e # Joined(m0, t)
  <2>1. e = Joined(m0, s)
    BY <1>6, <1>9, <1>10 DEF Joined
  <2>. QED  BY <2>1, <1>9, <1>10, NamesAre
<1>15. /\ PortInv(m) /\ Apart(m0, m) /\ \A t \in Ingress!Side : t # s => Carried(m0, m, t)
  <2>1. Gone(m0, s) \notin Way(m0)
    BY <1>9, <1>10, <1>12, NamesAre
  <2>2. 1 <= e.at /\ e.at <= m0.used[e.side] /\ \A t \in Ingress!Side : e = Joined(m0, t) => Gone(m0, t) \notin Way(m0)
    <3>1. 1 <= at
      BY <1>1, <1>2 DEF Port
    <3>. QED  BY <2>1, <3>1, <1>9, <1>10, <1>14
  <2>3. PortInv(m) /\ Apart(m0, m)
    BY <2>2, <1>7, <1>13, <1>14, OfferKeeps
  <2>4. \A t \in Ingress!Side : e # Joined(m0, t) => Carried(m0, m, t)
    BY <2>2, <1>7, <1>13, <1>14, OfferKeeps
  <2>. QED  BY <2>3, <2>4, <1>14
<1>16. m \in Port /\ m.used = us /\ m.socket = so /\ ~m.closed /\ m.socket[s] # 0
  <2>1. at # 0
    BY <1>1, <1>2 DEF Port
  <2>. QED  BY <2>1, <1>1, <1>9, <1>10, <1>15 DEF Apart, Beyond, PortInv
<1>17. \A t \in Ingress!Side : t # s => EndTold(m, believed, t)
  <2> SUFFICES ASSUME NEW t \in Ingress!Side, t # s PROVE EndTold(m, believed, t)
    OBVIOUS
  <2>1. Carried(port, m0, t)
    <3>1. Gone(m0, t) = Gone(port, t) /\ Joined(m0, t) = Joined(port, t) /\ m0.used[t] = port.used[t]
      BY <1>9, <1>10, SameNames
    <3>. QED  BY <3>1, <1>11 DEF Carried
  <2>2. Carried(port, m, t)
    BY <2>1, <1>15, CarriedOn
  <2>3. m.socket[t] = port.socket[t]
    BY <1>9, <1>16
  <2>. QED  BY <2>2, <2>3, <1>1, ToldStill
<1>18. ASSUME NEW o, o.used = us PROVE RelayInv(o, believed)
  <2> SUFFICES ASSUME NEW t \in Ingress!Side PROVE believed.at[t] <= us[t]
    BY <1>1, <1>18 DEF RelayInv
  <2>1. believed.at[t] \in Nat /\ believed.at[t] <= port.used[t] /\ port.used[t] \in Nat
    BY <1>1 DEF RelayInv, Beliefs, Port
  <2>. QED  BY <2>1, <1>2, <1>9
<1>19. CASE ~m.ok
  <2>1. port' = Ingress!Detached(m, s)
    BY <1>8, <1>19
  <2>2. Closes(m, port', s)
    BY <2>1, <1>15, <1>16, DetachedCloses
  <2>3. \A t \in Ingress!Side : EndTold(port', believed, t)
    BY <2>2, <1>16, <1>17, ClosesTells
  <2>4. RelayInv(port', believed)
    BY <2>2, <1>16, <1>18 DEF Closes
  <2>. QED  BY <2>2, <2>3, <2>4, <1>1, <1>16 DEF IngressInv, Closes
<1>20. CASE m.ok
  <2>1. PICK an, fl :
          /\ an \in [Ingress!Side -> Events] /\ fl \in Seq(Ingress!Side)
          /\ port' = [m EXCEPT !.anchors = an, !.flush = fl]
    <3>1. CASE m.anchors[s] # Ingress!NoEvent /\ m.pending # <<>>
      <4>1. port' = [m EXCEPT !.anchors[s] = Ingress!NoEvent,
                              !.flush = IF Ingress!Contains(@, s) THEN @ ELSE Append(@, s)]
        BY <1>8, <1>20, <3>1
      <4>2. PICK an : an = [m.anchors EXCEPT ![s] = Ingress!NoEvent]
        OBVIOUS
      <4>3. PICK fl : fl = IF Ingress!Contains(m.flush, s) THEN m.flush ELSE Append(m.flush, s)
        OBVIOUS
      <4>4. port' = [m EXCEPT !.anchors = an, !.flush = fl]
        BY <4>1, <4>2, <4>3
      <4>5. an \in [Ingress!Side -> Events]
        <5>1. Ingress!NoEvent \in Events
          BY DEF Ingress!NoEvent, Events, Kinds, Ingress!Side
        <5>. QED  BY <5>1, <4>2, <1>16 DEF Port
      <4>6. fl \in Seq(Ingress!Side)
        BY <4>3, <1>16, AppendProperties DEF Port
      <4>. QED  BY <4>4, <4>5, <4>6
    <3>2. CASE ~(m.anchors[s] # Ingress!NoEvent /\ m.pending # <<>>)
      <4>1. port' = m
        BY <1>8, <1>20, <3>2
      <4>2. PICK an \in [Ingress!Side -> Events], fl \in Seq(Ingress!Side) : an = m.anchors /\ fl = m.flush
        BY <1>16 DEF Port
      <4>3. port' = [m EXCEPT !.anchors = an, !.flush = fl]
        BY <4>1, <4>2, <1>16 DEF Port
      <4>. QED  BY <4>3
    <3>. QED  BY <3>1, <3>2
  <2>2. /\ port' \in Port /\ port'.used = us /\ port'.socket = so /\ port'.closed = m.closed
        /\ port'.queue = m.queue /\ port'.pending = m.pending /\ port'.reader = m.reader /\ port'.hand = m.hand
    BY <2>1, <1>16 DEF Port
  <2>3. Way(port') = Way(m) /\ Held(port') = Held(m)
    BY <2>2 DEF Way, Held
  <2>4. \A t \in Ingress!Side : Gone(port', t) = Gone(m, t) /\ Joined(port', t) = Joined(m, t)
    BY <2>2, <1>16, SameNames
  <2>5. PortInv(port')
    <3>1. \A t \in Ingress!Side : InOrder(port', t)
      BY <1>15, <2>2, <2>3, <2>4 DEF PortInv, InOrder
    <3>. QED  BY <3>1, <1>15, <1>16, <2>2, <2>3 DEF PortInv
  <2>6. \A t \in Ingress!Side : EndTold(port', believed, t)
    <3> SUFFICES ASSUME NEW t \in Ingress!Side PROVE EndTold(port', believed, t)
      OBVIOUS
    <3>1. CASE t = s
      BY <3>1, <2>2, <1>16 DEF EndTold
    <3>2. CASE t # s
      BY <3>2, <1>16, <1>17, <2>2, <2>3, <2>4 DEF EndTold
    <3>. QED  BY <3>1, <3>2
  <2>. QED  BY <2>2, <2>5, <2>6, <1>1, <1>16, <1>18 DEF IngressInv
<1>. QED
  <2>1. m.ok \in BOOLEAN
    BY <1>16 DEF Port
  <2>. QED  BY <2>1, <1>19, <1>20

-----------------------------------------------------------------------------
(***************************************************************************)
(* The messages of a browser.                                              *)
(***************************************************************************)
\* A port that goes on: nothing of an end is lost, and no socket opens or closes.
GoesOn(m, o) == PortInv(o) /\ Beyond(m, o) /\ \A t \in Ingress!Side : Carried(m, o, t)

LEMMA OfferGoesOn ==
  ASSUME NEW m, PortInv(m), NEW s \in Ingress!Side, m.socket[s] # 0,
         NEW k \in Kinds \ {"none", "connected", "gone"},
         NEW o, o = Ingress!Offer(m, Ingress!Event(k, s, m.socket[s]))
  PROVE  GoesOn(m, o)
<1>1. m \in Port /\ m.socket[s] = m.used[s] /\ m.used[s] \in Nat /\ m.used[s] >= 1
  BY DEF PortInv, Port
<1>2. PICK e : e = Ingress!Event(k, s, m.socket[s])
  OBVIOUS
<1>3. e \in Events /\ e.kind = k /\ e.side = s /\ e.at = m.used[s]
  BY <1>1, <1>2 DEF Ingress!Event, Events
<1>4. \A t \in Ingress!Side : e # Joined(m, t)
  BY <1>1, <1>3, NamesAre
<1>5. PortInv(o) /\ Apart(m, o) /\ \A t \in Ingress!Side : e # Joined(m, t) => Carried(m, o, t)
  <2>1. o = Ingress!Offer(m, e) /\ 1 <= e.at /\ e.at <= m.used[e.side]
    BY <1>1, <1>2, <1>3
  <2>. QED  BY <2>1, <1>3, <1>4, OfferKeeps
<1>. QED  BY <1>4, <1>5 DEF GoesOn, Apart

LEMMA GoesOnFurther ==
  ASSUME NEW m, NEW p, NEW o, GoesOn(m, p), GoesOn(p, o)
  PROVE  GoesOn(m, o)
BY CarriedOn DEF GoesOn, Beyond

LEMMA ReadyGoesOn ==
  ASSUME NEW m, PortInv(m), NEW s \in Ingress!Side, NEW b \in BOOLEAN, NEW o, o = [m EXCEPT !.ready[s] = b]
  PROVE  GoesOn(m, o)
<1>1. PICK re : re = [m.ready EXCEPT ![s] = b]
  OBVIOUS
<1>2. o = [m EXCEPT !.ready = re]
  BY <1>1
<1>3. m \in Port /\ re \in [Ingress!Side -> BOOLEAN]
  BY <1>1 DEF PortInv, Port
<1>4. /\ o \in Port /\ Beyond(m, o)
      /\ o.queue = m.queue /\ o.pending = m.pending /\ o.reader = m.reader /\ o.hand = m.hand
  BY <1>2, <1>3 DEF Port, Beyond
<1>5. Way(o) = Way(m) /\ Held(o) = Held(m)
  BY <1>4 DEF Way, Held
<1>6. \A t \in Ingress!Side : Gone(o, t) = Gone(m, t) /\ Joined(o, t) = Joined(m, t)
  BY <1>4, SameNames DEF Beyond
<1>7. PortInv(o)
  <2>1. \A t \in Ingress!Side : InOrder(o, t)
    BY <1>4, <1>5, <1>6 DEF PortInv, InOrder
  <2>. QED  BY <2>1, <1>4, <1>5 DEF PortInv, Beyond
<1>. QED  BY <1>4, <1>5, <1>7 DEF GoesOn, Carried, Beyond

LEMMA ReceivedIs ==
  ASSUME PortInv(port), ~port.closed, NEW s \in Ingress!Side, NEW k \in Controls, port.socket[s] # 0,
         NEW o, o = Ingress!Received(k, s)
  PROVE  \/ GoesOn(port, o)
         \/ \E n : GoesOn(port, n) /\ Closes(n, o, s)
<1>1. /\ k \in Kinds \ {"none", "connected", "gone"}
      /\ k \in {"audio", "sample", "speech", "alert", "ready", "stopped", "cleared"}
      /\ "alert" \in Kinds \ {"none", "connected", "gone"}
  BY BrowserAssumption DEF Ingress!IngressAssumption, Kinds
<1>2. PICK m : m = Ingress!Offer(port, Ingress!Event(k, s, port.socket[s]))
  OBVIOUS
<1>3. GoesOn(port, m) /\ PortInv(m) /\ m.socket[s] # 0 /\ ~m.closed
  <2>1. GoesOn(port, m)
    BY <1>1, <1>2, OfferGoesOn
  <2>. QED  BY <2>1 DEF GoesOn, Beyond
<1>4. PICK n : n = Ingress!Reject(m, s)
  OBVIOUS
<1>5. GoesOn(port, n) /\ PortInv(n) /\ n.socket[s] # 0 /\ ~n.closed
  <2>1. n = Ingress!Offer(m, Ingress!Event("alert", s, m.socket[s]))
    BY <1>4 DEF Ingress!Reject
  <2>2. GoesOn(m, n)
    BY <2>1, <1>1, <1>3, OfferGoesOn
  <2>3. GoesOn(port, n)
    BY <2>2, <1>3, GoesOnFurther
  <2>. QED  BY <2>2, <2>3, <1>3 DEF GoesOn, Beyond
<1>6. GoesOn(port, port)
  BY DEF GoesOn, Beyond, Carried
<1>7. ASSUME NEW b \in BOOLEAN, NEW p, p = [m EXCEPT !.ready[s] = b] PROVE GoesOn(port, p)
  <2>1. GoesOn(m, p)
    BY <1>3, <1>7, ReadyGoesOn
  <2>. QED  BY <2>1, <1>3, GoesOnFurther
<1>8. ASSUME NEW p, p = Ingress!Detached(n, s) PROVE GoesOn(port, n) /\ Closes(n, p, s)
  BY <1>5, <1>8, DetachedCloses
<1>9. \/ o = port \/ o = m \/ o = n \/ o = Ingress!Reject(port, s) \/ o = Ingress!Detached(n, s)
      \/ o = [m EXCEPT !.ready[s] = TRUE] \/ o = [m EXCEPT !.ready[s] = FALSE]
  <2>1. o = CASE k \in {"audio", "sample"} -> IF m.ok THEN m ELSE n
              [] k = "speech" -> m
              [] k = "alert" -> Ingress!Reject(port, s)
              [] k = "ready" /\ port.ready[s] -> port
              [] k = "ready" /\ ~port.ready[s] ->
                     IF m.ok THEN [m EXCEPT !.ready[s] = TRUE] ELSE Ingress!Detached(n, s)
              [] k = "stopped" /\ ~port.ready[s] -> port
              [] k = "stopped" /\ port.ready[s] ->
                     IF m.ok THEN [m EXCEPT !.ready[s] = FALSE] ELSE n
              [] k = "cleared" -> IF m.ok THEN m ELSE Ingress!Detached(n, s)
    BY <1>2, <1>4 DEF Ingress!Received
  <2>2. CASE k \in {"audio", "sample"}
    BY <2>1, <2>2
  <2>3. CASE k = "speech"
    BY <2>1, <2>3
  <2>4. CASE k = "alert"
    BY <2>1, <2>4
  <2>5. CASE k = "ready" /\ port.ready[s]
    BY <2>1, <2>5
  <2>6. CASE k = "ready" /\ ~port.ready[s]
    BY <2>1, <2>6
  <2>7. CASE k = "stopped" /\ ~port.ready[s]
    BY <2>1, <2>7
  <2>8. CASE k = "stopped" /\ port.ready[s]
    BY <2>1, <2>8
  <2>9. CASE k = "cleared"
    BY <2>1, <2>9
  <2>. QED  BY <1>1, <2>2, <2>3, <2>4, <2>5, <2>6, <2>7, <2>8, <2>9
<1>10. CASE o = Ingress!Reject(port, s)
  <2>1. o = Ingress!Offer(port, Ingress!Event("alert", s, port.socket[s]))
    BY <1>10 DEF Ingress!Reject
  <2>. QED  BY <2>1, <1>1, OfferGoesOn
<1>. QED  BY <1>3, <1>5, <1>6, <1>7, <1>8, <1>9, <1>10

LEMMA GoesOnTells ==
  ASSUME NEW m, NEW o, NEW r, GoesOn(m, o), \A t \in Ingress!Side : EndTold(m, r, t)
  PROVE  \A t \in Ingress!Side : EndTold(o, r, t)
BY ToldStill DEF GoesOn, Beyond

LEMMA ReceiveInv == ASSUME IngressInv, NEW s \in Ingress!Side, NEW k \in Controls, Ingress!Receive(k, s) PROVE IngressInv'
<1>1. /\ PortInv(port) /\ port.socket[s] # 0 /\ ~port.closed /\ port' = Ingress!Received(k, s) /\ believed' = believed
      /\ RelayInv(port, believed) /\ \A t \in Ingress!Side : EndTold(port, believed, t)
  BY DEF IngressInv, Ingress!Receive, PortInv, Port
<1>2. CASE GoesOn(port, port')
  <2>1. \A t \in Ingress!Side : EndTold(port', believed, t)
    BY <1>1, <1>2, GoesOnTells
  <2>2. RelayInv(port', believed)
    BY <1>1, <1>2, RelayStays DEF GoesOn, Beyond
  <2>. QED  BY <2>1, <2>2, <1>1, <1>2 DEF IngressInv, GoesOn, Beyond
<1>3. ASSUME NEW n, GoesOn(port, n), Closes(n, port', s) PROVE IngressInv'
  <2>1. \A t \in Ingress!Side : EndTold(n, believed, t)
    BY <1>1, <1>3, GoesOnTells
  <2>2. n \in Port
    BY <1>3 DEF GoesOn, PortInv
  <2>3. \A t \in Ingress!Side : EndTold(port', believed, t)
    BY <2>1, <2>2, <1>3, ClosesTells
  <2>4. RelayInv(port', believed)
    BY <1>1, <1>3, RelayStays DEF GoesOn, Beyond, Closes
  <2>. QED  BY <2>3, <2>4, <1>1, <1>3 DEF IngressInv, GoesOn, Beyond, Closes
<1>. QED  BY <1>1, <1>2, <1>3, ReceivedIs

-----------------------------------------------------------------------------
(***************************************************************************)
(* The reader of the queue.                                                *)
(***************************************************************************)
Aside(m, o) ==
  /\ o \in Port /\ Beyond(m, o)
  /\ o.queue = m.queue /\ o.pending = m.pending /\ o.reader = m.reader /\ o.hand = m.hand

LEMMA AnchoredIs == ASSUME NEW m \in Port PROVE Aside(m, Ingress!Anchored(m)) /\ Ingress!Anchored(m).closed = m.closed
<1>1. PICK o : o = Ingress!Anchored(m)
  OBVIOUS
<1>2. Ingress!NoEvent \in Events
  BY DEF Ingress!NoEvent, Events, Kinds, Ingress!Side
<1>. DEFINE S == {t \in Ingress!Side : m.value # Ingress!NoEvent /\ m.anchors[t] = m.value}
<1>3. CASE S = {}
  <2>1. o = [m EXCEPT !.value = Ingress!NoEvent]
    BY <1>1, <1>3 DEF Ingress!Anchored
  <2>2. /\ o \in Port /\ o.queue = m.queue /\ o.pending = m.pending /\ o.reader = m.reader
        /\ o.hand = m.hand /\ Beyond(m, o)
    BY <2>1, <1>2 DEF Port, Beyond
  <2>. QED  BY <2>2, <1>1 DEF Aside, Beyond
<1>4. CASE S # {}
  <2>1. PICK t : t = CHOOSE h \in S : TRUE
    OBVIOUS
  <2>2. t \in Ingress!Side
    BY <2>1, <1>4
  <2>3. o = [m EXCEPT !.value = Ingress!NoEvent, !.anchors[t] = Ingress!NoEvent, !.todo = <<t>>]
    BY <2>1, <1>1, <1>4 DEF Ingress!Anchored
  <2>4. PICK an : an = [m.anchors EXCEPT ![t] = Ingress!NoEvent]
    OBVIOUS
  <2>5. PICK td \in Seq(Ingress!Side) : td = <<t>>
    <3>1. <<t>> \in Seq(Ingress!Side)
      BY <2>2
    <3>. QED  BY <3>1
  <2>6. an \in [Ingress!Side -> Events]
    BY <2>2, <2>4, <1>2 DEF Port
  <2>7. o = [m EXCEPT !.value = Ingress!NoEvent, !.anchors = an, !.todo = td]
    BY <2>3, <2>4, <2>5
  <2>8. /\ o \in Port /\ o.queue = m.queue /\ o.pending = m.pending /\ o.reader = m.reader
        /\ o.hand = m.hand /\ Beyond(m, o)
    BY <2>6, <2>7, <1>2 DEF Port, Beyond
  <2>. QED  BY <2>8, <1>1 DEF Aside, Beyond
<1>. QED  BY <1>3, <1>4

FromPending(m, o) ==
  \E i \in DOMAIN m.pending :
    /\ o.reader = "handling" /\ o.hand = m.pending[i] /\ o.queue = m.queue
    /\ o.pending = Ingress!RemoveAt(m.pending, i)
FromQueue(m, o) ==
  /\ m.queue # <<>> /\ o.reader = "handling" /\ o.hand = Head(m.queue)
  /\ o.queue = Tail(m.queue) /\ o.pending = m.pending
NothingWaits(m, o) ==
  /\ o.reader \in {"waiting", "done"} /\ o.queue = m.queue /\ o.pending = m.pending /\ m.queue = <<>>
Pulled(m, o) ==
  o \in Port /\ Beyond(m, o) /\ (FromPending(m, o) \/ FromQueue(m, o) \/ NothingWaits(m, o))

LEMMA HandPendingIs ==
  ASSUME NEW m \in Port, NEW x, Aside(m, x), NEW i \in DOMAIN m.pending, NEW o, o = Ingress!HandPending(x, i)
  PROVE  Pulled(m, o)
<1>1. PICK p : p = Ingress!RemoveAt(x.pending, i)
  OBVIOUS
<1>2. PICK e : e = x.pending[i]
  OBVIOUS
<1>3. o = [[x EXCEPT !.pending = p] EXCEPT !.reader = "handling", !.hand = e]
  BY <1>1, <1>2 DEF Ingress!HandPending, Ingress!Hand
<1>4. x \in Port /\ x.pending = m.pending /\ m.pending \in Seq(Events) /\ i \in 1 .. Len(m.pending)
  BY LenProperties DEF Aside, Port
<1>5. p \in Seq(Events) /\ e \in Events
  BY <1>1, <1>2, <1>4, RemoveAtShorter, LenProperties
<1>6. o = [x EXCEPT !.pending = p, !.reader = "handling", !.hand = e]
  BY <1>3, <1>4 DEF Port
<1>7. /\ o \in Port /\ Beyond(x, o) /\ o.reader = "handling" /\ o.hand = e /\ o.queue = x.queue /\ o.pending = p
  BY <1>4, <1>5, <1>6 DEF Port, Beyond
<1>8. FromPending(m, o)
  BY <1>1, <1>2, <1>4, <1>7 DEF FromPending, Aside
<1>. QED  BY <1>7, <1>8 DEF Pulled, Beyond, Aside

LEMMA LeastIs ==
  ASSUME NEW I, I \subseteq Nat, I # {}
  PROVE  Ingress!Min(I) \in I
<1>1. PICK n \in I : \A m \in I : n <= m
  BY LeastNumber
<1>. QED  BY <1>1 DEF Ingress!Min

LEMMA HandOfIs ==
  ASSUME NEW m \in Port, NEW x, Aside(m, x), NEW sides \in Seq(Ingress!Side), Ingress!HasPending(x, sides),
         NEW o, o = Ingress!HandOf(x, sides)
  PROVE  Pulled(m, o)
<1>. DEFINE I == {i \in 1 .. Len(sides) : Ingress!FirstPending(x, sides[i]) # 0}
            i == Ingress!SelectInSeq(sides, LAMBDA s : Ingress!FirstPending(x, s) # 0)
<1>1. DOMAIN sides = 1 .. Len(sides) /\ Len(sides) \in Nat
  BY LenProperties
<1>2. I # {} /\ I \subseteq Nat
  BY <1>1 DEF Ingress!HasPending
<1>3. i = Ingress!Min(I)
  <2>1. i = IF I # {} THEN Ingress!Min(I) ELSE 0
    BY DEF Ingress!SelectInSeq
  <2>. QED  BY <2>1, <1>2
<1>4. PICK n \in DOMAIN sides : n = i /\ Ingress!FirstPending(x, sides[n]) # 0
  <2>1. Ingress!Min(I) \in I
    <3>. HIDE DEF I
    <3>. QED  BY <1>2, LeastIs
  <2>. QED  BY <2>1, <1>1, <1>3
<1>5. PICK td : td = SubSeq(sides, n, Len(sides))
  OBVIOUS
<1>6. PICK j : j = Ingress!FirstPending(x, sides[n])
  OBVIOUS
<1>7. PICK y : y = [x EXCEPT !.todo = td]
  OBVIOUS
<1>8. o = Ingress!HandPending(y, j)
  <2>1. o = Ingress!HandPending([x EXCEPT !.todo = SubSeq(sides, i, Len(sides))], Ingress!FirstPending(x, sides[i]))
    BY Zenon DEF Ingress!HandOf
  <2>. HIDE DEF i, I
  <2>. QED  BY <2>1, <1>4, <1>5, <1>6, <1>7
<1>9. j \in DOMAIN x.pending
  <2>. DEFINE J == {h \in 1 .. Len(x.pending) : x.pending[h].side = sides[n]}
  <2>1. j = IF J # {} THEN Ingress!Min(J) ELSE 0
    BY <1>6 DEF Ingress!FirstPending, Ingress!SelectInSeq
  <2>2. DOMAIN x.pending = 1 .. Len(x.pending) /\ Len(x.pending) \in Nat
    BY LenProperties DEF Aside, Port
  <2>3. J \subseteq Nat /\ J \subseteq DOMAIN x.pending
    BY <2>2
  <2>4. J # {} /\ j = Ingress!Min(J)
    BY <2>1, <1>4, <1>6
  <2>. HIDE DEF J
  <2>. QED  BY <2>3, <2>4, LeastIs
<1>10. Aside(m, y)
  <2>1. td \in Seq(Ingress!Side)
    <3>1. n \in 1 .. Len(sides)
      BY <1>1
    <3>. QED  BY <3>1, <1>1, <1>5, SubSeqProperties
  <2>. QED  BY <2>1, <1>7 DEF Aside, Beyond, Port
<1>11. j \in DOMAIN m.pending
  BY <1>9 DEF Aside
<1>. QED  BY <1>8, <1>10, <1>11, HandPendingIs

LEMMA PullIs ==
  ASSUME port \in Port, Ingress!Pull
  PROVE  Pulled(port, port') /\ port.reader = "idle" /\ believed' = believed
<1>1. PICK a : a = Ingress!Anchored(port)
  OBVIOUS
<1>2. PICK m : m = [a EXCEPT !.todo = <<>>, !.flush = <<>>]
  OBVIOUS
<1>3. PICK rest : rest =
        IF m.pending # <<>> /\ m.queue = <<>> /\ \A s \in Ingress!Side : m.anchors[s] = Ingress!NoEvent
        THEN Ingress!HandPending(m, 1)
        ELSE IF m.queue # <<>>
        THEN Ingress!Hand([m EXCEPT !.queue = Tail(@), !.value = Head(m.queue)], Head(m.queue))
        ELSE IF ~m.closed THEN [m EXCEPT !.reader = "waiting"]
        ELSE IF m.pending # <<>> THEN Ingress!HandPending(m, 1)
        ELSE [m EXCEPT !.reader = "done"]
  OBVIOUS
<1>4. /\ port' = CASE Ingress!HasPending(a, a.todo) -> Ingress!HandOf(a, a.todo)
                   [] ~Ingress!HasPending(a, a.todo) /\ Ingress!HasPending(a, a.flush) -> Ingress!HandOf(m, a.flush)
                   [] OTHER -> rest
      /\ port.reader = "idle" /\ believed' = believed
  BY <1>1, <1>2, <1>3 DEF Ingress!Pull
<1>5. Aside(port, a) /\ a \in Port
  BY <1>1, AnchoredIs DEF Aside
<1>6. Aside(port, m) /\ m \in Port
  <2>1. PICK none \in Seq(Ingress!Side) : none = <<>>
    <3>1. <<>> \in Seq(Ingress!Side)
      OBVIOUS
    <3>. QED  BY <3>1
  <2>2. m = [a EXCEPT !.todo = none, !.flush = none]
    BY <1>2, <2>1
  <2>3. /\ m \in Port /\ m.queue = a.queue /\ m.pending = a.pending /\ m.reader = a.reader
        /\ m.hand = a.hand /\ Beyond(a, m)
    BY <2>2, <1>5 DEF Port, Beyond
  <2>. QED  BY <2>3, <1>5 DEF Aside, Beyond
<1>7. a.todo \in Seq(Ingress!Side) /\ a.flush \in Seq(Ingress!Side) /\ m.pending = a.pending
  BY <1>5, <1>6 DEF Port, Aside
<1>8. CASE Ingress!HasPending(a, a.todo)
  <2>1. port' = Ingress!HandOf(a, a.todo)
    BY <1>4, <1>8
  <2>. QED  BY <2>1, <1>4, <1>5, <1>7, <1>8, HandOfIs
<1>9. CASE ~Ingress!HasPending(a, a.todo) /\ Ingress!HasPending(a, a.flush)
  <2>1. port' = Ingress!HandOf(m, a.flush)
    BY <1>4, <1>9
  <2>2. Ingress!HasPending(m, a.flush)
    BY <1>7, <1>9 DEF Ingress!HasPending, Ingress!FirstPending
  <2>. QED  BY <2>1, <2>2, <1>4, <1>6, <1>7, HandOfIs
<1>10. CASE ~Ingress!HasPending(a, a.todo) /\ ~Ingress!HasPending(a, a.flush)
  <2>1. port' = rest
    BY <1>4, <1>10
  <2>2. /\ m.queue = port.queue /\ m.pending = port.pending /\ m.queue \in Seq(Events)
        /\ m.pending \in Seq(Events) /\ m.closed \in BOOLEAN /\ m.closed = port.closed
    BY <1>6 DEF Aside, Port, Beyond
  <2>3. CASE m.pending # <<>> /\ rest = Ingress!HandPending(m, 1)
    <3>1. 1 \in DOMAIN port.pending
      BY <2>2, <2>3, LenProperties, EmptySeq
    <3>. QED  BY <3>1, <2>1, <2>3, <1>4, <1>6, HandPendingIs
  <2>4. CASE m.queue # <<>> /\ rest = Ingress!Hand([m EXCEPT !.queue = Tail(@), !.value = Head(m.queue)], Head(m.queue))
    <3>1. PICK q \in Seq(Events), e \in Events : q = Tail(m.queue) /\ e = Head(m.queue)
      BY <2>2, <2>4, HeadTailProperties
    <3>2. port' = [[m EXCEPT !.queue = q, !.value = e] EXCEPT !.reader = "handling", !.hand = e]
      BY <3>1, <2>1, <2>4 DEF Ingress!Hand
    <3>3. port' = [m EXCEPT !.queue = q, !.value = e, !.reader = "handling", !.hand = e]
      BY <3>2, <1>6 DEF Port
    <3>4. /\ port' \in Port /\ Beyond(m, port') /\ port'.reader = "handling" /\ port'.hand = e
          /\ port'.queue = q /\ port'.pending = m.pending
      BY <3>1, <3>3, <1>6 DEF Port, Beyond
    <3>5. FromQueue(port, port')
      BY <3>1, <3>4, <2>2, <2>4 DEF FromQueue
    <3>. QED  BY <3>4, <3>5, <1>4, <1>6 DEF Pulled, Beyond, Aside
  <2>5. ASSUME m.queue = <<>>, NEW r \in {"waiting", "done"}, rest = [m EXCEPT !.reader = r]
        PROVE  Pulled(port, port')
    <3>1. /\ port' \in Port /\ Beyond(m, port') /\ port'.reader = r
          /\ port'.queue = m.queue /\ port'.pending = m.pending
      BY <2>1, <2>5, <1>6 DEF Port, Beyond
    <3>2. NothingWaits(port, port')
      BY <3>1, <2>2, <2>5 DEF NothingWaits
    <3>. QED  BY <3>1, <3>2, <1>6 DEF Pulled, Beyond, Aside
  <2>6. \/ m.pending # <<>> /\ rest = Ingress!HandPending(m, 1)
        \/ m.queue # <<>> /\ rest = Ingress!Hand([m EXCEPT !.queue = Tail(@), !.value = Head(m.queue)], Head(m.queue))
        \/ m.queue = <<>> /\ (rest = [m EXCEPT !.reader = "waiting"] \/ rest = [m EXCEPT !.reader = "done"])
    BY <1>3, Zenon
  <2>. QED  BY <2>3, <2>4, <2>5, <2>6, <1>4
<1>. QED  BY <1>8, <1>9, <1>10

LEMMA PullInv == ASSUME IngressInv, Ingress!Pull PROVE IngressInv'
<1>1. /\ port \in Port /\ PortInv(port) /\ RelayInv(port, believed) /\ \A t \in Ingress!Side : EndTold(port, believed, t)
  BY DEF IngressInv, PortInv
<1>2. PICK o : o = port'
  OBVIOUS
<1>3. /\ Pulled(port, o) /\ port.reader = "idle" /\ believed' = believed
      /\ o.closed = port.closed /\ o.socket = port.socket /\ o.used = port.used /\ o \in Port
  BY <1>1, <1>2, PullIs DEF Pulled, Beyond
<1>4. \A s \in Ingress!Side : Gone(o, s) = Gone(port, s) /\ Joined(o, s) = Joined(port, s)
  BY <1>3, SameNames
<1>5. port.queue \in Seq(Events) /\ port.pending \in Seq(Events) /\ Held(port) = {}
  BY <1>1, <1>3 DEF Port, Held
<1>6. /\ Way(o) = Way(port) /\ ToSet(o.queue) \subseteq ToSet(port.queue)
      /\ ToSet(o.pending) \subseteq ToSet(port.pending)
      /\ \A x, y : Behind(o.queue, x, y) => Behind(port.queue, x, y)
      /\
         \/ Held(o) \subseteq ToSet(port.pending)
         \/ \A x, y : x \in Held(o) /\ y \in ToSet(o.queue) => Behind(port.queue, x, y)
  <2>1. CASE FromPending(port, o)
    <3>1. PICK i \in DOMAIN port.pending :
            /\ o.reader = "handling" /\ o.hand = port.pending[i] /\ o.queue = port.queue
            /\ o.pending = Ingress!RemoveAt(port.pending, i)
      BY <2>1 DEF FromPending
    <3>2. DOMAIN port.pending = 1 .. Len(port.pending) /\ Len(port.pending) \in Nat
      BY <1>5, LenProperties
    <3>3. o.pending \in Seq(Events) /\ Shorter(port.pending, o.pending, i)
      BY <3>1, <3>2, <1>5, RemoveAtShorter
    <3>4. DOMAIN o.pending = 1 .. Len(port.pending) - 1
      BY <3>3, LenProperties DEF Shorter
    <3>5. \A j \in 1 .. Len(port.pending) - 1 : o.pending[j] = IF j < i THEN port.pending[j] ELSE port.pending[j + 1]
      BY <3>3 DEF Shorter
    <3>6. ToSet(o.pending) \subseteq ToSet(port.pending)
      <4> SUFFICES ASSUME NEW j \in DOMAIN o.pending PROVE o.pending[j] \in ToSet(port.pending)
        BY DEF ToSet
      <4>1. o.pending[j] \in {port.pending[j], port.pending[j + 1]}
        BY <3>4, <3>5
      <4>2. j \in DOMAIN port.pending /\ j + 1 \in DOMAIN port.pending
        BY <3>2, <3>4
      <4>. QED  BY <4>1, <4>2 DEF ToSet
    <3>7. ASSUME NEW j \in DOMAIN port.pending, j # i PROVE port.pending[j] \in ToSet(o.pending)
      <4>1. CASE j < i
        <5>1. j \in DOMAIN o.pending /\ o.pending[j] = port.pending[j]
          BY <4>1, <3>2, <3>4, <3>5
        <5>. QED  BY <5>1 DEF ToSet
      <4>2. CASE j > i
        <5>1. j - 1 \in DOMAIN o.pending /\ ~(j - 1 < i) /\ (j - 1) + 1 = j
          BY <4>2, <3>2, <3>4
        <5>2. o.pending[j - 1] = port.pending[j]
          BY <5>1, <3>4, <3>5
        <5>. QED  BY <5>1, <5>2 DEF ToSet
      <4>. QED  BY <4>1, <4>2, <3>2, <3>7
    <3>8. ToSet(port.pending) \subseteq ToSet(o.pending) \cup {o.hand} /\ o.hand \in ToSet(port.pending)
      BY <3>1, <3>7 DEF ToSet
    <3>. QED  BY <3>1, <3>6, <3>8, <1>5 DEF Way, Held
  <2>2. CASE FromQueue(port, o)
    <3>1. /\ port.queue # <<>> /\ o.reader = "handling" /\ o.hand = Head(port.queue)
          /\ o.queue = Tail(port.queue) /\ o.pending = port.pending
      BY <2>2 DEF FromQueue
    <3>2. PICK q : q = port.queue
      OBVIOUS
    <3>3. PICK r : r = Tail(q)
      OBVIOUS
    <3>4. /\ DOMAIN q = 1 .. Len(q) /\ Len(q) \in Nat /\ 1 \in DOMAIN q /\ Head(q) = q[1]
          /\ r \in Seq(Events) /\ Shorter(q, r, 1) /\ DOMAIN r = 1 .. Len(r)
      BY <3>1, <3>2, <3>3, <1>5, TailShorter, LenProperties
    <3>5. DOMAIN r = 1 .. Len(q) - 1 /\ \A j \in DOMAIN r : j + 1 \in DOMAIN q /\ r[j] = q[j + 1]
      BY <3>4 DEF Shorter
    <3>6. \A j \in DOMAIN q : j # 1 => j - 1 \in DOMAIN r /\ r[j - 1] = q[j]
      BY <3>4, <3>5
    <3>7. ToSet(q) = ToSet(r) \cup {q[1]}
      BY <3>4, <3>5, <3>6 DEF ToSet
    <3>8. \A x, y : Behind(r, x, y) => Behind(q, x, y)
      BY <3>4, <3>5 DEF Behind
    <3>9. \A y : y \in ToSet(r) => Behind(q, q[1], y)
      BY <3>4, <3>5 DEF Behind, ToSet
    <3>10. Held(o) = {q[1]}
      BY <3>1, <3>2, <3>4 DEF Held
    <3>. QED  BY <3>1, <3>2, <3>3, <3>7, <3>8, <3>9, <3>10, <1>5 DEF Way
  <2>3. CASE NothingWaits(port, o)
    BY <2>3, <1>5 DEF NothingWaits, Way, Held
  <2>. QED  BY <2>1, <2>2, <2>3, <1>3 DEF Pulled
<1>7. ASSUME NEW s \in Ingress!Side PROVE InOrder(o, s)
  <2>1. InOrder(port, s)
    BY <1>1 DEF PortInv
  <2>2. ~Behind(o.queue, Gone(port, s), Joined(port, s))
    BY <2>1, <1>6 DEF InOrder
  <2>3. Gone(port, s) \in ToSet(o.pending) => Joined(port, s) \notin ToSet(o.queue)
    BY <2>1, <1>6 DEF InOrder
  <2>4. Gone(port, s) \in Held(o) => Joined(port, s) \notin ToSet(o.queue)
    BY <2>1, <1>6 DEF InOrder
  <2>. QED  BY <2>2, <2>3, <2>4, <1>4 DEF InOrder
<1>8. PortInv(o)
  <2>1. o.reader = "waiting" => o.queue = <<>>
    BY <1>3 DEF Pulled, FromPending, FromQueue, NothingWaits
  <2>2. \A e \in Way(o) : 1 <= e.at /\ e.at <= o.used[e.side]
    BY <1>1, <1>3, <1>6 DEF PortInv
  <2>3. \A e \in ToSet(o.pending) : Ingress!Terminal(e)
    BY <1>1, <1>6 DEF PortInv
  <2>. QED  BY <2>1, <2>2, <2>3, <1>1, <1>3, <1>7 DEF PortInv
<1>9. \A t \in Ingress!Side : EndTold(o, believed, t)
  BY <1>1, <1>3, <1>4, <1>6 DEF EndTold
<1>10. RelayInv(o, believed)
  BY <1>1, <1>3, RelayStays
<1>. QED  BY <1>2, <1>3, <1>8, <1>9, <1>10 DEF IngressInv

\* One side of what the relay believes after an event.
Updated(r, q, e, s) ==
  \/ /\ q.connected[s] = r.connected[s] /\ q.at[s] = r.at[s] /\ q.since[s] = r.since[s]
     /\ q.ready[s] => r.connected[s]
     /\ e.kind \in {"connected", "gone"} /\ e.side = s => e.at < r.at[s]
  \/ /\ e.kind \in {"connected", "gone"} /\ e.side = s /\ e.at >= r.at[s]
     /\ q.at[s] = e.at /\ (q.connected[s] <=> e.kind = "connected")
     /\ q.since[s] \in {r.since[s], e.at, 0}
     /\ q.ready[s] => q.connected[s]

LEMMA BelievesIs ==
  ASSUME NEW r \in Beliefs, \A t \in Ingress!Side : r.ready[t] => r.connected[t],
         NEW e \in Events, NEW q, q = Ingress!Believes(r, e)
  PROVE  q \in Beliefs /\ \A t \in Ingress!Side : Updated(r, q, e, t)
<1>. DEFINE s == e.side  connected == e.kind = "connected"
<1>1. s \in Ingress!Side /\ e.at \in Nat /\ \A t \in Ingress!Side : r.at[t] \in Nat
  BY DEF Events, Beliefs
<1>2. PICK c \in BOOLEAN : c = (e.kind = "connected")
  OBVIOUS
<1>3. CASE e.kind \in {"connected", "gone"} /\ e.at < r.at[s]
  <2>0. ~(e.at >= r.at[s])
    BY <1>1, <1>3
  <2>1. q = r
    BY <2>0, <1>3 DEF Ingress!Believes
  <2>. QED  BY <2>1, <1>3 DEF Updated
<1>4. CASE e.kind \in {"connected", "gone"} /\ ~(e.at < r.at[s])
  <2>0. e.at >= r.at[s]
    BY <1>1, <1>4
  <2>1. q = IF c = r.connected[s] THEN [r EXCEPT !.at[s] = e.at]
            ELSE [r EXCEPT !.at[s] = e.at, !.connected[s] = c,
                           !.since[s] = IF c THEN e.at ELSE 0, !.ready[s] = FALSE]
    BY <2>0, <1>2, <1>4 DEF Ingress!Believes
  <2>2. PICK at : at = [r.at EXCEPT ![s] = e.at]
    OBVIOUS
  <2>3. at \in [Ingress!Side -> Nat] /\ at[s] = e.at /\ \A t \in Ingress!Side : t # s => at[t] = r.at[t]
    BY <2>2, <1>1 DEF Beliefs
  <2>4. CASE c = r.connected[s]
    <3>1. q = [r EXCEPT !.at = at]
      BY <2>1, <2>2, <2>4
    <3>2. q \in Beliefs /\ q.at = at /\ q.connected = r.connected /\ q.since = r.since /\ q.ready = r.ready
      BY <2>3, <3>1 DEF Beliefs
    <3>3. ASSUME NEW t \in Ingress!Side PROVE Updated(r, q, e, t)
      <4>1. CASE t = s
        BY <4>1, <2>0, <2>3, <2>4, <3>2, <1>2, <1>4 DEF Updated
      <4>2. CASE t # s
        BY <4>2, <2>3, <3>2 DEF Updated
      <4>. QED  BY <4>1, <4>2
    <3>. QED  BY <3>2, <3>3
  <2>5. CASE c # r.connected[s]
    <3>1. PICK co : co = [r.connected EXCEPT ![s] = c]
      OBVIOUS
    <3>2. PICK z \in Nat : z = IF c THEN e.at ELSE 0
      BY <1>1
    <3>3. PICK si : si = [r.since EXCEPT ![s] = z]
      OBVIOUS
    <3>4. PICK re : re = [r.ready EXCEPT ![s] = FALSE]
      OBVIOUS
    <3>5. q = [r EXCEPT !.at = at, !.connected = co, !.since = si, !.ready = re]
      BY <2>1, <2>2, <2>5, <3>1, <3>2, <3>3, <3>4
    <3>6. /\ co \in [Ingress!Side -> BOOLEAN] /\ si \in [Ingress!Side -> Nat] /\ re \in [Ingress!Side -> BOOLEAN]
          /\ co[s] = c /\ si[s] = z /\ re[s] = FALSE
          /\ \A t \in Ingress!Side : t # s => co[t] = r.connected[t] /\ si[t] = r.since[t] /\ re[t] = r.ready[t]
      BY <1>1, <3>1, <3>3, <3>4 DEF Beliefs
    <3>7. q \in Beliefs /\ q.at = at /\ q.connected = co /\ q.since = si /\ q.ready = re
      BY <2>3, <3>5, <3>6 DEF Beliefs
    <3>8. ASSUME NEW t \in Ingress!Side PROVE Updated(r, q, e, t)
      <4>1. CASE t = s
        BY <4>1, <2>0, <2>3, <3>2, <3>6, <3>7, <1>2, <1>4 DEF Updated
      <4>2. CASE t # s
        BY <4>2, <2>3, <3>6, <3>7 DEF Updated
      <4>. QED  BY <4>1, <4>2
    <3>. QED  BY <3>7, <3>8
  <2>. QED  BY <2>4, <2>5
<1>5. CASE e.kind \in {"ready", "stopped"}
  <2>1. q = IF r.connected[s] /\ e.at >= r.since[s] THEN [r EXCEPT !.ready[s] = e.kind = "ready"] ELSE r
    BY <1>5 DEF Ingress!Believes
  <2>2. CASE r.connected[s] /\ e.at >= r.since[s]
    <3>1. PICK b \in BOOLEAN : b = (e.kind = "ready")
      OBVIOUS
    <3>2. PICK re : re = [r.ready EXCEPT ![s] = b]
      OBVIOUS
    <3>3. q = [r EXCEPT !.ready = re]
      BY <2>1, <2>2, <3>1, <3>2
    <3>4. re \in [Ingress!Side -> BOOLEAN] /\ \A t \in Ingress!Side : t # s => re[t] = r.ready[t]
      BY <1>1, <3>2 DEF Beliefs
    <3>5. q \in Beliefs /\ q.at = r.at /\ q.connected = r.connected /\ q.since = r.since /\ q.ready = re
      BY <3>3, <3>4 DEF Beliefs
    <3>6. \A t \in Ingress!Side : q.ready[t] => r.connected[t]
      BY <2>2, <3>4, <3>5
    <3>. QED  BY <3>5, <3>6, <1>5 DEF Updated
  <2>3. CASE ~(r.connected[s] /\ e.at >= r.since[s])
    <3>1. q = r
      BY <2>1, <2>3
    <3>. QED  BY <3>1, <1>5 DEF Updated
  <2>. QED  BY <2>2, <2>3
<1>6. CASE e.kind \notin {"connected", "gone", "ready", "stopped"}
  <2>1. q = r
    BY <1>6 DEF Ingress!Believes
  <2>. QED  BY <2>1, <1>6 DEF Updated
<1>. QED  BY <1>3, <1>4, <1>5, <1>6

LEMMA HandleInv == ASSUME IngressInv, Ingress!Handle PROVE IngressInv'
<1>1. /\ port \in Port /\ PortInv(port) /\ RelayInv(port, believed) /\ \A t \in Ingress!Side : EndTold(port, believed, t)
      /\ port.reader = "handling" /\ believed' = Ingress!Believes(believed, port.hand)
      /\ port' = [port EXCEPT !.reader = "idle", !.hand = Ingress!NoEvent]
  BY DEF IngressInv, PortInv, Ingress!Handle
<1>2. PICK o : o = port'
  OBVIOUS
<1>3. PICK q : q = believed'
  OBVIOUS
<1>4. PICK e : e = port.hand
  OBVIOUS
<1>5. Ingress!NoEvent \in Events
  BY DEF Ingress!NoEvent, Events, Kinds, Ingress!Side
<1>6. /\ o \in Port /\ o.used = port.used /\ o.socket = port.socket /\ o.closed = port.closed
      /\ o.queue = port.queue /\ o.pending = port.pending /\ o.reader = "idle"
  BY <1>1, <1>2, <1>5 DEF Port
<1>7. /\ Held(o) = {} /\ Held(port) = {e} /\ e \in Way(port) /\ e \in Events
      /\ Way(o) = ToSet(port.queue) \cup ToSet(port.pending) /\ Way(port) = Way(o) \cup {e}
  BY <1>1, <1>4, <1>6 DEF Held, Way, Port
<1>8. \A s \in Ingress!Side : Gone(o, s) = Gone(port, s) /\ Joined(o, s) = Joined(port, s)
  BY <1>6, SameNames
<1>9. PortInv(o)
  <2>1. \A s \in Ingress!Side : InOrder(o, s)
    BY <1>1, <1>6, <1>7, <1>8 DEF PortInv, InOrder
  <2>. QED  BY <2>1, <1>1, <1>6, <1>7 DEF PortInv
<1>10. 1 <= e.at /\ e.at <= port.used[e.side] /\ e.at \in Nat /\ \A t \in Ingress!Side : port.used[t] \in Nat
  BY <1>1, <1>7 DEF PortInv, Events, Port
<1>11. believed \in Beliefs /\ \A t \in Ingress!Side : believed.ready[t] => believed.connected[t]
  BY <1>1 DEF RelayInv
<1>12. q \in Beliefs /\ \A t \in Ingress!Side : Updated(believed, q, e, t)
  BY <1>1, <1>3, <1>4, <1>7, <1>11, BelievesIs
<1>13. ASSUME NEW t \in Ingress!Side
       PROVE  /\ q.at[t] <= o.used[t] /\ q.since[t] <= q.at[t]
              /\ q.ready[t] => q.connected[t]
              /\ q.connected[t] => q.at[t] > 0
  <2>1. /\ believed.at[t] <= port.used[t] /\ believed.since[t] <= believed.at[t]
        /\ believed.connected[t] => believed.at[t] > 0
        /\ believed.at[t] \in Nat /\ believed.since[t] \in Nat
    BY <1>1 DEF RelayInv, Beliefs
  <2>2. Updated(believed, q, e, t)
    BY <1>12
  <2>. QED  BY <2>1, <2>2, <1>6, <1>10 DEF Updated
<1>14. RelayInv(o, q)
  BY <1>12, <1>13 DEF RelayInv
<1>15. ASSUME NEW t \in Ingress!Side, o.socket[t] = 0, o.used[t] > 0, Gone(o, t) \notin Way(o)
       PROVE  ~q.connected[t] /\ q.at[t] = o.used[t] /\ Joined(o, t) \notin Way(o)
  <2>1. EndTold(port, believed, t) /\ Updated(believed, q, e, t) /\ believed.at[t] <= port.used[t] /\ believed.at[t] \in Nat
    BY <1>1, <1>12 DEF RelayInv, Beliefs
  <2>2. CASE e = Gone(port, t)
    <3>1. e.kind = "gone" /\ e.side = t /\ e.at = port.used[t]
      BY <2>2, <1>1, NamesAre
    <3>2. ~q.connected[t] /\ q.at[t] = o.used[t]
      BY <2>1, <3>1, <1>6, <1>10 DEF Updated
    <3>3. Joined(port, t) \notin ToSet(port.queue)
      BY <2>2, <1>1, <1>7 DEF PortInv, InOrder
    <3>4. Joined(port, t) \notin ToSet(port.pending)
      BY <1>1, NamesAre DEF PortInv
    <3>. QED  BY <3>2, <3>3, <3>4, <1>7, <1>8
  <2>3. CASE e # Gone(port, t)
    <3>1. ~believed.connected[t] /\ believed.at[t] = port.used[t] /\ Joined(port, t) \notin Way(port)
      BY <2>1, <2>3, <1>6, <1>7, <1>8, <1>15 DEF EndTold
    <3>2. e.kind = "connected" /\ e.side = t => e.at # port.used[t]
      <4> SUFFICES ASSUME e.kind = "connected", e.side = t, e.at = port.used[t] PROVE FALSE
        OBVIOUS
      <4>1. e = Joined(port, t)
        BY <1>7 DEF Events, Joined, Ingress!Event
      <4>. QED  BY <4>1, <3>1, <1>7
    <3>3. ~q.connected[t] /\ q.at[t] = port.used[t]
      BY <2>1, <3>1, <3>2, <1>10 DEF Updated
    <3>. QED  BY <3>1, <3>3, <1>6, <1>7, <1>8
  <2>. QED  BY <2>2, <2>3
<1>16. \A t \in Ingress!Side : EndTold(o, q, t)
  BY <1>15 DEF EndTold
<1>17. o.closed => \A t \in Ingress!Side : o.socket[t] = 0
  BY <1>6 DEF IngressInv
<1>. QED  BY <1>2, <1>3, <1>9, <1>14, <1>16, <1>17 DEF IngressInv

-----------------------------------------------------------------------------
LEMMA IngressInit == Ingress!Init => IngressInv
<1> SUFFICES ASSUME Ingress!Init PROVE IngressInv
  OBVIOUS
<1>1. Ingress!NoEvent \in Events
  BY DEF Ingress!NoEvent, Events, Kinds, Ingress!Side
<1>2. <<>> \in Seq(Events) /\ <<>> \in Seq(Ingress!Side)
  OBVIOUS
<1>3. port \in Port
  BY <1>1, <1>2 DEF Ingress!Init, Port
<1>4. /\ port.queue = <<>> /\ port.pending = <<>> /\ port.reader = "idle" /\ ~port.closed
      /\ \A s \in Ingress!Side : port.socket[s] = 0 /\ port.used[s] = 0
  BY DEF Ingress!Init
<1>5. Way(port) = {} /\ ToSet(port.pending) = {} /\ \A s \in Ingress!Side : InOrder(port, s)
  BY <1>4 DEF Way, Held, ToSet, InOrder, Behind
<1>6. PortInv(port)
  BY <1>3, <1>4, <1>5 DEF PortInv
<1>7. RelayInv(port, believed)
  BY <1>4 DEF Ingress!Init, RelayInv, Beliefs
<1>. QED  BY <1>4, <1>6, <1>7 DEF IngressInv, EndTold

LEMMA LossFollows == IngressInv => Ingress!LossIsOnTheWay
<1> SUFFICES ASSUME IngressInv, NEW s \in Ingress!Side, port.socket[s] = 0, believed.connected[s]
             PROVE  \E e \in Ingress!OnTheWay : e.side = s /\ e.kind = "gone" /\ e.at >= believed.at[s] /\ e.at >= believed.since[s]
  BY DEF Ingress!LossIsOnTheWay, Ingress!Terminal, IngressInv, RelayInv
<1>1. port \in Port /\ Ingress!OnTheWay = Way(port)
  BY IngressHelpers DEF IngressInv, PortInv, Ingress!OnTheWay, Way, Held
<1>2. /\ believed.at[s] <= port.used[s] /\ believed.since[s] <= believed.at[s] /\ believed.at[s] > 0
      /\ believed.at[s] \in Nat /\ believed.since[s] \in Nat /\ port.used[s] \in Nat
  BY <1>1 DEF IngressInv, RelayInv, Beliefs, Port
<1>3. Gone(port, s) \in Way(port)
  BY <1>2 DEF IngressInv, EndTold
<1>. QED  BY <1>1, <1>2, <1>3, NamesAre

\* No eviction, refusal or reordering loses the news that a participant left:
\* while the relay believes a closed socket to be connected, its end is queued,
\* held back or in the relay's hands (src/adapters/media/browser-websocket.ts,
\* enqueueTerminal; src/core/relay.ts, the participant events).
THEOREM LossIsKept == Ingress!Spec => []LossIsOnTheWay
<1>1. IngressInv /\ [Ingress!Next]_Ingress!vars => IngressInv'
  <2> SUFFICES ASSUME IngressInv, [Ingress!Next]_Ingress!vars PROVE IngressInv'
    OBVIOUS
  <2>1. CASE UNCHANGED Ingress!vars
    BY <2>1 DEF Ingress!vars, IngressInv
  <2>2. ASSUME NEW s \in Ingress!Side, Ingress!Attach(s) PROVE IngressInv'
    BY <2>2, AttachInv
  <2>3. ASSUME NEW s \in Ingress!Side, Ingress!Detach(s) PROVE IngressInv'
    BY <2>3, DetachInv
  <2>4. ASSUME NEW s \in Ingress!Side, NEW k \in Controls, Ingress!Receive(k, s) PROVE IngressInv'
    BY <2>4, ReceiveInv
  <2>5. CASE Ingress!CloseSession
    BY <2>5, CloseSessionInv
  <2>6. CASE Ingress!Pull
    BY <2>6, PullInv
  <2>7. CASE Ingress!Handle
    BY <2>7, HandleInv
  <2>. QED  BY <2>1, <2>2, <2>3, <2>4, <2>5, <2>6, <2>7 DEF Ingress!Next
<1>2. IngressInv => LossIsOnTheWay
  BY LossFollows DEF LossIsOnTheWay
<1>. QED  BY <1>1, <1>2, IngressInit, PTL DEF Ingress!Spec

-----------------------------------------------------------------------------
(***************************************************************************)
(* The transcript (OperatorTranscript).                                    *)
(***************************************************************************)
Line == [rev : Transcript!Revs \cup {-1}, final : BOOLEAN, validated : BOOLEAN, played : BOOLEAN, cut : BOOLEAN]
Said == [gen : Transcript!Gens, validated : SUBSET Transcript!Marks, played : SUBSET Transcript!Marks, recent : SUBSET Transcript!Marks]

TypeInv ==
  /\ gen \in Transcript!Gens \cup {-1}
  /\ line \in [Transcript!Keys -> Line]
  /\ pendingValidation \in Seq(Transcript!Marks) /\ pendingPlayed \in Seq(Transcript!Marks)
  /\ said \in Said /\ IsFiniteSet(said.recent)

\* What waits was said, and is kept once.
WaitInv ==
  /\ ToSet(pendingValidation) \subseteq said.validated
  /\ said.recent \subseteq said.played
  /\ ToSet(pendingPlayed) \subseteq said.recent /\ Injective(pendingPlayed)

Played(m) == line[Transcript!KeyOf(m)].rev = Transcript!RevOf(m) => line[Transcript!KeyOf(m)].played
\* A play finds its text later, or its text never comes.
Awaited(m) ==
  \/ m \in ToSet(pendingPlayed)
  \/ line[Transcript!KeyOf(m)].rev >= Transcript!RevOf(m) \/ line[Transcript!KeyOf(m)].final
  \/ m[1] < said.gen

MarkInv ==
  /\ \A m \in Transcript!Marks : line[Transcript!KeyOf(m)].rev = Transcript!RevOf(m) /\ line[Transcript!KeyOf(m)].played => m \in said.played
  /\ \A k \in Transcript!Keys : line[k].validated =>
        \E m \in said.validated : Transcript!KeyOf(m) = k /\ Transcript!RevOf(m) >= line[k].rev
  /\ \A k \in Transcript!Keys : k[1] < said.gen /\ line[k].rev >= 0 => line[k].cut /\ line[k].final
  /\ Cardinality(said.recent) <= MaxPending => \A m \in said.recent : Played(m) /\ Awaited(m)
  /\ \A k \in Transcript!Keys : line[k].rev = -1 => line[k] = Transcript!NoLine

TranscriptInv == TypeInv /\ WaitInv /\ MarkInv

LEMMA MarkParts ==
  ASSUME NEW m \in Transcript!Marks
  PROVE  /\ Transcript!KeyOf(m) \in Transcript!Keys /\ Transcript!RevOf(m) \in Transcript!Revs /\ m[1] \in Transcript!Gens
         /\ m = <<Transcript!KeyOf(m)[1], Transcript!KeyOf(m)[2], Transcript!RevOf(m)>> /\ Transcript!KeyOf(m)[1] = m[1]
BY DEF Transcript!Marks, Transcript!Keys, Transcript!KeyOf, Transcript!RevOf

LEMMA KeyParts ==
  ASSUME NEW k \in Transcript!Keys, NEW r \in Transcript!Revs
  PROVE  /\ Append(k, r) = <<k[1], k[2], r>> /\ Append(k, r) \in Transcript!Marks
         /\ Transcript!KeyOf(Append(k, r)) = k /\ Transcript!RevOf(Append(k, r)) = r
<1>1. PICK g \in Transcript!Gens, i \in Items : k = <<g, i>>
  BY DEF Transcript!Keys
<1>2. Append(<<g, i>>, r) = <<g, i, r>>
  <2>. DEFINE S == {g, i, r}
  <2>1. <<g, i>> \in Seq(S) /\ <<g, i, r>> \in Seq(S)
    OBVIOUS
  <2>2. PICK l : l = Append(<<g, i>>, r)
    OBVIOUS
  <2>3. l \in Seq(S) /\ Len(l) = 3 /\ l[1] = g /\ l[2] = i /\ l[3] = r
    BY <2>1, <2>2, AppendProperties
  <2>4. l = <<g, i, r>>
    BY <2>1, <2>3, SeqEqual
  <2>. QED  BY <2>2, <2>4
<1>. QED  BY <1>1, <1>2 DEF Transcript!Marks, Transcript!KeyOf, Transcript!RevOf

LEMMA SameMark ==
  ASSUME NEW m \in Transcript!Marks, NEW n \in Transcript!Marks, Transcript!KeyOf(m) = Transcript!KeyOf(n), Transcript!RevOf(m) = Transcript!RevOf(n)
  PROVE  m = n
BY MarkParts

LEMMA TranscriptInvHolds ==
  ASSUME TranscriptInv
  PROVE  Transcript!TypeOK /\ Transcript!PlayedIsTrue /\ Transcript!ValidatedIsTrue /\ Transcript!PlayedIsShown /\ Transcript!CutIsMarked
<1>1. Transcript!TypeOK
  BY DEF TranscriptInv, TypeInv, Transcript!TypeOK, Line
<1>2. \A k \in Transcript!Keys : line[k] \in Line
  BY DEF TranscriptInv, TypeInv
<1>3. Transcript!PlayedIsTrue
  <2> SUFFICES ASSUME NEW k \in Transcript!Keys, line[k].played PROVE Transcript!Shown(k) \in said.played
    BY DEF Transcript!PlayedIsTrue
  <2>1. line[k].rev \in Transcript!Revs
    <3>1. line[k].rev # -1
      BY DEF TranscriptInv, MarkInv, Transcript!NoLine
    <3>. QED  BY <3>1, <1>2 DEF Line
  <2>. QED  BY <2>1, KeyParts DEF TranscriptInv, MarkInv, Transcript!Shown
<1>4. Transcript!PlayedIsShown
  <2> SUFFICES ASSUME Cardinality(said.recent) <= MaxPending, NEW k \in Transcript!Keys,
                      line[k].rev >= 0, Transcript!Shown(k) \in said.recent
               PROVE  line[k].played
    BY TranscriptHelpers DEF Transcript!PlayedIsShown
  <2>1. line[k].rev \in Transcript!Revs
    BY <1>2 DEF Line, Transcript!Revs
  <2>. QED  BY <2>1, KeyParts DEF TranscriptInv, MarkInv, Transcript!Shown, Played
<1>. QED  BY <1>1, <1>3, <1>4 DEF TranscriptInv, MarkInv, Transcript!ValidatedIsTrue, Transcript!CutIsMarked

LEMMA InitInv == Transcript!Init => TranscriptInv
<1> SUFFICES ASSUME Transcript!Init PROVE TranscriptInv
  OBVIOUS
<1>1. Transcript!NoLine \in Line
  BY DEF Transcript!NoLine, Line
<1>2. \A k \in Transcript!Keys : line[k] = Transcript!NoLine
  BY DEF Transcript!Init
<1>3. TypeInv
  BY <1>1, FS_EmptySet, BrowserAssumption DEF Transcript!Init, TypeInv, Said, Transcript!Gens, Transcript!TranscriptAssumption
<1>4. WaitInv
  BY DEF Transcript!Init, WaitInv, Injective, ToSet
<1>5. MarkInv
  BY <1>2, MarkParts DEF Transcript!Init, MarkInv, Transcript!NoLine, Transcript!Revs
<1>. QED  BY <1>3, <1>4, <1>5 DEF TranscriptInv

LEMMA RetainIs ==
  ASSUME NEW marks \in Seq(Transcript!Marks), NEW m \in Transcript!Marks
  PROVE  /\ Transcript!Retain(marks, m) \in Seq(Transcript!Marks)
         /\ ToSet(Transcript!Retain(marks, m)) \subseteq ToSet(marks) \cup {m}
         /\ Injective(marks) => Injective(Transcript!Retain(marks, m))
         /\ \A T :
              /\ Injective(marks) /\ IsFiniteSet(T) /\ ToSet(marks) \cup {m} \subseteq T
              /\ Cardinality(T) <= MaxPending
              => ToSet(Transcript!Retain(marks, m)) = ToSet(marks) \cup {m}
<1>1. PICK w \in Seq(Transcript!Marks) : w = Without(marks, {m})
  BY WithoutIs
<1>2. ToSet(w) = ToSet(marks) \ {m} /\ (Injective(marks) => Injective(w))
  BY <1>1, WithoutIs
<1>3. PICK all : all = Append(w, m)
  OBVIOUS
<1>4. /\ all \in Seq(Transcript!Marks) /\ ToSet(all) = ToSet(marks) \cup {m} /\ all # <<>>
      /\ Injective(marks) => Injective(all)
  <2>1. m \notin ToSet(w)
    BY <1>2
  <2>2. all \in Seq(Transcript!Marks) /\ ToSet(all) = ToSet(w) \cup {m} /\ (Injective(w) => Injective(all))
    BY <2>1, <1>3, AppendIs
  <2>3. all # <<>>
    BY <2>2 DEF ToSet
  <2>. QED  BY <2>2, <2>3, <1>2
<1>5. PICK tail : tail = Tail(all)
  OBVIOUS
<1>6. tail \in Seq(Transcript!Marks) /\ ToSet(tail) \subseteq ToSet(all) /\ (Injective(all) => Injective(tail))
  BY <1>4, <1>5, TailIs
<1>7. Transcript!Retain(marks, m) = IF Len(all) > MaxPending THEN tail ELSE all
  BY <1>1, <1>3, <1>5, TranscriptHelpers DEF Transcript!Retain
<1>8. ASSUME NEW T, Injective(marks), IsFiniteSet(T), ToSet(marks) \cup {m} \subseteq T,
             Cardinality(T) <= MaxPending
      PROVE  Transcript!Retain(marks, m) = all
  <2>1. Len(all) <= Cardinality(T) /\ Len(all) \in Nat /\ Cardinality(T) \in Nat
    BY <1>4, <1>8, InjectiveIsShort, FS_CardinalityType, LenProperties
  <2>. QED  BY <2>1, <1>7, <1>8, BrowserAssumption DEF Transcript!TranscriptAssumption
<1>. QED
  <2>1. Transcript!Retain(marks, m) \in {all, tail}
    BY <1>7
  <2>. QED  BY <2>1, <1>4, <1>6, <1>8

-----------------------------------------------------------------------------
LEMMA NoLineIs == Transcript!NoLine \in Line /\ Transcript!NoLine.rev = -1 /\ ~Transcript!NoLine.played /\ ~Transcript!NoLine.validated
BY DEF Transcript!NoLine, Line

LEMMA ShowTextInv ==
  ASSUME TranscriptInv, NEW m \in Transcript!Marks, NEW final \in BOOLEAN, Transcript!ShowText(m, final)
  PROVE  TranscriptInv'
<1>. USE DEF TranscriptInv
<1>0. CASE UNCHANGED <<gen, line, pendingValidation, pendingPlayed, said>>
  BY <1>0 DEF TypeInv, WaitInv, MarkInv, Played, Awaited
<1>1. CASE m[1] >= gen /\ UNCHANGED <<line, pendingValidation, pendingPlayed, said>> /\ gen' = m[1]
  BY <1>1, MarkParts DEF TypeInv, WaitInv, MarkInv, Played, Awaited
<1>. DEFINE k == Transcript!KeyOf(m)  l == line[k]
<1>2. CASE ~(l.final \/ Transcript!RevOf(m) <= l.rev) /\ m[1] >= gen
  <2>1. /\ k \in Transcript!Keys /\ Transcript!RevOf(m) \in Transcript!Revs /\ m[1] \in Transcript!Gens /\ l \in Line /\ l.rev \in Int /\ Transcript!RevOf(m) \in Nat
    BY MarkParts, BrowserAssumption DEF TypeInv, Line, Transcript!Revs
  <2>2. m[1] = said.gen /\ gen' = m[1] /\ said' = said /\ k[1] = said.gen
    <3>1. m[1] \in Int /\ gen \in Int /\ ~(m[1] < gen)
      BY <1>2, <2>1 DEF TypeInv, Transcript!Gens
    <3>. QED  BY <3>1, MarkParts DEF Transcript!ShowText
  <2>3. PICK n : n = [Transcript!Revised(l, m, final) EXCEPT !.validated = @ \/ Transcript!Validation(m) # {},
                                                  !.played = @ \/ Transcript!Contains(pendingPlayed, m)]
    OBVIOUS
  <2>4. /\ n \in Line /\ n.rev = Transcript!RevOf(m) /\ n.final = final
        /\ n.validated = (Transcript!Validation(m) # {}) /\ n.played = Transcript!Contains(pendingPlayed, m)
    <3>1. PICK v \in BOOLEAN, c \in BOOLEAN : v = (Transcript!Validation(m) # {}) /\ c = Transcript!Contains(pendingPlayed, m)
      BY DEF Transcript!Contains
    <3>2. n = [rev |-> Transcript!RevOf(m), final |-> final, validated |-> FALSE \/ v,
               played |-> FALSE \/ c, cut |-> FALSE]
      BY <2>3, <3>1 DEF Transcript!Revised, Transcript!NoLine
    <3>. QED  BY <3>1, <3>2, <2>1 DEF Line
  <2>5. /\ line' = [line EXCEPT ![k] = n]
        /\ pendingValidation' = Without(pendingValidation, Transcript!Validation(m))
        /\ pendingPlayed' = Without(pendingPlayed,
               {o \in ToSet(pendingPlayed) : Transcript!KeyOf(o) = k /\ Transcript!RevOf(o) <= Transcript!RevOf(m)})
    <3>1. ~(m[1] < gen)
      BY <2>1, <1>2 DEF TypeInv, Transcript!Gens
    <3>. QED  BY <3>1, <1>2, <2>3, TranscriptHelpers DEF Transcript!ShowText
  <2>6. /\ line' \in [Transcript!Keys -> Line] /\ line'[k] = n
        /\ \A h \in Transcript!Keys : h # k => line'[h] = line[h]
    BY <2>1, <2>4, <2>5 DEF TypeInv
  <2>7. /\ pendingValidation' \in Seq(Transcript!Marks) /\ ToSet(pendingValidation') \subseteq ToSet(pendingValidation)
        /\ pendingPlayed' \in Seq(Transcript!Marks) /\ Injective(pendingPlayed')
        /\ ToSet(pendingPlayed') = ToSet(pendingPlayed)
              \ {o \in ToSet(pendingPlayed) : Transcript!KeyOf(o) = k /\ Transcript!RevOf(o) <= Transcript!RevOf(m)}
    BY <2>5, WithoutIs DEF TypeInv, WaitInv
  <2>. HIDE DEF k, l
  <2>8. TypeInv'
    BY <2>1, <2>2, <2>6, <2>7 DEF TypeInv
  <2>9. WaitInv'
    BY <2>2, <2>7 DEF WaitInv
  <2>10. Transcript!Contains(pendingPlayed, m) <=> m \in ToSet(pendingPlayed)
    <3>1. DOMAIN pendingPlayed = 1 .. Len(pendingPlayed)
      BY LenProperties DEF TypeInv
    <3>. QED  BY <3>1 DEF Transcript!Contains, ToSet
  <2>11. \A o \in Transcript!Marks : Transcript!KeyOf(o) \in Transcript!Keys /\ Transcript!RevOf(o) \in Nat
    BY MarkParts, BrowserAssumption DEF Transcript!Revs
  <2>12. ASSUME NEW o \in Transcript!Marks, line'[Transcript!KeyOf(o)].rev = Transcript!RevOf(o), line'[Transcript!KeyOf(o)].played
         PROVE  o \in said.played
    <3>1. CASE Transcript!KeyOf(o) = k
      <4>1. o = m
        BY <3>1, <2>12, <2>4, <2>6, SameMark DEF k
      <4>. QED  BY <4>1, <2>12, <2>4, <2>6, <2>10 DEF WaitInv, k
    <3>2. CASE Transcript!KeyOf(o) # k
      BY <3>2, <2>6, <2>11, <2>12 DEF MarkInv
    <3>. QED  BY <3>1, <3>2
  <2>13. ASSUME NEW h \in Transcript!Keys, line'[h].validated
         PROVE  \E o \in said.validated : Transcript!KeyOf(o) = h /\ Transcript!RevOf(o) >= line'[h].rev
    <3>1. CASE h = k
      <4>1. PICK o \in ToSet(pendingValidation) : Transcript!KeyOf(o) = k /\ Transcript!RevOf(o) >= Transcript!RevOf(m)
        BY <3>1, <2>13, <2>4, <2>6, TranscriptHelpers DEF Transcript!Validation, k
      <4>. QED  BY <4>1, <3>1, <2>4, <2>6 DEF WaitInv
    <3>2. CASE h # k
      BY <3>2, <2>6, <2>13 DEF MarkInv
    <3>. QED  BY <3>1, <3>2
  <2>14. \A h \in Transcript!Keys : h[1] < said.gen /\ line'[h].rev >= 0 => line'[h].cut /\ line'[h].final
    <3>1. ~(k[1] < said.gen)
      BY <2>2 DEF TypeInv, Said, Transcript!Gens
    <3>. QED  BY <3>1, <2>6 DEF MarkInv
  <2>15. ASSUME Cardinality(said.recent) <= MaxPending, NEW o \in said.recent
         PROVE  Played(o)' /\ Awaited(o)'
    <3>1. o \in Transcript!Marks /\ Played(o) /\ Awaited(o)
      BY <2>15 DEF MarkInv, TypeInv, Said
    <3>2. CASE Transcript!KeyOf(o) # k
      BY <3>1, <3>2, <2>2, <2>6, <2>7, <2>11 DEF Played, Awaited
    <3>3. CASE Transcript!KeyOf(o) = k
      <4>1. ~(l.rev >= Transcript!RevOf(m)) /\ ~l.final
        BY <1>2, <2>1
      <4>2. Transcript!RevOf(o) = Transcript!RevOf(m) => o \in ToSet(pendingPlayed)
        <5>1. ~(o[1] < said.gen)
          BY <3>1, <3>3, <2>2, MarkParts DEF TypeInv, Said, Transcript!Gens
        <5>. QED  BY <4>1, <5>1, <3>1, <3>3 DEF Awaited, l
      <4>3. Played(o)'
        <5>1. Transcript!RevOf(o) = Transcript!RevOf(m) => o = m
          BY <3>1, <3>3, SameMark DEF k
        <5>2. Transcript!RevOf(o) = Transcript!RevOf(m) => n.played
          BY <5>1, <4>2, <2>4, <2>10
        <5>. QED  BY <5>2, <3>3, <2>4, <2>6 DEF Played
      <4>4. Awaited(o)'
        <5>1. CASE Transcript!RevOf(o) <= Transcript!RevOf(m)
          BY <5>1, <3>3, <2>4, <2>6 DEF Awaited
        <5>2. CASE ~(Transcript!RevOf(o) <= Transcript!RevOf(m))
          <6>1. o \in ToSet(pendingPlayed)
            <7>1. ~(l.rev >= Transcript!RevOf(o)) /\ ~l.final
              BY <5>2, <1>2, <2>1, <2>11, <3>1
            <7>2. ~(o[1] < said.gen)
              BY <3>1, <3>3, <2>2, MarkParts DEF TypeInv, Said, Transcript!Gens
            <7>. QED  BY <3>1, <3>3, <7>1, <7>2 DEF Awaited, l
          <6>. QED  BY <6>1, <5>2, <2>7 DEF Awaited
        <5>. QED  BY <5>1, <5>2
      <4>. QED  BY <4>3, <4>4
    <3>. QED  BY <3>2, <3>3
  <2>16. \A h \in Transcript!Keys : line'[h].rev = -1 => line'[h] = Transcript!NoLine
    BY <2>1, <2>4, <2>6 DEF MarkInv
  <2>17. MarkInv'
    BY <2>2, <2>12, <2>13, <2>14, <2>15, <2>16 DEF MarkInv
  <2>. QED  BY <2>8, <2>9, <2>17
<1>. QED
  <2>1. m[1] \in Int /\ gen \in Int
    BY MarkParts DEF TypeInv, Transcript!Gens
  <2>. QED  BY <2>1, <1>0, <1>1, <1>2 DEF Transcript!ShowText

\* A mark that comes before its text waits, or says of the line that is there.
LEMMA ValidateInv ==
  ASSUME TranscriptInv, NEW m \in Transcript!Marks, Transcript!Validate(m)
  PROVE  TranscriptInv'
<1>. USE DEF TranscriptInv
<1>. DEFINE k == Transcript!KeyOf(m)  l == line[k]
<1>1. /\ k \in Transcript!Keys /\ Transcript!RevOf(m) \in Nat /\ l \in Line /\ gen' = gen /\ pendingPlayed' = pendingPlayed
      /\ said' = [said EXCEPT !.validated = @ \cup {m}]
  BY MarkParts, BrowserAssumption DEF TypeInv, Transcript!Validate, Transcript!Revs
<1>2. /\ said' \in Said /\ said'.gen = said.gen /\ said'.played = said.played
      /\ said'.recent = said.recent /\ said'.validated = said.validated \cup {m}
  BY <1>1 DEF TypeInv, Said
<1>3. /\ line' \in [Transcript!Keys -> Line]
      /\ \A h \in Transcript!Keys :
           /\ line'[h].rev = line[h].rev /\ line'[h].final = line[h].final
           /\ line'[h].played = line[h].played /\ line'[h].cut = line[h].cut
           /\ line'[h].validated =>
                line[h].validated \/ (h = k /\ line[h].rev <= Transcript!RevOf(m))
      /\ \A h \in Transcript!Keys : line'[h].rev = -1 => line'[h] = line[h]
      /\ pendingValidation' \in Seq(Transcript!Marks)
      /\ ToSet(pendingValidation') \subseteq ToSet(pendingValidation) \cup {m}
  <2>1. CASE l.rev >= 0 /\ l.rev <= Transcript!RevOf(m)
    <3>1. line' = [line EXCEPT ![k].validated = TRUE] /\ pendingValidation' = Without(pendingValidation, {m})
      BY <2>1, TranscriptHelpers DEF Transcript!Validate
    <3>2. pendingValidation' \in Seq(Transcript!Marks) /\ ToSet(pendingValidation') \subseteq ToSet(pendingValidation)
      BY <3>1, WithoutIs DEF TypeInv
    <3>3. PICK n \in Line : n = [l EXCEPT !.validated = TRUE]
      BY <1>1 DEF Line
    <3>4. /\ n.rev = l.rev /\ n.final = l.final /\ n.played = l.played /\ n.cut = l.cut /\ n.rev # -1
      BY <1>1, <2>1, <3>3 DEF Line
    <3>5. line' = [line EXCEPT ![k] = n]
      BY <3>1, <3>3
    <3>6. line' \in [Transcript!Keys -> Line] /\ \A h \in Transcript!Keys : line'[h] = IF h = k THEN n ELSE line[h]
      BY <1>1, <3>5 DEF TypeInv
    <3>. HIDE DEF k, l
    <3>7. \A h \in Transcript!Keys : h # k => line'[h] = line[h]
      BY <3>6
    <3>8. line'[k] = n /\ l = line[k]
      BY <1>1, <3>6 DEF l
    <3>9. ASSUME NEW h \in Transcript!Keys
          PROVE  /\ line'[h].rev = line[h].rev /\ line'[h].final = line[h].final
                 /\ line'[h].played = line[h].played /\ line'[h].cut = line[h].cut
                 /\ line'[h].validated => line[h].validated \/ (h = k /\ line[h].rev <= Transcript!RevOf(m))
                 /\ line'[h].rev = -1 => line'[h] = line[h]
      <4>1. CASE h = k
        BY <4>1, <2>1, <3>4, <3>8
      <4>2. CASE h # k
        BY <4>2, <3>7
      <4>. QED  BY <4>1, <4>2
    <3>. QED  BY <3>2, <3>6, <3>9
  <2>2. CASE ~(l.rev >= 0 /\ l.rev <= Transcript!RevOf(m))
    <3>1. line' = line /\ pendingValidation' = Transcript!Retain(pendingValidation, m)
      BY <2>2 DEF Transcript!Validate
    <3>2. /\ pendingValidation' \in Seq(Transcript!Marks)
          /\ ToSet(pendingValidation') \subseteq ToSet(pendingValidation) \cup {m}
      BY <3>1, RetainIs DEF TypeInv
    <3>. HIDE DEF k, l
    <3>. QED  BY <3>1, <3>2 DEF TypeInv
  <2>. QED  BY <2>1, <2>2
<1>. HIDE DEF k, l
<1>4. TypeInv'
  BY <1>1, <1>2, <1>3 DEF TypeInv
<1>5. WaitInv'
  BY <1>1, <1>2, <1>3 DEF WaitInv
<1>6. \A o \in Transcript!Marks : Transcript!KeyOf(o) \in Transcript!Keys
  BY MarkParts
<1>7. ASSUME NEW h \in Transcript!Keys, line'[h].validated
      PROVE  \E o \in said'.validated : Transcript!KeyOf(o) = h /\ Transcript!RevOf(o) >= line'[h].rev
  <2>1. CASE line[h].validated
    BY <2>1, <1>2, <1>3 DEF MarkInv
  <2>2. CASE h = k /\ line[h].rev <= Transcript!RevOf(m)
    BY <2>2, <1>1, <1>2, <1>3 DEF k, TypeInv, Line, Transcript!Revs
  <2>. QED  BY <1>3, <1>7, <2>1, <2>2
<1>8. \A o \in Transcript!Marks : Played(o)' = Played(o) /\ Awaited(o)' = Awaited(o)
  BY <1>1, <1>2, <1>3, <1>6 DEF Played, Awaited
<1>9. MarkInv'
  <2>1. \A o \in Transcript!Marks : line'[Transcript!KeyOf(o)].rev = Transcript!RevOf(o) /\ line'[Transcript!KeyOf(o)].played => o \in said'.played
    BY <1>2, <1>3, <1>6 DEF MarkInv
  <2>2. \A h \in Transcript!Keys : h[1] < said'.gen /\ line'[h].rev >= 0 => line'[h].cut /\ line'[h].final
    BY <1>2, <1>3 DEF MarkInv
  <2>3. Cardinality(said'.recent) <= MaxPending => \A o \in said'.recent : Played(o)' /\ Awaited(o)'
    BY <1>2, <1>8 DEF MarkInv, TypeInv, Said
  <2>4. \A h \in Transcript!Keys : line'[h].rev = -1 => line'[h] = Transcript!NoLine
    BY <1>3 DEF MarkInv
  <2>. QED  BY <1>7, <2>1, <2>2, <2>3, <2>4 DEF MarkInv
<1>. QED  BY <1>4, <1>5, <1>9

LEMMA PlayInv ==
  ASSUME TranscriptInv, NEW m \in Transcript!Marks, Transcript!Play(m)
  PROVE  TranscriptInv'
<1>. USE DEF TranscriptInv
<1>. DEFINE k == Transcript!KeyOf(m)  l == line[k]
<1>1. /\ k \in Transcript!Keys /\ Transcript!RevOf(m) \in Nat /\ l \in Line /\ gen' = gen
      /\ pendingValidation' = pendingValidation
      /\ said' = [said EXCEPT !.played = @ \cup {m}, !.recent = @ \cup {m}]
  BY MarkParts, BrowserAssumption DEF TypeInv, Transcript!Play, Transcript!Revs
<1>2. /\ said' \in Said /\ said'.gen = said.gen /\ said'.played = said.played \cup {m}
      /\ said'.recent = said.recent \cup {m} /\ said'.validated = said.validated
  BY <1>1 DEF TypeInv, Said
<1>3. /\ IsFiniteSet(said'.recent) /\ Cardinality(said.recent) <= Cardinality(said'.recent)
      /\ Cardinality(said.recent) \in Nat /\ Cardinality(said'.recent) \in Nat
  <2>1. IsFiniteSet(said'.recent)
    <3>1. IsFiniteSet(said.recent)
      BY DEF TypeInv
    <3>2. IsFiniteSet(said.recent \cup {m})
      BY <3>1, FS_AddElement
    <3>. QED  BY <3>2, <1>2
  <2>2. said.recent \in SUBSET said'.recent
    BY <1>2
  <2>3. Cardinality(said.recent) <= Cardinality(said'.recent)
    BY <2>1, <2>2, FS_Subset
  <2>. QED  BY <2>1, <2>3, FS_CardinalityType DEF TypeInv
<1>4. \A o \in Transcript!Marks : Transcript!KeyOf(o) \in Transcript!Keys
  BY MarkParts
<1>5. CASE l.rev = Transcript!RevOf(m)
  <2>1. line' = [line EXCEPT ![k].played = TRUE] /\ pendingPlayed' = pendingPlayed
    BY <1>5 DEF Transcript!Play
  <2>2. PICK n \in Line : n = [l EXCEPT !.played = TRUE]
    BY <1>1 DEF Line
  <2>3. /\ n.rev = l.rev /\ n.final = l.final /\ n.validated = l.validated /\ n.cut = l.cut /\ n.played
        /\ n.rev # -1
    BY <1>1, <1>5, <2>2 DEF Line
  <2>4. line' = [line EXCEPT ![k] = n]
    BY <2>1, <2>2
  <2>5. line' \in [Transcript!Keys -> Line] /\ line'[k] = n /\ \A h \in Transcript!Keys : h # k => line'[h] = line[h]
    BY <1>1, <2>4 DEF TypeInv
  <2>. HIDE DEF k
  <2>6. \A h \in Transcript!Keys :
            /\ line'[h].rev = line[h].rev /\ line'[h].final = line[h].final
            /\ line'[h].validated = line[h].validated /\ line'[h].cut = line[h].cut
            /\ line[h].played => line'[h].played
    BY <2>3, <2>5
  <2>7. TypeInv' /\ WaitInv'
    BY <1>1, <1>2, <1>3, <2>1, <2>5 DEF TypeInv, WaitInv
  <2>8. ASSUME NEW o \in Transcript!Marks, line'[Transcript!KeyOf(o)].rev = Transcript!RevOf(o), line'[Transcript!KeyOf(o)].played
        PROVE  o \in said'.played
    <3>1. CASE Transcript!KeyOf(o) = k
      BY <3>1, <2>8, <2>6, <1>1, <1>2, <1>4, <1>5, SameMark DEF k
    <3>2. CASE Transcript!KeyOf(o) # k
      BY <3>2, <2>8, <2>5, <1>2, <1>4 DEF MarkInv
    <3>. QED  BY <3>1, <3>2
  <2>9. ASSUME Cardinality(said'.recent) <= MaxPending, NEW o \in said'.recent
        PROVE  Played(o)' /\ Awaited(o)'
    <3>1. CASE o = m
      BY <3>1, <2>3, <2>5, <1>1, <1>5 DEF Played, Awaited, k
    <3>2. CASE o # m
      <4>1. o \in Transcript!Marks /\ Played(o) /\ Awaited(o)
        BY <3>2, <2>9, <1>2, <1>3, BrowserAssumption DEF MarkInv, TypeInv, Said, Transcript!TranscriptAssumption
      <4>. QED  BY <4>1, <2>1, <2>6, <1>2, <1>4 DEF Played, Awaited
    <3>. QED  BY <3>1, <3>2
  <2>10. \A h \in Transcript!Keys : line'[h].rev = -1 => line'[h] = Transcript!NoLine
    BY <2>3, <2>5 DEF MarkInv
  <2>11. /\ \A h \in Transcript!Keys : line'[h].validated =>
                \E o \in said'.validated : Transcript!KeyOf(o) = h /\ Transcript!RevOf(o) >= line'[h].rev
         /\ \A h \in Transcript!Keys : h[1] < said'.gen /\ line'[h].rev >= 0 => line'[h].cut /\ line'[h].final
    BY <1>2, <2>6 DEF MarkInv
  <2>12. MarkInv'
    BY <2>8, <2>9, <2>10, <2>11 DEF MarkInv
  <2>. QED  BY <2>7, <2>12
<1>6. CASE l.rev # Transcript!RevOf(m)
  <2>1. line' = line /\ pendingPlayed' = Transcript!Retain(pendingPlayed, m)
    BY <1>6 DEF Transcript!Play
  <2>2. /\ pendingPlayed' \in Seq(Transcript!Marks) /\ Injective(pendingPlayed')
        /\ ToSet(pendingPlayed') \subseteq ToSet(pendingPlayed) \cup {m}
    BY <2>1, RetainIs DEF TypeInv, WaitInv
  <2>3. Cardinality(said'.recent) <= MaxPending => ToSet(pendingPlayed') = ToSet(pendingPlayed) \cup {m}
    <3>1. ToSet(pendingPlayed) \cup {m} \subseteq said'.recent
      BY <1>2 DEF WaitInv
    <3>. QED  BY <3>1, <1>3, <2>1, RetainIs DEF TypeInv, WaitInv
  <2>4. TypeInv' /\ WaitInv'
    BY <1>1, <1>2, <1>3, <2>1, <2>2 DEF TypeInv, WaitInv
  <2>5. ASSUME Cardinality(said'.recent) <= MaxPending, NEW o \in said'.recent
        PROVE  Played(o)' /\ Awaited(o)'
    <3>1. CASE o = m
      BY <3>1, <2>1, <2>3, <2>5, <1>6 DEF Played, Awaited
    <3>2. CASE o # m
      <4>1. o \in Transcript!Marks /\ Played(o) /\ Awaited(o)
        BY <3>2, <2>5, <1>2, <1>3, BrowserAssumption DEF MarkInv, TypeInv, Said, Transcript!TranscriptAssumption
      <4>. QED  BY <4>1, <2>1, <2>3, <2>5, <1>2 DEF Played, Awaited
    <3>. QED  BY <3>1, <3>2
  <2>6. MarkInv'
    <3>1. \A o \in Transcript!Marks : line'[Transcript!KeyOf(o)].rev = Transcript!RevOf(o) /\ line'[Transcript!KeyOf(o)].played => o \in said'.played
      BY <1>2, <2>1 DEF MarkInv
    <3>2. /\ \A h \in Transcript!Keys : line'[h].validated =>
                \E o \in said'.validated : Transcript!KeyOf(o) = h /\ Transcript!RevOf(o) >= line'[h].rev
          /\ \A h \in Transcript!Keys : h[1] < said'.gen /\ line'[h].rev >= 0 => line'[h].cut /\ line'[h].final
          /\ \A h \in Transcript!Keys : line'[h].rev = -1 => line'[h] = Transcript!NoLine
      BY <1>2, <2>1 DEF MarkInv
    <3>. QED  BY <3>1, <3>2, <2>5 DEF MarkInv
  <2>. QED  BY <2>4, <2>6
<1>. QED  BY <1>5, <1>6

LEMMA CutInv ==
  ASSUME TranscriptInv, Transcript!Cut
  PROVE  TranscriptInv'
<1>. USE DEF TranscriptInv
<1>. DEFINE previous == said.gen
<1>1. /\ said' = [said EXCEPT !.gen = previous + 1] /\ gen' = previous + 1 /\ previous < MaxGen
      /\ line' = [k \in Transcript!Keys |-> Transcript!CutLine(k, line[k], previous)]
      /\ pendingValidation' = Without(pendingValidation, {o \in ToSet(pendingValidation) : o[1] = previous})
      /\ pendingPlayed' = Without(pendingPlayed, {o \in ToSet(pendingPlayed) : o[1] = previous})
  BY TranscriptHelpers DEF Transcript!Cut
<1>2. previous \in Nat /\ previous + 1 \in Transcript!Gens
  BY <1>1, BrowserAssumption DEF TypeInv, Said, Transcript!Gens, Transcript!TranscriptAssumption
<1>3. /\ said' \in Said /\ said'.gen = previous + 1 /\ said'.played = said.played
      /\ said'.recent = said.recent /\ said'.validated = said.validated
  BY <1>1, <1>2 DEF TypeInv, Said
<1>4. /\ pendingValidation' \in Seq(Transcript!Marks) /\ ToSet(pendingValidation') \subseteq ToSet(pendingValidation)
      /\ pendingPlayed' \in Seq(Transcript!Marks) /\ Injective(pendingPlayed')
      /\ ToSet(pendingPlayed') = ToSet(pendingPlayed) \ {o \in ToSet(pendingPlayed) : o[1] = previous}
  BY <1>1, WithoutIs DEF TypeInv, WaitInv
<1>5. ASSUME NEW k \in Transcript!Keys
      PROVE  /\ line'[k] \in Line
             /\
                \/ line'[k] = Transcript!NoLine /\ (line[k] # Transcript!NoLine => k[1] = previous)
                \/ /\ line'[k].rev = line[k].rev /\ line'[k].final = line[k].final
                   /\ line'[k].played = line[k].played /\ line'[k].validated = line[k].validated
                   /\ line[k].cut => line'[k].cut
                   /\ k[1] = previous => line'[k].cut /\ line'[k].final
                   /\ line[k].rev # -1
  <2>1. line[k] \in Line /\ line'[k] = Transcript!CutLine(k, line[k], previous)
    BY <1>1 DEF TypeInv
  <2>2. CASE k[1] = previous /\ line[k].rev >= 0 /\ line[k].final
    <3>1. line'[k] = [line[k] EXCEPT !.cut = TRUE]
      BY <2>1, <2>2 DEF Transcript!CutLine
    <3>2. PICK l \in Line : l = line[k]
      BY <2>1
    <3>3. PICK n \in Line : n = [l EXCEPT !.cut = TRUE]
      BY <3>2 DEF Line
    <3>4. /\ n.rev = l.rev /\ n.final = l.final /\ n.played = l.played
          /\ n.validated = l.validated /\ n.cut
      BY <3>2, <3>3 DEF Line
    <3>5. line'[k] = n
      BY <3>1, <3>2, <3>3
    <3>6. line[k].rev # -1 /\ l.rev = line[k].rev /\ line'[k].rev = line[k].rev
      BY <3>2, <3>4, <3>5, <2>2
    <3>7. /\ line'[k].final = line[k].final /\ line'[k].played = line[k].played
          /\ line'[k].validated = line[k].validated /\ line'[k].cut /\ line'[k] \in Line
      BY <3>2, <3>3, <3>4, <3>5
    <3>. QED  BY <3>6, <3>7, <2>2
  <2>3. CASE k[1] = previous /\ line[k].rev >= 0 /\ ~line[k].final
    <3>1. line'[k] = Transcript!NoLine
      BY <2>1, <2>3 DEF Transcript!CutLine
    <3>. QED  BY <3>1, <2>3, NoLineIs
  <2>4. CASE ~(k[1] = previous /\ line[k].rev >= 0)
    <3>1. line'[k] = line[k]
      BY <2>1, <2>4 DEF Transcript!CutLine
    <3>2. line[k].rev = -1 => line[k] = Transcript!NoLine
      BY DEF MarkInv
    <3>3. line[k].rev # -1 => line[k].rev >= 0
      BY <2>1, BrowserAssumption DEF Line, Transcript!Revs
    <3>. QED  BY <3>1, <3>2, <3>3, <2>1, <2>4
  <2>. QED  BY <2>1, <2>2, <2>3, <2>4
<1>6. line' \in [Transcript!Keys -> Line]
  <2>1. \A k \in Transcript!Keys : Transcript!CutLine(k, line[k], previous) \in Line
    BY <1>1, <1>5
  <2>. QED  BY <1>1, <2>1
<1>7. TypeInv' /\ WaitInv'
  BY <1>1, <1>2, <1>3, <1>4, <1>6 DEF TypeInv, WaitInv
<1>. HIDE DEF previous
<1>8. \A o \in Transcript!Marks : Transcript!KeyOf(o) \in Transcript!Keys /\ Transcript!RevOf(o) \in Nat /\ Transcript!KeyOf(o)[1] = o[1] /\ o[1] \in Nat
  BY MarkParts, BrowserAssumption DEF Transcript!Revs, Transcript!Gens
<1>9. \A o \in Transcript!Marks : line'[Transcript!KeyOf(o)].rev = Transcript!RevOf(o) /\ line'[Transcript!KeyOf(o)].played => o \in said'.played
  BY <1>3, <1>5, <1>8, NoLineIs DEF MarkInv
<1>10. \A k \in Transcript!Keys : line'[k].validated => \E o \in said'.validated : Transcript!KeyOf(o) = k /\ Transcript!RevOf(o) >= line'[k].rev
  BY <1>3, <1>5, NoLineIs DEF MarkInv
<1>11. ASSUME NEW k \in Transcript!Keys, k[1] < said'.gen, line'[k].rev >= 0 PROVE line'[k].cut /\ line'[k].final
  <2>1. k[1] \in Nat
    BY DEF Transcript!Keys, Transcript!Gens
  <2>2. k[1] = previous \/ k[1] < said.gen
    BY <2>1, <1>2, <1>3, <1>11 DEF previous
  <2>3. line'[k] # Transcript!NoLine
    BY <1>11, NoLineIs
  <2>. QED  BY <2>2, <2>3, <1>5, <1>11 DEF MarkInv
<1>12. ASSUME Cardinality(said'.recent) <= MaxPending, NEW o \in said'.recent
       PROVE  Played(o)' /\ Awaited(o)'
  <2>1. o \in Transcript!Marks /\ Played(o) /\ Awaited(o)
    BY <1>12, <1>3 DEF MarkInv, TypeInv, Said
  <2>2. Played(o)'
    BY <2>1, <1>5, <1>8, NoLineIs DEF Played
  <2>3. Awaited(o)'
    <3>1. CASE o[1] < said'.gen
      BY <3>1 DEF Awaited
    <3>2. CASE ~(o[1] < said'.gen)
      <4>1. o[1] # previous /\ ~(o[1] < said.gen)
        BY <3>2, <2>1, <1>2, <1>3, <1>8 DEF previous
      <4>2. CASE line'[Transcript!KeyOf(o)] = Transcript!NoLine
        <5>1. line[Transcript!KeyOf(o)] = Transcript!NoLine
          BY <4>1, <4>2, <2>1, <1>5, <1>8, NoLineIs
        <5>2. ~(line[Transcript!KeyOf(o)].rev >= Transcript!RevOf(o)) /\ ~line[Transcript!KeyOf(o)].final
          BY <5>1, <2>1, <1>8, NoLineIs DEF Transcript!NoLine
        <5>. QED  BY <5>2, <4>1, <2>1, <1>4 DEF Awaited
      <4>3. CASE line'[Transcript!KeyOf(o)] # Transcript!NoLine
        BY <4>1, <4>3, <2>1, <1>4, <1>5, <1>8 DEF Awaited
      <4>. QED  BY <4>2, <4>3
    <3>. QED  BY <3>1, <3>2
  <2>. QED  BY <2>2, <2>3
<1>13. \A k \in Transcript!Keys : line'[k].rev = -1 => line'[k] = Transcript!NoLine
  BY <1>5
<1>14. MarkInv'
  BY <1>9, <1>10, <1>11, <1>12, <1>13 DEF MarkInv
<1>. QED  BY <1>7, <1>14

LEMMA ForgetInv ==
  ASSUME TranscriptInv, Transcript!Reconnect \/ Transcript!Resync
  PROVE  TranscriptInv'
<1>. USE DEF TranscriptInv
<1>1. /\ said' = [said EXCEPT !.recent = {}] /\ pendingPlayed' = <<>>
      /\ gen' \in {gen, -1} /\ pendingValidation' \in {pendingValidation, <<>>}
      /\ line' = line \/ line' = [k \in Transcript!Keys |-> Transcript!NoLine]
  BY DEF Transcript!Reconnect, Transcript!Resync
<1>2. /\ said' \in Said /\ said'.gen = said.gen /\ said'.played = said.played
      /\ said'.recent = {} /\ said'.validated = said.validated
  BY <1>1 DEF TypeInv, Said
<1>3. line' \in [Transcript!Keys -> Line] /\ \A k \in Transcript!Keys : line'[k] \in {line[k], Transcript!NoLine}
  BY <1>1, NoLineIs DEF TypeInv
<1>4. TypeInv'
  <2>1. pendingPlayed' \in Seq(Transcript!Marks) /\ pendingValidation' \in Seq(Transcript!Marks) /\ gen' \in Transcript!Gens \cup {-1}
    <3>1. <<>> \in Seq(Transcript!Marks)
      OBVIOUS
    <3>2. pendingPlayed' \in Seq(Transcript!Marks)
      BY <1>1, <3>1
    <3>3. pendingValidation' \in Seq(Transcript!Marks)
      BY <1>1, <3>1 DEF TypeInv
    <3>. QED  BY <1>1, <3>2, <3>3 DEF TypeInv
  <2>2. IsFiniteSet(said'.recent)
    BY <1>2, FS_EmptySet
  <2>. QED  BY <1>2, <1>3, <2>1, <2>2 DEF TypeInv
<1>5. WaitInv'
  BY <1>1, <1>2 DEF WaitInv, Injective, ToSet
<1>6. \A o \in Transcript!Marks : Transcript!KeyOf(o) \in Transcript!Keys
  BY MarkParts
<1>7. MarkInv'
  BY <1>2, <1>3, <1>6, NoLineIs DEF MarkInv
<1>. QED  BY <1>4, <1>5, <1>7

\* A line says "played" or "validated" of its own text only and once the event
\* came, whichever of text and event was first, and what a cut leaves is final
\* and marked (web/app.js, renderTranscriptSegment and the marks).
THEOREM MarksAreKept == Transcript!Spec => []MarksAreTrue
<1>1. TranscriptInv /\ [Transcript!Next]_Transcript!vars => TranscriptInv'
  <2> SUFFICES ASSUME TranscriptInv, [Transcript!Next]_Transcript!vars PROVE TranscriptInv'
    OBVIOUS
  <2>1. CASE UNCHANGED Transcript!vars
    BY <2>1 DEF Transcript!vars, TranscriptInv, TypeInv, WaitInv, MarkInv, Played, Awaited
  <2>2. ASSUME NEW m \in Transcript!Marks, NEW final \in BOOLEAN, Transcript!ShowText(m, final) PROVE TranscriptInv'
    BY <2>2, ShowTextInv
  <2>3. ASSUME NEW m \in Transcript!Marks, Transcript!Validate(m) PROVE TranscriptInv'
    BY <2>3, ValidateInv
  <2>4. ASSUME NEW m \in Transcript!Marks, Transcript!Play(m) PROVE TranscriptInv'
    BY <2>4, PlayInv
  <2>5. CASE Transcript!Cut
    BY <2>5, CutInv
  <2>6. CASE Transcript!Reconnect \/ Transcript!Resync
    BY <2>6, ForgetInv
  <2>. QED  BY <2>1, <2>2, <2>3, <2>4, <2>5, <2>6 DEF Transcript!Next
<1>2. TranscriptInv => MarksAreTrue
  BY TranscriptInvHolds DEF MarksAreTrue
<1>. QED  BY <1>1, <1>2, InitInv, PTL DEF Transcript!Spec

-----------------------------------------------------------------------------
(***************************************************************************)
(* The capture (BrowserCapture).                                           *)
(***************************************************************************)
\* Where a start is before it has its socket.
Before == {"new", "consent", "mic", "worklets", "socket"}
Paged == [room : {"waiting", "ready", "active", "paused", "closing", "closed"},
          over : BOOLEAN, consent : BOOLEAN, audio : {0} \cup Capture!Starts, epoch : Nat,
          starting : {0} \cup Capture!Starts, button : BOOLEAN]
Started == [at : Capture!UnderWay \cup {"new", "done", "failed"}, epoch : Nat,
            track : {"none", "live", "stopped"}, enabled : BOOLEAN, muted : BOOLEAN,
            running : BOOLEAN, ready : BOOLEAN, connected : BOOLEAN,
            told : {"nothing", "active", "stopped"}, desired : BOOLEAN,
            stop : {"no", "asked", "done"}]

\* The audio of the page is of the page's epoch, and ready only while it captures;
\* the server is told "active" of a ready one only.
Truthful(p, s) ==
  /\ p.epoch = s.epoch /\ s.at \notin Before /\ s.stop = "no"
  /\ s.ready => Capture!Captures(p, s)
  /\ s.told = "active" => s.ready

\* Of a start that is not the audio of the page yet nothing was told, and of one that
\* is not connected not that it is active.
Silent(s) ==
  /\ s.at \in Before => ~s.ready /\ s.told = "nothing" /\ s.stop = "no"
  /\ s.told = "active" => s.connected

CaptureInv ==
  /\ room \in Paged /\ start \in [Capture!Starts -> Started]
  /\ \A a \in Capture!Starts : Silent(start[a])
  /\ room.audio # 0 => Truthful(room, start[room.audio])

Rooms == {"waiting", "ready", "active", "paused", "closing", "closed"}
LEMMA FollowsIs == DOMAIN Capture!Follows = Rooms /\ \A r \in Rooms : Capture!Follows[r] \subseteq Rooms
BY DEF Capture!Follows, Rooms

\* One start moves, the page and its audio with it.
LEMMA OneStartMoves ==
  ASSUME CaptureInv, NEW a \in Capture!Starts, NEW s \in Started, NEW p \in Paged,
         room' = p, start' = [start EXCEPT ![a] = s], Silent(s),
         p.audio = a => Truthful(p, s),
         p.audio # 0 /\ p.audio # a =>
           p.audio = room.audio /\ p.epoch = room.epoch /\ p.room = room.room
  PROVE  CaptureInv'
<1>1. start' \in [Capture!Starts -> Started] /\ room' \in Paged
  BY DEF CaptureInv
<1>2. \A b \in Capture!Starts : start'[b] = IF b = a THEN s ELSE start[b]
  BY DEF CaptureInv
<1>3. \A b \in Capture!Starts : Silent(start'[b])
  BY <1>2 DEF CaptureInv
<1>4. room'.audio # 0 => Truthful(room', start'[room'.audio])
  <2> SUFFICES ASSUME p.audio # 0 PROVE Truthful(p, start'[p.audio])
    OBVIOUS
  <2>1. p.audio \in Capture!Starts
    BY DEF Paged
  <2>2. CASE p.audio = a
    BY <1>2, <2>2
  <2>3. CASE p.audio # a
    <3>1. Truthful(room, start[p.audio])
      BY <2>3 DEF CaptureInv
    <3>2. p.epoch = room.epoch /\ p.room = room.room
      BY <2>3
    <3>. QED  BY <1>2, <2>1, <2>3, <3>1, <3>2 DEF Truthful, Capture!Captures
  <2>. QED  BY <2>2, <2>3
<1>. QED  BY <1>1, <1>3, <1>4 DEF CaptureInv

\* The page moves without an audio.
LEMMA AudioGoes ==
  ASSUME CaptureInv, room' \in Paged, room'.audio = 0, start' \in [Capture!Starts -> Started],
         \A a \in Capture!Starts : Silent(start'[a])
  PROVE  CaptureInv'
BY DEF CaptureInv

\* What Update makes of a start is true if it changes the audio of the page.
LEMMA UpdateIsTrue ==
  ASSUME NEW p \in Paged, NEW a \in Capture!Starts, NEW s \in Started, NEW active \in BOOLEAN,
         s.told = "active" => s.connected, s.at \notin Before,
         p.audio = a => p.epoch = s.epoch /\ s.stop = "no"
  PROVE  LET u == Capture!Update(p, a, s, active) IN
         /\ u \in Started /\ u.at = s.at /\ u.epoch = s.epoch /\ u.stop = s.stop
         /\ p.audio = a => Truthful(p, u)
         /\ u.told = "active" => u.connected
<1>1. PICK c \in BOOLEAN : c = (active /\ Capture!Captures(p, s))
  OBVIOUS
<1>2. PICK x \in {"nothing", "active", "stopped"} :
        x = IF ~s.connected THEN s.told ELSE IF c THEN "active" ELSE "stopped"
  BY DEF Started
<1>3. PICK t : t = [s EXCEPT !.ready = c, !.told = x]
  OBVIOUS
<1>4. CASE p.audio # a
  BY <1>4 DEF Capture!Update
<1>5. CASE p.audio = a
  <2>1. PICK r : r = [s EXCEPT !.ready = c]
    OBVIOUS
  <2>2. Capture!Update(p, a, s, active) = Capture!Tell(r)
    BY <1>1, <1>5, <2>1 DEF Capture!Update
  <2>3. r \in Started /\ r.ready = c /\ r.connected = s.connected
    BY <2>1 DEF Started
  <2>4. Capture!Tell(r) = t
    <3>1. CASE s.connected
      BY <1>2, <1>3, <2>1, <2>3, <3>1 DEF Capture!Tell, Started
    <3>2. CASE ~s.connected
      BY <1>2, <1>3, <2>1, <2>3, <3>2 DEF Capture!Tell, Started
    <3>. QED  BY <3>1, <3>2
  <2>5. /\ t \in Started /\ t.ready = c /\ t.told = x /\ t.at = s.at /\ t.epoch = s.epoch
        /\ t.connected = s.connected /\ t.stop = s.stop
        /\ t.running = s.running /\ t.track = s.track /\ t.muted = s.muted /\ t.enabled = s.enabled
    BY <1>3 DEF Started
  <2>6. t.told = "active" => t.ready /\ t.connected
    BY <1>2, <2>5
  <2>7. t.ready => Capture!Captures(p, t)
    BY <1>1, <2>5 DEF Capture!Captures
  <2>8. Truthful(p, t)
    BY <1>5, <2>5, <2>6, <2>7 DEF Truthful
  <2>. QED  BY <2>2, <2>4, <2>5, <2>6, <2>8
<1>. QED  BY <1>4, <1>5

LEMMA StopKeeps ==
  ASSUME CaptureInv, NEW p \in Paged, p.audio = room.audio, Capture!StopAs(p)
  PROVE  CaptureInv'
<1> DEFINE c == Capture!CanStart([p EXCEPT !.audio = 0])
<1>1. room' \in Paged /\ room'.audio = 0
  <2>1. c \in BOOLEAN
    BY DEF Capture!CanStart
  <2>2. room' = [p EXCEPT !.audio = 0, !.starting = 0, !.epoch = p.epoch + 1, !.button = c]
    BY DEF Capture!StopAs, Capture!Stopped
  <2> HIDE DEF c
  <2>3. p.epoch + 1 \in Nat
    BY DEF Paged
  <2>. QED  BY <2>1, <2>2, <2>3 DEF Paged
<1>2. ASSUME NEW a \in Capture!Starts PROVE Capture!StoppedStart(p, a) \in Started /\ Silent(Capture!StoppedStart(p, a))
  <2> DEFINE off == [start[a] EXCEPT !.told = "stopped", !.ready = FALSE, !.connected = FALSE,
                                     !.desired = FALSE, !.stop = "asked"]
             given == [start[a] EXCEPT !.desired = FALSE]
  <2>1. \/ p.audio = a /\ Capture!StoppedStart(p, a) = off
        \/ Capture!StoppedStart(p, a) = given
        \/ Capture!StoppedStart(p, a) = start[a]
    BY DEF Capture!StoppedStart
  <2>2. start[a] \in Started /\ Silent(start[a])
    BY DEF CaptureInv
  <2>3. off \in Started /\ off.at = start[a].at /\ off.told = "stopped"
    BY <2>2 DEF Started
  <2>4. given \in Started /\ given.at = start[a].at /\ given.ready = start[a].ready /\ given.told = start[a].told
        /\ given.connected = start[a].connected /\ given.stop = start[a].stop
    BY <2>2 DEF Started
  <2>5. p.audio = a => start[a].at \notin Before
    BY DEF CaptureInv, Truthful, Capture!Starts
  <2>. QED  BY ONLY <2>1, <2>2, <2>3, <2>4, <2>5 DEF Silent
<1>3. start' \in [Capture!Starts -> Started] /\ \A a \in Capture!Starts : Silent(start'[a])
  BY <1>2 DEF Capture!StopAs
<1>. QED  BY <1>1, <1>3, AudioGoes

LEMMA FailKeeps ==
  ASSUME CaptureInv, NEW a \in Capture!Starts, Capture!Fail(a)
  PROVE  CaptureInv'
<1>1. room' \in Paged /\ room'.audio = 0
  <2> DEFINE c == Capture!CanStart([room EXCEPT !.audio = 0])
  <2>1. c \in BOOLEAN
    BY DEF Capture!CanStart
  <2>2. room' = [room EXCEPT !.audio = 0, !.starting = 0, !.button = c]
    BY DEF Capture!Fail
  <2> HIDE DEF c
  <2>. QED  BY <2>1, <2>2 DEF Paged, CaptureInv
<1>2. /\ start' \in [Capture!Starts -> Started]
      /\ \A b \in Capture!Starts : Silent(start'[b])
  <2>1. PICK t \in {"none", "stopped"} : t = IF start[a].track = "none" THEN "none" ELSE "stopped"
    OBVIOUS
  <2>2. PICK s : s = [Capture!NoStart EXCEPT !.at = "failed", !.epoch = start[a].epoch,
                        !.stop = start[a].stop, !.track = t]
    OBVIOUS
  <2>3. start' = [start EXCEPT ![a] = s]
    BY <2>1, <2>2 DEF Capture!Fail
  <2>4. start \in [Capture!Starts -> Started] /\ start[a] \in Started
    BY DEF CaptureInv
  <2>5. s \in Started
    BY <2>2, <2>4 DEF Capture!NoStart, Started
  <2>6. Silent(s)
    BY <2>2 DEF Capture!NoStart, Silent, Before
  <2>. QED  BY <2>3, <2>4, <2>5, <2>6 DEF CaptureInv
<1>. QED  BY <1>1, <1>2, AudioGoes


LEMMA ConsentStepsKeep ==
  ASSUME CaptureInv, NEW a \in Capture!Starts,
         Capture!Click(a) \/ Capture!Consented(a) \/ Capture!MicrophoneOpens(a) \/ Capture!WorkletsLoad(a)
  PROVE  CaptureInv'
<1>0. /\ room \in Paged /\ start[a] \in Started /\ Silent(start[a])
      /\ start \in [Capture!Starts -> Started] /\ (room.audio = a => start[a].at \notin Before)
      /\ a # 0
  BY DEF CaptureInv, Truthful, Capture!Starts
<1>1. CASE Capture!Fail(a)
  BY <1>1, FailKeeps
<1>2. CASE Capture!Click(a)
  <2> DEFINE s == [start[a] EXCEPT !.at = "consent", !.epoch = room.epoch]
             p == [room EXCEPT !.button = FALSE]
  <2>1. start' = [start EXCEPT ![a] = s] /\ room' = p /\ room.audio = 0 /\ start[a].at = "new"
    BY <1>0, <1>2 DEF Capture!Click
  <2>2. /\ s \in Started /\ s.at = "consent" /\ s.ready = start[a].ready /\ s.told = start[a].told
        /\ s.connected = start[a].connected /\ s.stop = start[a].stop
        /\ p \in Paged /\ p.audio = room.audio
    BY <1>0 DEF Started, Paged, Capture!UnderWay
  <2>3. Silent(s)
    BY <1>0, <2>1, <2>2 DEF Silent, Before
  <2> HIDE DEF s, p
  <2>. QED  BY <1>0, <2>1, <2>2, <2>3, OneStartMoves
<1>3. CASE Capture!Consented(a) /\ ~Capture!Fail(a)
  <2> DEFINE s == [start[a] EXCEPT !.at = "mic"]
             p == [room EXCEPT !.consent = TRUE, !.button = FALSE]
  <2>1. start' = [start EXCEPT ![a] = s] /\ room' = p /\ start[a].at = "consent"
    BY <1>0, <1>3 DEF Capture!Consented
  <2>2. /\ s \in Started /\ s.at = "mic" /\ s.ready = start[a].ready /\ s.told = start[a].told
        /\ s.connected = start[a].connected /\ s.stop = start[a].stop
        /\ p \in Paged /\ p.audio = room.audio /\ p.epoch = room.epoch /\ p.room = room.room
    BY <1>0 DEF Started, Paged, Capture!UnderWay
  <2>3. Silent(s) /\ room.audio # a
    BY <1>0, <2>1, <2>2 DEF Silent, Before
  <2> HIDE DEF s, p
  <2>. QED  BY <1>0, <2>1, <2>2, <2>3, OneStartMoves
<1>4. CASE Capture!MicrophoneOpens(a) /\ ~Capture!Fail(a)
  <2> DEFINE s == [start[a] EXCEPT !.at = "worklets", !.track = "live"]
  <2>1. start' = [start EXCEPT ![a] = s] /\ room' = room /\ start[a].at = "mic"
    BY <1>0, <1>4 DEF Capture!MicrophoneOpens
  <2>2. s \in Started /\ s.at = "worklets" /\ s.ready = start[a].ready /\ s.told = start[a].told
        /\ s.connected = start[a].connected /\ s.stop = start[a].stop
    BY <1>0 DEF Started, Capture!UnderWay
  <2>3. Silent(s) /\ room.audio # a
    BY <1>0, <2>1, <2>2 DEF Silent, Before
  <2> HIDE DEF s
  <2>. QED  BY <1>0, <2>1, <2>2, <2>3, OneStartMoves
<1>5. CASE Capture!WorkletsLoad(a)
  <2> DEFINE s == [start[a] EXCEPT !.at = "socket", !.desired = TRUE]
             p == [room EXCEPT !.starting = a]
  <2>1. start' = [start EXCEPT ![a] = s] /\ room' = p /\ start[a].at = "worklets"
    BY <1>0, <1>5 DEF Capture!WorkletsLoad
  <2>2. /\ s \in Started /\ s.at = "socket" /\ s.ready = start[a].ready /\ s.told = start[a].told
        /\ s.connected = start[a].connected /\ s.stop = start[a].stop
        /\ p \in Paged /\ p.audio = room.audio /\ p.epoch = room.epoch /\ p.room = room.room
    BY <1>0 DEF Started, Paged, Capture!UnderWay
  <2>3. Silent(s) /\ room.audio # a
    BY <1>0, <2>1, <2>2 DEF Silent, Before
  <2> HIDE DEF s, p
  <2>. QED  BY <1>0, <2>1, <2>2, <2>3, OneStartMoves
<1>. QED  BY <1>1, <1>2, <1>3, <1>4, <1>5

LEMMA SocketOpensKeeps ==
  ASSUME CaptureInv, NEW a \in Capture!Starts, Capture!SocketOpens(a)
  PROVE  CaptureInv'
<1>0. /\ room \in Paged /\ start[a] \in Started /\ Silent(start[a])
      /\ start \in [Capture!Starts -> Started]
  BY DEF CaptureInv
<1>1. CASE Capture!Fail(a)
  BY <1>1, FailKeeps
<1>2. CASE ~Capture!Fail(a)
  <2> DEFINE s == [start[a] EXCEPT !.at = "resume", !.epoch = room.epoch + 1,
                                   !.connected = TRUE, !.running = TRUE]
             p == [room EXCEPT !.epoch = @ + 1, !.audio = a, !.starting = 0]
  <2>1. start' = [start EXCEPT ![a] = s] /\ room' = p /\ start[a].at = "socket"
    BY <1>0, <1>2 DEF Capture!SocketOpens
  <2>e. room.epoch \in Nat /\ room.epoch + 1 \in Nat
    BY <1>0 DEF Paged
  <2>2. /\ s \in Started /\ s.at = "resume" /\ s.ready = start[a].ready /\ s.told = start[a].told
        /\ s.epoch = room.epoch + 1 /\ s.stop = start[a].stop
    BY <1>0, <2>1, <2>e DEF Started, Capture!UnderWay
  <2>4. p \in Paged /\ p.audio = a /\ p.epoch = room.epoch + 1
    BY <1>0, <2>e DEF Paged
  <2>3. Silent(s) /\ Truthful(p, s)
    BY <1>0, <2>1, <2>2, <2>4 DEF Silent, Truthful, Before
  <2> HIDE DEF s, p
  <2>. QED  BY <1>0, <2>1, <2>2, <2>3, <2>4, OneStartMoves
<1>. QED  BY <1>1, <1>2

LEMMA AudioStartsKeep ==
  ASSUME CaptureInv, NEW a \in Capture!Starts, Capture!Resumes(a) \/ Capture!WakeLocks(a) \/ Capture!ReleaseTracks(a)
  PROVE  CaptureInv'
<1>0. /\ room \in Paged /\ start[a] \in Started /\ Silent(start[a])
      /\ start \in [Capture!Starts -> Started] /\ (room.audio = a => Truthful(room, start[a]))
      /\ a # 0
  BY DEF CaptureInv, Capture!Starts
<1>1. CASE Capture!Fail(a)
  BY <1>1, FailKeeps
<1>2. CASE Capture!Resumes(a) /\ ~Capture!Fail(a)
  <2> DEFINE u == Capture!Update(room, a, start[a], TRUE)
             s == [u EXCEPT !.at = "wake"]
  <2>1. start' = [start EXCEPT ![a] = s] /\ room' = room /\ start[a].at = "resume" /\ u.ready
    BY <1>0, <1>2 DEF Capture!Resumes
  <2>2. room.audio = a => Truthful(room, start[a])
    BY <1>0
  <2>3. u \in Started /\ (room.audio = a => Truthful(room, u)) /\ (u.told = "active" => u.connected)
    BY <1>0, <2>1, <2>2, UpdateIsTrue DEF Truthful, Silent, Before
  <2> HIDE DEF u
  <2>5. s \in Started /\ s.at = "wake" /\ s.told = u.told /\ s.connected = u.connected
        /\ s.stop = u.stop
    BY <2>3 DEF Started, Capture!UnderWay
  <2>4. room.audio = a => Truthful(room, s)
    BY <2>3 DEF Started, Capture!UnderWay, Truthful, Capture!Captures, Before
  <2> HIDE DEF s
  <2>. QED  BY <1>0, <2>1, <2>3, <2>4, <2>5, OneStartMoves DEF Silent, Before
<1>3. CASE Capture!WakeLocks(a)
  <2> DEFINE s == [start[a] EXCEPT !.at = "done"]
             p == [room EXCEPT !.button = TRUE]
  <2>1. start' = [start EXCEPT ![a] = s] /\ room' = p
    BY <1>0, <1>3 DEF Capture!WakeLocks
  <2>2. /\ s \in Started /\ s.at = "done" /\ s.told = start[a].told
        /\ s.connected = start[a].connected /\ s.stop = start[a].stop
        /\ p \in Paged /\ p.audio = room.audio /\ p.epoch = room.epoch /\ p.room = room.room
    BY <1>0 DEF Started, Paged
  <2>3. p.audio = a => Truthful(p, s)
    BY <1>0 DEF Started, Paged, Truthful, Capture!Captures, Before
  <2> HIDE DEF s, p
  <2>. QED  BY <1>0, <2>1, <2>2, <2>3, OneStartMoves DEF Silent, Before
<1>4. CASE Capture!ReleaseTracks(a)
  <2> DEFINE s == [start[a] EXCEPT !.stop = "done", !.track = "stopped", !.running = FALSE]
  <2>1. start' = [start EXCEPT ![a] = s] /\ room' = room /\ start[a].stop = "asked"
    BY <1>0, <1>4 DEF Capture!ReleaseTracks
  <2>2. room.audio # a /\ start[a].at \notin Before
    BY <1>0, <2>1 DEF Truthful, Silent
  <2>3. s \in Started /\ s.at = start[a].at /\ s.told = start[a].told /\ s.connected = start[a].connected
    BY <1>0 DEF Started
  <2> HIDE DEF s
  <2>. QED  BY <1>0, <2>1, <2>2, <2>3, OneStartMoves DEF Silent
<1>. QED  BY <1>1, <1>2, <1>3, <1>4

LEMMA PageHears ==
  ASSUME CaptureInv,
         \/ \E a \in Capture!Starts : Capture!WaitFails(a)
         \/ Capture!UserStops \/ Capture!HearConsent \/ Capture!Withdraw \/ Capture!HistoryGap
  PROVE  CaptureInv'
<1>0. room \in Paged /\ CaptureInv
  BY DEF CaptureInv
<1>1. CASE \E a \in Capture!Starts : Capture!WaitFails(a)
  BY <1>1, FailKeeps DEF Capture!WaitFails
<1>2. CASE Capture!UserStops
  BY <1>0, <1>2, StopKeeps DEF Capture!UserStops
<1>3. CASE Capture!HearConsent
  <2> DEFINE c == Capture!CanStart(room)
  <2>1. c \in BOOLEAN
    BY DEF Capture!CanStart
  <2>2. room' = [room EXCEPT !.button = c] /\ start' = start
    BY <1>3 DEF Capture!HearConsent
  <2> HIDE DEF c
  <2>3. room' \in Paged /\ room'.audio = room.audio /\ room'.epoch = room.epoch /\ room'.room = room.room
    BY <1>0, <2>1, <2>2 DEF Paged
  <2>. QED  BY <2>2, <2>3 DEF CaptureInv, Truthful, Capture!Captures
<1>4. CASE Capture!Withdraw
  <2> DEFINE p == [room EXCEPT !.consent = FALSE, !.room = "closed", !.over = TRUE]
  <2>1. p \in Paged /\ p.audio = room.audio
    BY <1>0 DEF Paged
  <2>2. Capture!StopAs(p)
    BY <1>4 DEF Capture!Withdraw
  <2> HIDE DEF p
  <2>. QED  BY <1>0, <2>1, <2>2, StopKeeps
<1>5. CASE Capture!HistoryGap
  <2> DEFINE p == [room EXCEPT !.over = TRUE]
  <2>1. p \in Paged /\ p.audio = room.audio
    BY <1>0 DEF Paged
  <2>2. Capture!StopAs(p)
    BY <1>5 DEF Capture!HistoryGap
  <2> HIDE DEF p
  <2>. QED  BY <1>0, <2>1, <2>2, StopKeeps
<1>. QED  BY <1>1, <1>2, <1>3, <1>4, <1>5

\* A listener of the audio moves it and looks again whether it captures.
LEMMA AudioUpdates ==
  ASSUME CaptureInv, NEW p \in Paged, NEW a \in Capture!Starts, NEW s \in Started, NEW active \in BOOLEAN,
         room.audio = a, p.audio = a, p.epoch = room.epoch, s.at = start[a].at,
         s.epoch = start[a].epoch, s.told = start[a].told, s.connected = start[a].connected,
         s.stop = start[a].stop,
         room' = p, start' = [start EXCEPT ![a] = Capture!Update(p, a, s, active)]
  PROVE  CaptureInv'
<1>1. Truthful(room, start[a]) /\ Silent(start[a])
  BY DEF CaptureInv, Capture!Starts
<1>2. PICK u : u = Capture!Update(p, a, s, active)
  OBVIOUS
<1>3. /\ u \in Started /\ u.at = s.at
      /\ Truthful(p, u) /\ (u.told = "active" => u.connected)
  BY <1>1, <1>2, UpdateIsTrue DEF Truthful, Silent
<1>. QED  BY <1>1, <1>2, <1>3, OneStartMoves DEF Truthful, Silent

LEMMA ListenersKeep ==
  ASSUME CaptureInv, NEW a \in Capture!Starts, Capture!Mute(a) \/ Capture!Unmute(a) \/ Capture!Suspend(a) \/ Capture!Run(a)
  PROVE  CaptureInv'
<1>0. room \in Paged /\ start[a] \in Started /\ start \in [Capture!Starts -> Started]
  BY DEF CaptureInv
<1>1. PICK s \in Started, active \in BOOLEAN :
        /\ s.at = start[a].at /\ s.epoch = start[a].epoch /\ s.told = start[a].told
        /\ s.connected = start[a].connected /\ s.stop = start[a].stop
        /\ start' = [start EXCEPT ![a] = Capture!Update(room, a, s, active)]
  <2> DEFINE m(b) == [start[a] EXCEPT !.muted = b]
             r(b) == [start[a] EXCEPT !.running = b]
  <2>1. \A b \in BOOLEAN :
          /\ m(b) \in Started /\ m(b).at = start[a].at /\ m(b).epoch = start[a].epoch
          /\ m(b).told = start[a].told /\ m(b).connected = start[a].connected
          /\ m(b).stop = start[a].stop
    BY <1>0 DEF Started
  <2>2. \A b \in BOOLEAN :
          /\ r(b) \in Started /\ r(b).at = start[a].at /\ r(b).epoch = start[a].epoch
          /\ r(b).told = start[a].told /\ r(b).connected = start[a].connected
          /\ r(b).stop = start[a].stop
    BY <1>0 DEF Started
  <2>3. CASE Capture!Mute(a)
    <3>1. start' = [start EXCEPT ![a] = Capture!Update(room, a, m(TRUE), FALSE)]
      BY <1>0, <2>3 DEF Capture!Mute
    <3>. QED  BY <2>1, <3>1
  <2>4. CASE Capture!Unmute(a)
    <3>1. start' = [start EXCEPT ![a] = Capture!Update(room, a, m(FALSE), TRUE)]
      BY <1>0, <2>4 DEF Capture!Unmute
    <3>. QED  BY <2>1, <3>1
  <2>5. CASE Capture!Suspend(a)
    <3>1. start' = [start EXCEPT ![a] = Capture!Update(room, a, r(FALSE), FALSE)]
      BY <1>0, <2>5 DEF Capture!Suspend
    <3>. QED  BY <2>2, <3>1
  <2>6. CASE Capture!Run(a)
    <3>1. start' = [start EXCEPT ![a] = Capture!Update(room, a, r(TRUE), TRUE)]
      BY <1>0, <2>6 DEF Capture!Run
    <3>. QED  BY <2>2, <3>1
  <2>. QED  BY <2>3, <2>4, <2>5, <2>6
<1>2. room' = room /\ room.audio = a
  BY DEF Capture!Mute, Capture!Unmute, Capture!Suspend, Capture!Run
<1>. QED  BY <1>0, <1>1, <1>2, AudioUpdates

LEMMA SocketsKeep ==
  ASSUME CaptureInv, NEW a \in Capture!Starts, Capture!LoseSocket(a) \/ Capture!SocketReopens(a)
  PROVE  CaptureInv'
<1>0. /\ room \in Paged /\ start[a] \in Started /\ Silent(start[a])
      /\ start \in [Capture!Starts -> Started] /\ Truthful(room, start[a]) /\ room.audio = a /\ room' = room
  BY DEF CaptureInv, Capture!Starts, Capture!LoseSocket, Capture!SocketReopens
<1>1. PICK s : start' = [start EXCEPT ![a] = s] /\ s = start'[a]
  BY <1>0 DEF Capture!LoseSocket, Capture!SocketReopens
<1>2. /\ s \in Started /\ s.at = start[a].at /\ s.epoch = start[a].epoch /\ s.ready = start[a].ready
      /\ s.told = "active" => s.ready /\ s.connected
      /\ s.running = start[a].running /\ s.track = start[a].track
      /\ s.muted = start[a].muted /\ s.enabled = start[a].enabled /\ s.stop = start[a].stop
  <2>1. CASE Capture!LoseSocket(a)
    <3>1. s = [start[a] EXCEPT !.connected = FALSE, !.told = "nothing"]
      BY <1>0, <1>1, <2>1 DEF Capture!LoseSocket, Started
    <3>. QED  BY <1>0, <3>1 DEF Started
  <2>2. CASE Capture!SocketReopens(a)
    <3>1. PICK r : r = [start[a] EXCEPT !.connected = TRUE]
      OBVIOUS
    <3>2. s = [r EXCEPT !.told = IF r.ready THEN "active" ELSE "stopped"] /\ r.connected = TRUE
      BY <1>0, <1>1, <2>2, <3>1 DEF Capture!SocketReopens, Capture!Tell, Started
    <3>3. PICK x \in {"active", "stopped"} : x = IF start[a].ready THEN "active" ELSE "stopped"
      OBVIOUS
    <3>4. s = [start[a] EXCEPT !.connected = TRUE, !.told = x]
      BY <1>0, <3>1, <3>2, <3>3 DEF Started
    <3>5. s \in Started
      BY <1>0, <3>3, <3>4 DEF Started
    <3>6. s.told = x /\ s.connected = TRUE /\ s.ready = start[a].ready
      BY <1>0, <3>4 DEF Started
    <3>7. /\ s.at = start[a].at /\ s.epoch = start[a].epoch /\ s.running = start[a].running
          /\ s.track = start[a].track /\ s.muted = start[a].muted
          /\ s.enabled = start[a].enabled /\ s.stop = start[a].stop
      BY <1>0, <3>4 DEF Started
    <3>. QED  BY <3>3, <3>5, <3>6, <3>7
  <2>. QED  BY <2>1, <2>2
<1>3. Truthful(room, s) /\ Silent(s)
  BY <1>0, <1>2 DEF Truthful, Silent, Capture!Captures
<1>. QED  BY <1>0, <1>1, <1>2, <1>3, OneStartMoves

LEMMA HearRoomKeeps ==
  ASSUME CaptureInv, NEW r0 \in DOMAIN Capture!Follows, Capture!HearRoom(r0)
  PROVE  CaptureInv'
<1> DEFINE p == [room EXCEPT !.room = r0, !.over = (r0 = "closed")]
<1>0. room \in Paged /\ room.audio \in {0} \cup Capture!Starts /\ start \in [Capture!Starts -> Started]
  BY DEF CaptureInv, Paged
<1>1. /\ p \in Paged /\ p.audio = room.audio /\ p.epoch = room.epoch /\ p.room = r0
  <2>1. PICK v \in BOOLEAN : v = (r0 = "closed")
    OBVIOUS
  <2>2. r0 \in {"waiting", "ready", "active", "paused", "closing", "closed"}
    BY FollowsIs DEF Rooms
  <2>3. p = [room EXCEPT !.room = r0, !.over = v]
    BY <2>1
  <2> HIDE DEF p
  <2>. QED  BY <1>0, <2>1, <2>2, <2>3 DEF Paged
<1>2. CASE r0 \in {"closing", "closed"}
  <2>1. Capture!StopAs(p)
    BY <1>2 DEF Capture!HearRoom
  <2> HIDE DEF p
  <2>. QED  BY <1>0, <1>1, <2>1, StopKeeps
<1>3. CASE r0 \notin {"closing", "closed"} /\ r0 = "active" /\ room.room = "paused" /\ room.audio # 0
  <2> DEFINE a == room.audio
             s == [start[a] EXCEPT !.enabled = TRUE]
  <2>a. start[room.audio] \in Started
    BY <1>0, <1>3
  <2>1. a \in Capture!Starts /\ room' = p /\ start' = [start EXCEPT ![a] = Capture!Update(p, a, s, TRUE)]
    BY <1>0, <1>3 DEF Capture!HearRoom
  <2>2. /\ s \in Started /\ s.at = start[a].at /\ s.epoch = start[a].epoch /\ s.told = start[a].told
        /\ s.connected = start[a].connected /\ s.stop = start[a].stop
    BY <2>a DEF Started
  <2> HIDE DEF p, s
  <2>. QED  BY <1>0, <1>1, <2>1, <2>2, AudioUpdates
<1>4. CASE r0 = "paused" /\ room.audio # 0
  <2> DEFINE a == room.audio
             s == [start[a] EXCEPT !.enabled = FALSE]
  <2>a. start[room.audio] \in Started
    BY <1>0, <1>4
  <2>1. a \in Capture!Starts /\ room' = p /\ start' = [start EXCEPT ![a] = Capture!Update(p, a, s, FALSE)]
    BY <1>0, <1>4 DEF Capture!HearRoom
  <2>2. /\ s \in Started /\ s.at = start[a].at /\ s.epoch = start[a].epoch /\ s.told = start[a].told
        /\ s.connected = start[a].connected /\ s.stop = start[a].stop
    BY <2>a DEF Started
  <2> HIDE DEF p, s
  <2>. QED  BY <1>0, <1>1, <2>1, <2>2, AudioUpdates
<1>5. CASE /\ r0 \notin {"closing", "closed"}
           /\ ~(r0 = "active" /\ room.room = "paused" /\ room.audio # 0)
           /\ ~(r0 = "paused" /\ room.audio # 0)
  <2>1. room' = p /\ start' = start
    BY <1>5 DEF Capture!HearRoom
  <2> HIDE DEF p
  <2>2. p.audio # 0 => p.room # "paused"
    BY <1>1, <1>5
  <2>. QED  BY <1>0, <1>1, <2>1, <2>2 DEF CaptureInv, Truthful, Capture!Captures
<1>. QED  BY <1>2, <1>3, <1>4, <1>5

LEMMA CaptureInit == Capture!Init => CaptureInv
<1> SUFFICES ASSUME Capture!Init PROVE CaptureInv
  OBVIOUS
<1>1. room \in Paged /\ room.audio = 0
  BY DEF Capture!Init, Paged
<1>2. Capture!NoStart \in Started /\ Silent(Capture!NoStart)
  BY DEF Capture!NoStart, Started, Capture!UnderWay, Silent
<1>3. start \in [Capture!Starts -> Started] /\ \A a \in Capture!Starts : Silent(start[a])
  BY <1>2 DEF Capture!Init
<1>. QED  BY <1>1, <1>3 DEF CaptureInv

LEMMA CaptureNext == CaptureInv /\ [Capture!Next]_Capture!vars => CaptureInv'
<1> SUFFICES ASSUME CaptureInv, [Capture!Next]_Capture!vars PROVE CaptureInv'
  OBVIOUS
<1>1. CASE UNCHANGED Capture!vars
  BY <1>1 DEF CaptureInv, Capture!vars
<1>2. CASE Capture!Next
  BY <1>2, ConsentStepsKeep, SocketOpensKeeps, AudioStartsKeep, PageHears, ListenersKeep,
     SocketsKeep, HearRoomKeeps DEF Capture!Next, Capture!Proceed
<1>. QED  BY <1>1, <1>2

LEMMA CaptureFollows == CaptureInv => Capture!TypeOK /\ Capture!ReadinessIsTrue
<1> SUFFICES ASSUME CaptureInv PROVE Capture!TypeOK /\ Capture!ReadinessIsTrue
  OBVIOUS
<1>1. Capture!TypeOK
  BY FollowsIs DEF CaptureInv, Paged, Started, Capture!TypeOK, Rooms
<1>2. Capture!ReadinessIsTrue
  BY DEF CaptureInv, Truthful, Capture!ReadinessIsTrue, Capture!Starts
<1>. QED  BY <1>1, <1>2

\* The server is told of an active capture only while the page has a live
\* microphone that is not muted, in a session that is not paused
\* (web/app.js, updateParticipantCaptureReadiness).
THEOREM ReadinessIsKept == Capture!Spec => []ReadinessIsTrue
<1>1. CaptureInv => ReadinessIsTrue
  BY CaptureFollows DEF ReadinessIsTrue
<1>. QED  BY <1>1, CaptureInit, CaptureNext, PTL DEF Capture!Spec
=============================================================================
