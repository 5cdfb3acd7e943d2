----------------------------- MODULE AsyncQueue -----------------------------
(***************************************************************************)
(* The bounded queue between producers and asynchronous consumers          *)
(* (src/core/async-queue.ts): relay inputs, playout, media ingress and     *)
(* event subscribers all are such queues.  A producer never waits: it is   *)
(* refused, drops the oldest value, or evicts a value of low priority.  A  *)
(* consumer that finds nothing waits, and a producer settles the oldest    *)
(* waiter.  Closing lets the consumers drain the queue; closing with an    *)
(* error discards it.                                                      *)
(***************************************************************************)
EXTENDS Sequences, SequencesExt, Integers

CONSTANTS
  Consumer,   \* iterators over the queue; each awaits one next() at a time
  Capacity

CapacityAssumption == Capacity \in Nat \ {0}

VARIABLES
  values,     \* #values
  waiters,    \* #waiters, by owner
  closed,     \* #closed
  failed,     \* #failed
  inactive,   \* consumers that called return() or throw()
  accepted,   \* number of values accepted: each is named by its number
  delivered,  \* values the consumers got, in the order they got them
  lost,       \* values dropped, evicted or discarded
  told        \* how each consumer's stream ended

vars == <<values, waiters, closed, failed, inactive, accepted, delivered, lost, told>>
history == <<accepted, delivered, lost>>

Value == [id : Nat, low : BOOLEAN]

TypeOK ==
  /\ values \in Seq(Value) /\ Len(values) <= Capacity
  /\ waiters \in Seq(Consumer)
  /\ closed \in BOOLEAN /\ failed \in BOOLEAN
  /\ inactive \in SUBSET Consumer
  /\ accepted \in Nat /\ delivered \in Seq(Nat) /\ lost \in SUBSET Nat
  /\ told \in [Consumer -> {"no", "done", "failed"}]

Init ==
  /\ values = <<>> /\ waiters = <<>>
  /\ closed = FALSE /\ failed = FALSE /\ inactive = {}
  /\ accepted = 0 /\ delivered = <<>> /\ lost = {}
  /\ told = [c \in Consumer |-> "no"]

-----------------------------------------------------------------------------
Fresh(low) == [id |-> accepted + 1, low |-> low]

Full == Len(values) >= Capacity
Ids(s) == {s[i].id : i \in DOMAIN s}

\* The oldest waiter gets the value, and nothing is buffered.
HandOver ==
  /\ waiters # <<>>
  /\ waiters' = Tail(waiters)
  /\ accepted' = accepted + 1
  /\ delivered' = Append(delivered, accepted + 1)
  /\ UNCHANGED <<values, lost>>

Push(s, low) ==
  /\ values' = Append(s, Fresh(low))
  /\ accepted' = accepted + 1
  /\ UNCHANGED <<waiters, delivered>>

\* offer: a full queue refuses.
Offer(low) ==
  /\ ~closed
  /\ \/ HandOver
     \/ waiters = <<>> /\ ~Full /\ Push(values, low) /\ UNCHANGED lost
  /\ UNCHANGED <<closed, failed, inactive, told>>

\* offerLatest: a full queue drops its oldest value.
OfferLatest(low) ==
  /\ ~closed
  /\ \/ HandOver
     \/ waiters = <<>> /\ ~Full /\ Push(values, low) /\ UNCHANGED lost
     \/ /\ waiters = <<>> /\ Full
        /\ Push(Tail(values), low)
        /\ lost' = lost \cup {Head(values).id}
  /\ UNCHANGED <<closed, failed, inactive, told>>

\* offerPriority: a full queue evicts the first evictable value, or refuses.
OfferPriority(low) ==
  /\ ~closed
  /\ \/ HandOver
     \/ waiters = <<>> /\ ~Full /\ Push(values, low) /\ UNCHANGED lost
     \/ /\ waiters = <<>> /\ Full
        /\ \E i \in DOMAIN values :
             /\ values[i].low /\ \A j \in 1 .. i - 1 : ~values[j].low
             /\ Push(RemoveAt(values, i), low)
             /\ lost' = lost \cup {values[i].id}
  /\ UNCHANGED <<closed, failed, inactive, told>>

Tell(cs, what) == told' = [c \in Consumer |-> IF c \in cs THEN what ELSE told[c]]

\* Mutant of Close: the waiters are not settled.
CloseOnly ==
  /\ ~closed /\ closed' = TRUE
  /\ UNCHANGED <<values, waiters, failed, inactive, told, history>>

\* Mutant of Close: the buffer is cleared as by an error.
CloseDiscarding ==
  /\ ~closed
  /\ closed' = TRUE /\ values' = <<>>
  /\ waiters' = <<>> /\ Tell(ToSet(waiters), "done")
  /\ UNCHANGED <<failed, inactive, history>>

Close ==
  /\ ~closed
  /\ closed' = TRUE
  /\ waiters' = <<>> /\ Tell(ToSet(waiters), "done")
  /\ UNCHANGED <<values, failed, inactive, history>>

CloseWithError ==
  /\ ~closed
  /\ closed' = TRUE /\ failed' = TRUE
  /\ values' = <<>> /\ lost' = lost \cup Ids(values)
  /\ waiters' = <<>> /\ Tell(ToSet(waiters), "failed")
  /\ UNCHANGED <<inactive, accepted, delivered>>

\* next(): the oldest value, or how the stream ended, or the consumer waits.
NextValue(c) ==
  /\ c \notin inactive /\ c \notin ToSet(waiters) /\ told[c] = "no"
  /\ \/ /\ values # <<>>
        /\ values' = Tail(values)
        /\ delivered' = Append(delivered, Head(values).id)
        /\ UNCHANGED <<waiters, told>>
     \/ /\ values = <<>> /\ closed
        /\ Tell({c}, IF failed THEN "failed" ELSE "done")
        /\ UNCHANGED <<values, waiters, delivered>>
     \/ /\ values = <<>> /\ ~closed
        /\ waiters' = Append(waiters, c)
        /\ UNCHANGED <<values, told, delivered>>
  /\ UNCHANGED <<closed, failed, inactive, accepted, lost>>

\* return() or throw() of the iterator, which settles its own waiter.
Return(c) ==
  /\ c \notin inactive
  /\ inactive' = inactive \cup {c}
  /\ \/ c \notin ToSet(waiters) /\ UNCHANGED waiters
     \/ \E i \in DOMAIN waiters : waiters[i] = c /\ waiters' = RemoveAt(waiters, i)
  /\ Tell(IF told[c] = "no" THEN {c} ELSE {}, "done")
  /\ UNCHANGED <<values, closed, failed, history>>

Next ==
  \/ \E low \in BOOLEAN : Offer(low) \/ OfferLatest(low) \/ OfferPriority(low)
  \/ Close \/ CloseWithError
  \/ \E c \in Consumer : NextValue(c) \/ Return(c)

Spec == Init /\ [][Next]_vars

-----------------------------------------------------------------------------
(***************************************************************************)
(* Properties.                                                             *)
(***************************************************************************)

\* Nobody waits beside a value or behind a close: no wakeup is lost, whatever
\* offers, returns and closes interleave with next() (async-queue.ts).
NoLostWakeup == waiters # <<>> => values = <<>> /\ ~closed

\* Values reach the consumers in the order of their acceptance, whatever was
\* dropped or evicted between them.
Fifo ==
  LET line == delivered \o [i \in DOMAIN values |-> values[i].id] IN
    \A i, j \in DOMAIN line : i < j => line[i] < line[j]

\* Every accepted value was delivered, is buffered, or was given up by a full
\* queue or an error: a return() or a close does not swallow one.
NothingVanishes ==
  /\ ToSet(delivered) \cup Ids(values) \cup lost = 1 .. accepted
  /\ lost \cap (ToSet(delivered) \cup Ids(values)) = {}

\* A consumer that did not return sees the end of a closed queue only after the
\* buffered values.
DoneMeansDrained ==
  [][\A c \in Consumer \ inactive' :
       told[c] = "no" /\ told'[c] = "done" => closed' /\ values' = <<>>]_vars

=============================================================================
