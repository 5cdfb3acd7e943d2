---------------------------- MODULE SessionCommands ----------------------------
(***************************************************************************)
(* The commands of one session of the relay (src/core/relay.ts command):   *)
(* a ledger of executions by commandId that answers a repeated command     *)
(* with the first execution, the tail on which commands are applied one by *)
(* one, the two terminal commands that do not wait for their turn, the     *)
(* replay of a withdrawal, and the bounds on all of it.                    *)
(*                                                                         *)
(* RelaySession says what an applied command does.  Here applying one takes *)
(* a while and succeeds or fails.  A command stands for its fingerprint.   *)
(***************************************************************************)
EXTENDS Sequences, FiniteSets, Integers

CONSTANTS
  CommandId,
  Plain,         \* start, pause, resume, consent and arm commands
  Withdrawal,    \* withdrawals that participants may ask for
  MaxIncomplete, \* MAX_INCOMPLETE_COMMANDS
  MaxSettled     \* MAX_SETTLED_COMMANDS

CommandsAssumption ==
  /\ MaxIncomplete \in Nat \ {0} /\ MaxSettled \in Nat
  /\ Plain \cap Withdrawal = {} /\ "end" \notin Plain \cup Withdrawal
  /\ "none" \notin Withdrawal

Command == Plain \cup Withdrawal \cup {"end"}
Terminal == Withdrawal \cup {"end"}

VARIABLES
  execs,       \* every execution there was, in the order of their admission
  ledger,      \* runtime.commands: indexes of execs, inserted in their order
  incomplete,  \* runtime.incompleteCommandCount
  reservation, \* the command of runtime.withdrawalReservation, or "none"
  receipt,     \* the event of the withdrawal
  ending,      \* runtime.endTask
  closing,     \* the status is closing or closed
  evicted,     \* executions that the ledger forgot to make room
  busy         \* whether a withdrawal was refused for want of a place before an end

vars == <<execs, ledger, incomplete, reservation, receipt, ending, closing, evicted, busy>>
session == <<reservation, receipt, ending, closing>>

Exec == [id : CommandId, cmd : Command, replay : BOOLEAN,
         state : {"queued", "applying", "ok", "failed"}]

TypeOK ==
  /\ execs \in Seq(Exec)
  /\ ledger \subseteq DOMAIN execs
  /\ incomplete \in 0 .. MaxIncomplete
  /\ reservation \in Withdrawal \cup {"none"}
  /\ receipt \in {"none", "pending", "ok", "failed"}
  /\ ending \in {"none", "pending", "done"}
  /\ closing \in BOOLEAN
  /\ evicted \subseteq DOMAIN execs /\ busy \in BOOLEAN

Init ==
  /\ execs = <<>> /\ ledger = {} /\ incomplete = 0
  /\ reservation = "none" /\ receipt = "none" /\ ending = "none" /\ closing = FALSE
  /\ evicted = {} /\ busy = FALSE

-----------------------------------------------------------------------------
Settled(e) == execs[e].state \in {"ok", "failed"}
Known(id) == \E e \in ledger : execs[e].id = id

\* Ordinary commands leave one place to the terminal ones.
Busy(cmd) == incomplete >= (IF cmd \in Terminal THEN MaxIncomplete ELSE MaxIncomplete - 1)

Admit(id, cmd, replay, state) ==
  /\ execs' = Append(execs, [id |-> id, cmd |-> cmd, replay |-> replay, state |-> state])
  /\ ledger' = ledger \cup {Len(execs) + 1}
  /\ incomplete' = IF replay THEN incomplete ELSE incomplete + 1
  /\ UNCHANGED <<evicted, busy>>

\* A repeated command awaits the execution that the ledger knows, or is refused
\* when its fingerprint differs: neither changes anything.
Fresh(id, cmd) == ~Known(id) /\ ~(cmd \in Withdrawal /\ reservation = cmd)

Refuse(id, cmd) ==
  /\ Fresh(id, cmd) /\ Busy(cmd)
  /\ busy' = (busy \/ (cmd \in Withdrawal /\ ending = "none"))
  /\ UNCHANGED <<execs, ledger, incomplete, session, evicted>>

Submit(id, cmd) ==
  /\ cmd \in Plain
  /\ Fresh(id, cmd) /\ ~Busy(cmd)
  /\ Admit(id, cmd, FALSE, "queued")
  /\ UNCHANGED session

End(id) ==
  /\ Fresh(id, "end") /\ ~Busy("end")
  /\ Admit(id, "end", FALSE, "applying")
  /\ ending' = IF ending = "none" THEN "pending" ELSE ending
  /\ UNCHANGED <<reservation, receipt, closing>>

\* A withdrawal is reserved once, before the session is closing.
Withdraw(id, cmd) ==
  /\ cmd \in Withdrawal
  /\ Fresh(id, cmd) /\ ~Busy(cmd)
  /\ reservation = "none" /\ ~closing
  /\ Admit(id, cmd, FALSE, "applying")
  /\ reservation' = cmd /\ receipt' = "pending"
  /\ ending' = IF ending = "none" THEN "pending" ELSE ending
  /\ UNCHANGED closing

\* The reserved withdrawal again, by another commandId: it takes no place.
Replay(id, cmd) ==
  /\ ~Known(id) /\ cmd \in Withdrawal /\ reservation = cmd
  /\ Admit(id, cmd, TRUE, "applying")
  /\ UNCHANGED session

-----------------------------------------------------------------------------
\* evictSettledCommands: the oldest settled executions go, as long as there are
\* more than MaxSettled of any kind.
Evict(out, done) ==
  LET excess == IF Cardinality(ledger) > MaxSettled THEN Cardinality(ledger) - MaxSettled ELSE 0
  IN /\ \A x \in out, y \in done \ out : x < y
     /\ \/ Cardinality(out) = excess
        \/ Cardinality(out) < excess /\ out = done

\* An execution settles; one that failed is forgotten, so that a repeated
\* command is a new one.
Settle(e, ok) ==
  LET done == {x \in ledger : x = e \/ Settled(x)}
  IN \E out \in SUBSET done :
       /\ Evict(out, done)
       /\ execs' = [execs EXCEPT ![e].state = IF ok THEN "ok" ELSE "failed"]
       /\ incomplete' = IF execs[e].replay THEN incomplete ELSE incomplete - 1
       /\ evicted' = evicted \cup out
       /\ ledger' = ledger \ (IF ok THEN out ELSE out \cup {e})
       /\ UNCHANGED busy

\* Mutant of Turn: a rejection is passed on along the tail.
TurnOfSuccess(e) == \A x \in 1 .. e - 1 : ~execs[x].replay => execs[x].state = "ok"

\* The command tail: everything admitted before has settled, but for replays.
Turn(e) == \A x \in 1 .. e - 1 : ~execs[x].replay => Settled(x)

\* A queued command gets its turn; after an end it is refused.
Begin(e) ==
  /\ execs[e].state = "queued" /\ Turn(e)
  /\ IF ending = "none"
     THEN execs' = [execs EXCEPT ![e].state = "applying"]
          /\ UNCHANGED <<ledger, incomplete, evicted, busy>>
     ELSE Settle(e, FALSE)
  /\ UNCHANGED session

Finish(e, ok) ==
  /\ execs[e].state = "applying" /\ execs[e].cmd \in Plain
  /\ Settle(e, ok)
  /\ UNCHANGED session

\* Mutant of Complete: the event of the withdrawal is not awaited.
CompleteUnrecorded(e) ==
  /\ execs[e].state = "applying" /\ execs[e].cmd \in Terminal
  /\ \/ execs[e].replay /\ Settle(e, TRUE)
     \/ ~execs[e].replay /\ execs[e].cmd \in Withdrawal /\ receipt = "failed" /\ Settle(e, FALSE)
     \/ ~execs[e].replay /\ ending = "done" /\ receipt \in {"none", "ok"} /\ Settle(e, TRUE)
  /\ UNCHANGED session

\* A terminal command settles: an end with the session, a withdrawal when its
\* event was refused, or else with the session.
Complete(e) ==
  /\ execs[e].state = "applying" /\ execs[e].cmd \in Terminal
  /\ \/ execs[e].cmd \in Withdrawal /\ receipt = "failed" /\ Settle(e, FALSE)
     \/ ending = "done" /\ (execs[e].cmd = "end" \/ receipt = "ok") /\ Settle(e, TRUE)
  /\ UNCHANGED session

ReceiptSettles ==
  /\ receipt = "pending"
  /\ receipt' \in {"ok", "failed"}
  /\ UNCHANGED <<execs, ledger, incomplete, reservation, ending, closing, evicted, busy>>

\* A failure of the evidence, of an adapter or of a queue ends the session, too.
EndsItself ==
  /\ ending = "none"
  /\ ending' = "pending"
  /\ UNCHANGED <<execs, ledger, incomplete, reservation, receipt, closing, evicted, busy>>

\* finishEnd moves the status, and settles.
Closes ==
  /\ ending = "pending" /\ ~closing
  /\ closing' = TRUE
  /\ UNCHANGED <<execs, ledger, incomplete, reservation, receipt, ending, evicted, busy>>

EndSettles ==
  /\ ending = "pending" /\ closing /\ receipt # "pending"
  /\ ending' = "done"
  /\ UNCHANGED <<execs, ledger, incomplete, reservation, receipt, closing, evicted, busy>>

Next ==
  \/ \E id \in CommandId :
       \/ \E cmd \in Command : Refuse(id, cmd)
       \/ \E cmd \in Plain : Submit(id, cmd)
       \/ \E cmd \in Withdrawal : Withdraw(id, cmd) \/ Replay(id, cmd)
       \/ End(id)
  \/ \E e \in DOMAIN execs :
       Begin(e) \/ Complete(e) \/ \E ok \in BOOLEAN : Finish(e, ok)
  \/ ReceiptSettles \/ EndsItself \/ Closes \/ EndSettles

Spec == Init /\ [][Next]_vars

\* Commands that began settle, as the awaits of the session are bounded.
Fairness ==
  /\ WF_vars(\E e \in DOMAIN execs : Begin(e) \/ Complete(e) \/ \E ok \in BOOLEAN : Finish(e, ok))
  /\ WF_vars(ReceiptSettles) /\ WF_vars(Closes) /\ WF_vars(EndSettles)

-----------------------------------------------------------------------------
(***************************************************************************)
(* Properties.                                                             *)
(***************************************************************************)

\* Commands are applied one at a time and in the order of their admission,
\* although terminal commands overtake them.
InTurn ==
  \A i, j \in DOMAIN execs :
    i < j /\ execs[i].cmd \in Plain /\ execs[j].cmd \in Plain /\ execs[j].state # "queued"
      => Settled(i)

\* A commandId is not executed again while it is executed or after it succeeded,
\* unless the ledger had to forget it.
NotTwice ==
  \A i, j \in DOMAIN execs :
    i < j /\ execs[i].id = execs[j].id => execs[i].state = "failed" \/ i \in evicted

\* The ledger is bounded by what is settled and what is pending.
LedgerBounded ==
  Cardinality(ledger) <= MaxSettled + Cardinality({e \in ledger : ~Settled(e)})

\* Places are taken by commands that are pending: none is lost to a failure.
PlacesReturn ==
  incomplete = Cardinality({e \in DOMAIN execs : ~execs[e].replay /\ ~Settled(e)})

\* Every repetition of a withdrawal gets the answer of the first.
SameAnswer ==
  \A i, j \in DOMAIN execs :
    /\ execs[i].cmd \in Withdrawal /\ execs[j].cmd \in Withdrawal
    /\ Settled(i) /\ Settled(j)
    => execs[i].state = execs[j].state

\* A withdrawal finds a place unless the session was already told to end,
\* whatever ordinary commands are pending (relay.ts:173).
PlaceForWithdrawal == ~busy

\* Commands are applied in turn and not twice, a withdrawal finds a place and
\* every repetition of it gets the same answer, and the ledger stays bounded.
LedgerHolds ==
  /\ TypeOK /\ InTurn /\ NotTwice /\ SameAnswer
  /\ PlaceForWithdrawal /\ PlacesReturn /\ LedgerBounded

=============================================================================
