---------------------------- MODULE MCRelayFlow ----------------------------
(***************************************************************************)
(* Three parts of the relay, checked side by side in one run: a behaviour  *)
(* is one of the events of a session, of the queue or of the commands of a *)
(* session, which share no variable here.                                  *)
(* What is fair in a part is disabled where the part begins, so fairness   *)
(* asks nothing of the parts that a behaviour is not about.                *)
(***************************************************************************)
EXTENDS MCSessionEvents

CONSTANTS
  Consumer, Capacity, MaxAccepted,                               \* the queue
  CommandId, Plain, Withdrawal, MaxIncomplete, MaxSettled, MaxExecs \* the commands

VARIABLES
  part,
  values, waiters, queueClosed, queueFailed, inactive, accepted, delivered, lost, told,
  execs, ledger, incomplete, reservation, receipt, endTask, closing, evicted, busy

Queue == INSTANCE AsyncQueue WITH closed <- queueClosed, failed <- queueFailed
Commands == INSTANCE MCSessionCommands WITH ending <- endTask

ASSUME FlowAssumption == Queue!CapacityAssumption /\ Commands!CommandsAssumption

queueVars == <<values, waiters, queueClosed, queueFailed, inactive, accepted, delivered, lost,
               told>>
commandsVars == <<execs, ledger, incomplete, reservation, receipt, endTask, closing, evicted,
                  busy>>
eventsVars == <<vars, handled, streams>>

FlowInit ==
  /\ part \in {"queue", "events", "commands"}
  /\ MCInit /\ Queue!Init /\ Commands!Init

EventsNext == part = "events" /\ MCNext /\ UNCHANGED <<queueVars, commandsVars>>
QueueNext == part = "queue" /\ Queue!Next /\ accepted' <= MaxAccepted
               /\ UNCHANGED <<eventsVars, commandsVars>>
CommandsNext == part = "commands" /\ Commands!MCNext /\ UNCHANGED <<eventsVars, queueVars>>

FlowNext ==
  /\ EventsNext \/ QueueNext \/ CommandsNext
  /\ UNCHANGED part

FlowSpec ==
  /\ FlowInit /\ [][FlowNext]_<<part, eventsVars, queueVars, commandsVars>>
  /\ Fairness /\ Commands!Fairness

-----------------------------------------------------------------------------
\* No consumer waits beside a buffered value or behind a close.
NoLostWakeup == Queue!NoLostWakeup

\* An accepted value is delivered, buffered or given up by policy, and only one
\* of these.
NothingVanishes == Queue!NothingVanishes

\* Commands are applied in turn and not twice, a withdrawal finds a place and
\* every repetition of it gets the same answer, and the ledger stays bounded.
LedgerHolds == Commands!LedgerHolds

\* Every admitted command is answered.
Answered == Commands!Answered
=============================================================================
