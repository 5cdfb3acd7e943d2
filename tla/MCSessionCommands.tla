-------------------------- MODULE MCSessionCommands --------------------------
(***************************************************************************)
(* An instance of SessionCommands for TLC.  The commandIds are numbers and *)
(* come into use in their order: as one is as good as another, this loses  *)
(* nothing, and unlike a symmetry set it is sound for Answered.            *)
(***************************************************************************)
EXTENDS SessionCommands

CONSTANT MaxExecs  \* executions admitted

InOrder ==
  \A e \in DOMAIN execs : execs[e].id <= 1 + Cardinality({execs[x].id : x \in 1 .. e - 1})

MCNext == Next /\ Len(execs') <= MaxExecs /\ InOrder'

MCSpec == Init /\ [][MCNext]_vars /\ Fairness

\* Every admitted command is answered, whatever fails before it on the tail.
Answered ==
  \A e \in 1 .. MaxExecs :
    e \in DOMAIN execs ~> e \in DOMAIN execs /\ Settled(e)
=============================================================================
