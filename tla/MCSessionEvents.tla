--------------------------- MODULE MCSessionEvents ---------------------------
(***************************************************************************)
(* Instances of SessionEvents for TLC: bounds on the emissions and records *)
(* of the handlers, and on the connections of the subscribers.             *)
(***************************************************************************)
EXTENDS SessionEvents, TLC


CONSTANTS MaxHandled, \* emissions and records of handlers
          MaxStreams  \* subscriptions

VARIABLES handled, streams  \* how many there were

MCInit == Init /\ handled = 0 /\ streams = 0

MCNext ==
  \/ (Handle \/ Record) /\ handled < MaxHandled /\ handled' = handled + 1 /\ UNCHANGED streams
  \/ /\ \E s \in Subscriber : Subscribe(s)
     /\ streams < MaxStreams /\ streams' = streams + 1 /\ UNCHANGED handled
  \/ /\ \/ TailNext \/ EndNext
        \/ \E s \in Subscriber : NextEvent(s) \/ Unsubscribe(s)
     /\ UNCHANGED <<handled, streams>>

MCSpec == MCInit /\ [][MCNext]_<<vars, handled, streams>>
MCFairSpec == MCSpec /\ Fairness

Symmetry == Permutations(Subscriber)
=============================================================================
