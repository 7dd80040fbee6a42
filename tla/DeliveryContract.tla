--------------------------- MODULE DeliveryContract ---------------------------
(***************************************************************************)
(* What the outbox promises to the rest of the platform, without leases,   *)
(* fencing, attempts or workers: every event offered to a consumer is      *)
(* either handled, or given up and put aside for an operator; it is never  *)
(* handled before its cause, never un-handled, and never forgotten.        *)
(***************************************************************************)
EXTENDS Naturals

CONSTANTS Events, Consumers, NoEvent, Cause

VARIABLE promise   \* what became of each event for each consumer

Deliveries == Events \X Consumers

\* none: not offered; open: to be handled; done: handled; dead: given up.
Init == promise = [d \in Deliveries |-> "none"]

CauseDone(d) == Cause[d[1]] # NoEvent => promise[<<Cause[d[1]], d[2]>>] = "done"

\* Deliveries become visible together, with the transaction that caused them.
Offer ==
  \E S \in SUBSET Deliveries :
    /\ \A d \in S : promise[d] = "none"
    /\ promise' = [d \in Deliveries |-> IF d \in S THEN "open" ELSE promise[d]]

Complete(d) ==
  /\ promise[d] = "open"
  /\ CauseDone(d)
  /\ promise' = [promise EXCEPT ![d] = "done"]

GiveUp(d) ==
  /\ promise[d] = "open"
  /\ CauseDone(d)
  /\ promise' = [promise EXCEPT ![d] = "dead"]

Reopen(d) ==
  /\ promise[d] = "dead"
  /\ promise' = [promise EXCEPT ![d] = "open"]

Next ==
  \/ Offer
  \/ \E d \in Deliveries : Complete(d) \/ GiveUp(d) \/ Reopen(d)

SafeSpec == Init /\ [][Next]_promise

Spec == SafeSpec /\ \A d \in Deliveries : WF_promise(Complete(d) \/ GiveUp(d))
=============================================================================
