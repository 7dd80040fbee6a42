---------------------------- MODULE OutboxContract ----------------------------
(***************************************************************************)
(* The outbox implements the delivery contract.  A row is offered when it  *)
(* is visible, that is when its event has committed; PENDING, CLAIMED and  *)
(* RETRY are one abstract state, so claims, lease takeovers, retries and   *)
(* stale workers are all invisible to the contract.                        *)
(***************************************************************************)
EXTENDS Outbox

PromiseOf(d) ==
  IF stage[d[1]] # "committed" \/ delivery[d].status = "NONE" THEN "none"
  ELSE IF delivery[d].status = "SUCCEEDED" THEN "done"
  ELSE IF delivery[d].status = "QUARANTINED" THEN "dead"
  ELSE "open"

Promises == [d \in Deliveries |-> PromiseOf(d)]

Contract == INSTANCE DeliveryContract WITH promise <- Promises

\* Every step of the outbox is a step of the contract or invisible to it: the
\* promise the handlers in event-handlers.ts and truth-maintenance.ts rely on.
ImplementsContract == Contract!SafeSpec

\* With fair workers the outbox also keeps the contract's obligation: nothing
\* that was offered, and whose cause is done, stays open for ever.
KeepsContract == Contract!Spec
=============================================================================
