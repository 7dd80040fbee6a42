------------------------------- MODULE Outbox -------------------------------
(***************************************************************************)
(* The durable event outbox (packages/postgres/src/outbox.ts) and the      *)
(* worker loop that consumes it (apps/worker/src/event-worker.ts).         *)
(*                                                                         *)
(* An event is appended inside the transaction of the business change it   *)
(* announces; a trigger seeds one delivery row for every consumer that is  *)
(* registered in the trigger's snapshot, and a registration backfills the  *)
(* events committed in its own.  Workers claim deliveries under a lease     *)
(* with a fencing version, run a handler, and settle the delivery.         *)
(*                                                                         *)
(* Time is abstract: a row carries "lease_expires_at has passed" (lapsed)  *)
(* and "next_attempt_at has passed" (due) in place of the timestamps, so a *)
(* lease may lapse, and a backoff elapse, at any moment.                   *)
(***************************************************************************)
EXTENDS Naturals, FiniteSets

CONSTANTS
  Events,        \* events the business transactions append
  Consumers,     \* consumer names
  Workers,       \* DurableEventWorker instances
  Transactions,  \* business transactions
  NoEvent,       \* a causation_id that is null or names no outbox event
  NoWorker,      \* lease_owner is null
  Cause,         \* causation_id of every event
  TxOf,          \* the transaction that appends an event
  ConsumerOf,    \* the consumer a worker serves
  MaxAttempts,   \* event_consumers.max_attempts
  MaxRequeues,   \* bound: operator requeues of one delivery
  MaxFaults      \* bound: crashes, stalls and lost replies in a behaviour

ASSUME CauseAssumption == Cause \in [Events -> Events \cup {NoEvent}]
ASSUME TxAssumption == TxOf \in [Events -> Transactions]
ASSUME ConsumerAssumption == ConsumerOf \in [Workers -> Consumers]
ASSUME NullAssumption == NoEvent \notin Events /\ NoWorker \notin Workers
ASSUME AttemptsAssumption == MaxAttempts \in Nat \ {0}
ASSUME BoundsAssumption == MaxRequeues \in Nat /\ MaxFaults \in Nat

VARIABLES
  stage,       \* life of the event row: absent, inserted (uncommitted), committed
  registered,  \* rows of event_consumers, all of them enabled
  registering, \* the registration of a consumer that has not committed yet
  delivery,    \* event_deliveries, one row per event and consumer
  history,     \* event_delivery_attempts
  quarantine,  \* event_quarantine: open and requeue-requested rows per delivery
  job,         \* what each worker is doing, and the claim it took
  completed,   \* history variable: fencing versions whose handler returned
  faults       \* bound: faults left

vars == <<stage, registered, registering, delivery, history, quarantine, job, completed, faults>>

Deliveries == Events \X Consumers
Stages == {"absent", "inserted", "committed"}
Statuses == {"NONE", "PENDING", "CLAIMED", "RETRY", "SUCCEEDED", "QUARANTINED"}
Settlements == {"SUCCEEDED", "RETRY", "QUARANTINED"}
Phases == {"idle", "handling", "acking", "failing"}

DeliveryRow ==
  [status: Statuses, attempts: Nat, owner: Workers \cup {NoWorker},
   fence: Nat, generation: Nat, due: BOOLEAN, lapsed: BOOLEAN]

AttemptRow ==
  [delivery: Deliveries, generation: Nat, attempt: Nat, fence: Nat,
   outcome: Settlements \cup {"CLAIMED"}]

Claim == [delivery: Deliveries, fence: Nat, attempts: Nat, generation: Nat]

NoRow == [status |-> "NONE", attempts |-> 0, owner |-> NoWorker,
          fence |-> 0, generation |-> 0, due |-> TRUE, lapsed |-> FALSE]
Seeded == [NoRow EXCEPT !.status = "PENDING"]
Idle == [phase |-> "idle"]
NotRegistering == [open |-> FALSE, seen |-> {}]

Init ==
  /\ stage = [e \in Events |-> "absent"]
  /\ registered = {}
  /\ registering = [c \in Consumers |-> NotRegistering]
  /\ delivery = [d \in Deliveries |-> NoRow]
  /\ history = {}
  /\ quarantine = [d \in Deliveries |-> [open |-> 0, requeued |-> 0]]
  /\ job = [w \in Workers |-> Idle]
  /\ completed = [d \in Deliveries |-> {}]
  /\ faults = MaxFaults

-----------------------------------------------------------------------------
(* Appending: the business transaction and the fan-out trigger.             *)

\* Callers pass the id of an event they appended earlier, in the same
\* transaction or in one that has committed.
CauseIsWritten(e) ==
  Cause[e] # NoEvent =>
    \/ stage[Cause[e]] = "committed"
    \/ stage[Cause[e]] = "inserted" /\ TxOf[Cause[e]] = TxOf[e]

\* insert into event_outbox; the trigger seeds a row for the consumers that
\* are committed at this moment.  Nobody else sees either row before commit.
appendOutboxEvent(e) ==
  /\ stage[e] = "absent"
  /\ CauseIsWritten(e)
  /\ stage' = [stage EXCEPT ![e] = "inserted"]
  /\ delivery' = [d \in Deliveries |->
                    IF d[1] = e /\ d[2] \in registered THEN Seeded ELSE delivery[d]]
  /\ UNCHANGED <<registered, registering, history, quarantine, job, completed, faults>>

commitTransaction(t) ==
  /\ \E e \in Events : TxOf[e] = t
  /\ \A e \in Events : TxOf[e] = t => stage[e] = "inserted"
  /\ stage' = [e \in Events |-> IF TxOf[e] = t THEN "committed" ELSE stage[e]]
  /\ UNCHANGED <<registered, registering, delivery, history, quarantine, job, completed, faults>>

rollbackTransaction(t) ==
  /\ \E e \in Events : TxOf[e] = t /\ stage[e] = "inserted"
  /\ stage' = [e \in Events |->
                 IF TxOf[e] = t /\ stage[e] = "inserted" THEN "absent" ELSE stage[e]]
  /\ delivery' = [d \in Deliveries |->
                    IF TxOf[d[1]] = t /\ stage[d[1]] = "inserted" THEN NoRow
                                                                  ELSE delivery[d]]
  /\ UNCHANGED <<registered, registering, history, quarantine, job, completed, faults>>

\* One transaction of two READ COMMITTED statements.  Nobody sees the upsert of
\* the first before the commit, and its row lock keeps other registrations of
\* this consumer out; the backfill reads the events committed when it starts.
registerEventConsumer(c) ==
  /\ ~registering[c].open
  /\ registering' = [registering EXCEPT ![c] =
                       [open |-> TRUE, seen |-> {e \in Events : stage[e] = "committed"}]]
  /\ UNCHANGED <<stage, registered, delivery, history, quarantine, job, completed, faults>>

\* Mutation: registers without the backfill.
commitWithoutBackfill(c) ==
  /\ registering[c].open
  /\ registered' = registered \cup {c}
  /\ registering' = [registering EXCEPT ![c] = NotRegistering]
  /\ UNCHANGED <<stage, delivery, history, quarantine, job, completed, faults>>

\* The consumer and the rows its backfill inserted become visible together.
commitRegistration(c) ==
  /\ registering[c].open
  /\ registered' = registered \cup {c}
  /\ delivery' = [d \in Deliveries |->
                    IF d[2] = c /\ d[1] \in registering[c].seen /\ delivery[d].status = "NONE"
                    THEN Seeded ELSE delivery[d]]
  /\ registering' = [registering EXCEPT ![c] = NotRegistering]
  /\ UNCHANGED <<stage, history, quarantine, job, completed, faults>>

\* The process dies or a statement fails before the commit.
rollbackRegistration(c) ==
  /\ registering[c].open
  /\ registering' = [registering EXCEPT ![c] = NotRegistering]
  /\ UNCHANGED <<stage, registered, delivery, history, quarantine, job, completed, faults>>

-----------------------------------------------------------------------------
(* Claiming, renewing and settling one delivery.                            *)

\* insert into event_delivery_attempts ... on conflict do nothing, with the
\* key (event, consumer, generation, attempt, outcome) of migration 018.
Record(row) ==
  history' = IF \E h \in history : /\ h.delivery = row.delivery
                                   /\ h.generation = row.generation
                                   /\ h.attempt = row.attempt
                                   /\ h.outcome = row.outcome
             THEN history
             ELSE history \cup {row}

\* Mutation: a cause that was given up counts as done.
CausallySettled(d) ==
  Cause[d[1]] # NoEvent =>
    \/ stage[Cause[d[1]]] # "committed"
    \/ delivery[<<Cause[d[1]], d[2]>>].status \in {"SUCCEEDED", "QUARANTINED"}

\* The cause is null, names no event of the outbox, or this consumer is done
\* with it.
CausallyReady(d) ==
  Cause[d[1]] # NoEvent =>
    \/ stage[Cause[d[1]]] # "committed"
    \/ delivery[<<Cause[d[1]], d[2]>>].status = "SUCCEEDED"

\* Mutation: a lapsed claim is never taken over.
ClaimableOnce(d) ==
  /\ stage[d[1]] = "committed"
  /\ delivery[d].status \in {"PENDING", "RETRY"} /\ delivery[d].due
  /\ CausallyReady(d)

Claimable(d) ==
  /\ stage[d[1]] = "committed"
  /\ \/ delivery[d].status \in {"PENDING", "RETRY"} /\ delivery[d].due
     \/ delivery[d].status = "CLAIMED" /\ delivery[d].lapsed
  /\ CausallyReady(d)

claimNextEventDelivery(w, d) ==
  /\ job[w].phase = "idle"
  /\ ConsumerOf[w] = d[2]
  /\ Claimable(d)
  /\ LET row == [delivery[d] EXCEPT !.status = "CLAIMED", !.attempts = @ + 1,
                                    !.owner = w, !.fence = @ + 1, !.lapsed = FALSE]
         claim == [delivery |-> d, fence |-> row.fence, attempts |-> row.attempts,
                   generation |-> row.generation]
     IN  /\ delivery' = [delivery EXCEPT ![d] = row]
         /\ job' = [job EXCEPT ![w] = [phase |-> "handling", claim |-> claim]]
         /\ Record([delivery |-> d, generation |-> row.generation,
                    attempt |-> row.attempts, fence |-> row.fence,
                    outcome |-> "CLAIMED"])
  /\ UNCHANGED <<stage, registered, registering, quarantine, completed, faults>>

\* Mutation: compares the fencing version only.
OwnsFence(w) ==
  /\ job[w].phase # "idle"
  /\ delivery[job[w].claim.delivery].fence = job[w].claim.fence

\* The where clause of heartbeat, acknowledge and fail.  lease_token is a
\* fresh uuid per claim, as the fencing version is fresh per claim of a row.
OwnsLease(w) ==
  /\ job[w].phase # "idle"
  /\ LET row == delivery[job[w].claim.delivery]
     IN  row.status = "CLAIMED" /\ row.owner = w /\ row.fence = job[w].claim.fence

\* The timer of startHeartbeat: it renews a lease that already lapsed as long
\* as nobody claimed the row in between.
heartbeatEventDelivery(w) ==
  /\ OwnsLease(w)
  /\ delivery[job[w].claim.delivery].lapsed
  /\ delivery' = [delivery EXCEPT ![job[w].claim.delivery].lapsed = FALSE]
  /\ UNCHANGED <<stage, registered, registering, history, quarantine, job, completed, faults>>

ContinueAs(w, phase) == job' = [job EXCEPT ![w].phase = phase]
Finish(w) == job' = [job EXCEPT ![w] = Idle]

\* Settle the claimed row: clear the lease and append the outcome row.
SettleAs(w, status, due) ==
  LET c == job[w].claim
      row == [delivery[c.delivery] EXCEPT !.status = status, !.owner = NoWorker,
                                          !.lapsed = FALSE, !.due = due]
  IN  /\ delivery' = [delivery EXCEPT ![c.delivery] = row]
      /\ Record([delivery |-> c.delivery, generation |-> c.generation,
                 attempt |-> c.attempts, fence |-> c.fence, outcome |-> status])

acknowledgeEventDelivery(w) ==
  /\ job[w].phase = "acking"
  /\ OwnsLease(w)
  /\ SettleAs(w, "SUCCEEDED", TRUE)
  /\ UNCHANGED <<stage, registered, registering, quarantine, completed>>

\* Claims count as attempts, so a crashed worker's count too.
IsTerminal(c) == c.attempts >= MaxAttempts

failEventDelivery(w) ==
  /\ job[w].phase = "failing"
  /\ OwnsLease(w)
  /\ LET c == job[w].claim
     IN  IF IsTerminal(c)
         THEN /\ SettleAs(w, "QUARANTINED", FALSE)
              /\ quarantine' = [quarantine EXCEPT ![c.delivery].open = @ + 1]
         ELSE /\ SettleAs(w, "RETRY", FALSE)
              /\ UNCHANGED quarantine
  /\ UNCHANGED <<stage, registered, registering, completed>>

\* Mutation: leaves the quarantine row open.
requeueLeavingQuarantine(d) ==
  /\ delivery[d].status = "QUARANTINED"
  /\ delivery[d].generation < MaxRequeues
  /\ LET row == [delivery[d] EXCEPT !.status = "PENDING", !.attempts = 0, !.due = TRUE,
                                    !.generation = @ + 1]
     IN  delivery' = [delivery EXCEPT ![d] = row]
  /\ UNCHANGED <<stage, registered, registering, history, quarantine, job, completed, faults>>

requeueEventDelivery(d) ==
  /\ delivery[d].status = "QUARANTINED"
  /\ delivery[d].generation < MaxRequeues
  /\ LET row == [delivery[d] EXCEPT !.status = "PENDING", !.attempts = 0, !.due = TRUE,
                                    !.generation = @ + 1]
     IN  delivery' = [delivery EXCEPT ![d] = row]
  /\ quarantine' = [quarantine EXCEPT ![d] =
                      [open |-> 0, requeued |-> @.requeued + @.open]]
  /\ UNCHANGED <<stage, registered, registering, history, job, completed, faults>>

-----------------------------------------------------------------------------
(* runOnce of the worker, between its calls to the outbox.                   *)

SpendFault == faults > 0 /\ faults' = faults - 1

HandlerReturns(w) ==
  /\ job[w].phase = "handling"
  /\ ContinueAs(w, "acking")
  /\ completed' = [completed EXCEPT ![job[w].claim.delivery] = @ \cup {job[w].claim.fence}]
  /\ UNCHANGED <<stage, registered, registering, delivery, history, quarantine, faults>>

\* The handler throws, or the event version is not supported.
HandlerThrows(w) ==
  /\ job[w].phase = "handling"
  /\ ContinueAs(w, "failing")
  /\ UNCHANGED <<stage, registered, registering, delivery, history, quarantine, completed, faults>>

Acknowledged(w) == acknowledgeEventDelivery(w) /\ Finish(w) /\ UNCHANGED faults

\* The acknowledgement committed and its reply was lost: the worker takes the
\* catch branch with a delivery that is already SUCCEEDED.
AcknowledgedReplyLost(w) ==
  acknowledgeEventDelivery(w) /\ ContinueAs(w, "failing") /\ SpendFault

\* The acknowledgement did not commit: the database failed, or EVENT_LEASE_LOST.
AcknowledgeRejected(w) ==
  /\ job[w].phase = "acking"
  /\ ContinueAs(w, "failing")
  /\ IF OwnsLease(w) THEN SpendFault ELSE UNCHANGED faults
  /\ UNCHANGED <<stage, registered, registering, delivery, history, quarantine, completed>>

FailureRecorded(w) == failEventDelivery(w) /\ Finish(w) /\ UNCHANGED faults

\* EVENT_LEASE_LOST in the catch branch: the stale attempt is dropped.
FailureDropped(w) ==
  /\ job[w].phase = "failing"
  /\ ~OwnsLease(w)
  /\ Finish(w)
  /\ UNCHANGED <<stage, registered, registering, delivery, history, quarantine, completed, faults>>

\* The process dies, or the failure itself could not be recorded and run()
\* rejects; a restarted worker remembers no claim.
Crash(w) ==
  /\ job[w].phase # "idle"
  /\ SpendFault
  /\ Finish(w)
  /\ UNCHANGED <<stage, registered, registering, delivery, history, quarantine, completed>>

-----------------------------------------------------------------------------
(* The clock of the database.                                               *)

\* Without a live holder the lease lapses by itself; with one it lapses only
\* when the holder stalls longer than its heartbeat allows.
LeaseLapses(d) ==
  /\ delivery[d].status = "CLAIMED"
  /\ ~delivery[d].lapsed
  /\ IF \E w \in Workers : OwnsLease(w) /\ job[w].claim.delivery = d
     THEN SpendFault ELSE UNCHANGED faults
  /\ delivery' = [delivery EXCEPT ![d].lapsed = TRUE]
  /\ UNCHANGED <<stage, registered, registering, history, quarantine, job, completed>>

BackoffElapses(d) ==
  /\ delivery[d].status = "RETRY"
  /\ ~delivery[d].due
  /\ delivery' = [delivery EXCEPT ![d].due = TRUE]
  /\ UNCHANGED <<stage, registered, registering, history, quarantine, job, completed, faults>>

WorkerStep(w) ==
  \/ HandlerReturns(w)
  \/ HandlerThrows(w)
  \/ Acknowledged(w)
  \/ AcknowledgedReplyLost(w)
  \/ AcknowledgeRejected(w)
  \/ FailureRecorded(w)
  \/ FailureDropped(w)

Next ==
  \/ \E e \in Events : appendOutboxEvent(e)
  \/ \E t \in Transactions : commitTransaction(t) \/ rollbackTransaction(t)
  \/ \E c \in Consumers :
       registerEventConsumer(c) \/ commitRegistration(c) \/ rollbackRegistration(c)
  \/ \E w \in Workers, d \in Deliveries : claimNextEventDelivery(w, d)
  \/ \E w \in Workers : heartbeatEventDelivery(w) \/ WorkerStep(w) \/ Crash(w)
  \/ \E d \in Deliveries :
       requeueEventDelivery(d) \/ LeaseLapses(d) \/ BackoffElapses(d)

Spec == Init /\ [][Next]_vars

\* A worker keeps polling, a handler returns or throws, and clocks advance.
\* Nothing obliges a business transaction to commit, an operator to requeue,
\* a consumer to register or a heartbeat to arrive in time.
TimePasses == \E d \in Deliveries : LeaseLapses(d) \/ BackoffElapses(d)

WorkerRuns(w) == WorkerStep(w) \/ \E d \in Deliveries : claimNextEventDelivery(w, d)

Fairness == WF_vars(TimePasses) /\ \A w \in Workers : WF_vars(WorkerRuns(w))

FairSpec == Spec /\ Fairness

-----------------------------------------------------------------------------
(* Properties.                                                              *)

TypeOK ==
  /\ stage \in [Events -> Stages]
  /\ registered \in SUBSET Consumers
  /\ registering \in [Consumers -> [open: BOOLEAN, seen: SUBSET Events]]
  /\ delivery \in [Deliveries -> DeliveryRow]
  /\ history \in SUBSET AttemptRow
  /\ quarantine \in [Deliveries -> [open: Nat, requeued: Nat]]
  /\ job \in [Workers -> {Idle} \cup [phase: Phases \ {"idle"}, claim: Claim]]
  /\ completed \in [Deliveries -> SUBSET Nat]
  /\ faults \in Nat

\* Causal delivery (the causation clause of claimNextEventDelivery): once a
\* consumer has been handed an event, the event that caused it has SUCCEEDED
\* for that consumer, and stays so through retries, takeovers and requeues.
CausalOrder ==
  \A d \in Deliveries :
    (delivery[d].fence > 0 /\ Cause[d[1]] # NoEvent)
      => delivery[<<Cause[d[1]], d[2]>>].status = "SUCCEEDED"

\* Fencing (acknowledgeEventDelivery, failEventDelivery): one claim settles at
\* most once, whatever stale workers and lost replies do.
SettledOncePerClaim ==
  \A h, k \in history :
    (/\ h.delivery = k.delivery /\ h.fence = k.fence
     /\ h.outcome \in Settlements /\ k.outcome \in Settlements) => h = k

\* "on conflict do nothing" never swallows a history row: every claim left its
\* CLAIMED row although requeue starts the attempt numbers again, and the
\* current attempt number counts the claims of the current generation.
HistoryIsComplete ==
  \A d \in Deliveries :
    LET claims == {h \in history : h.delivery = d /\ h.outcome = "CLAIMED"}
    IN  /\ Cardinality(claims) = delivery[d].fence
        /\ Cardinality({h \in claims : h.generation = delivery[d].generation})
             = delivery[d].attempts

\* event_quarantine agrees with event_deliveries: a delivery has one open
\* quarantine row exactly while it is QUARANTINED, and a requeued row for each
\* generation it went through before.
QuarantineAgrees ==
  \A d \in Deliveries :
    /\ quarantine[d].open = IF delivery[d].status = "QUARANTINED" THEN 1 ELSE 0
    /\ quarantine[d].requeued = delivery[d].generation

\* At-least-once: a delivery is SUCCEEDED only after its handler returned
\* under the very claim that acknowledged it.
SucceededWasHandled ==
  \A d \in Deliveries :
    delivery[d].status = "SUCCEEDED" => delivery[d].fence \in completed[d]

\* The retry budget of failEventDelivery: a delivery waits for a retry only
\* with attempts left, and is quarantined only when they are used up.
RetryBudget ==
  \A d \in Deliveries :
    /\ delivery[d].status = "RETRY" => delivery[d].attempts < MaxAttempts
    /\ delivery[d].status = "QUARANTINED" => delivery[d].attempts >= MaxAttempts

\* SUCCEEDED is final, fencing versions never go back, and a quarantined
\* delivery moves again only as a new generation ("can only move again through
\* an explicit requeue operation").
DeliveryStep(d) ==
  /\ delivery[d].status = "SUCCEEDED" => delivery'[d] = delivery[d]
  /\ delivery'[d].fence >= delivery[d].fence
  /\ (delivery[d].status = "QUARANTINED" /\ delivery'[d].status # "QUARANTINED")
       => delivery'[d].generation = delivery[d].generation + 1
SettlementIsFinal == [][\A d \in Deliveries : stage[d[1]] = "committed" => DeliveryStep(d)]_vars

\* The books agree, whatever stale workers, lost replies, retries and requeues
\* do: the rows, the history of attempts and the quarantine tell one story.
BooksAgree ==
  /\ TypeOK
  /\ SettledOncePerClaim
  /\ HistoryIsComplete
  /\ QuarantineAgrees
  /\ SucceededWasHandled
  /\ RetryBudget

\* Fan-out (akp_seed_event_delivery, registerEventConsumer): a gap is a committed
\* event without the row of a committed consumer.  One opens only where an
\* insertion and a first registration overlapped: the trigger ran before the
\* registration committed, and the event committed after the backfill had read.
\* The next registration that reads the event closes the gap, and no retry,
\* quarantine, rollback or further registration opens another.
Gap(e, c) ==
  stage[e] = "committed" /\ c \in registered /\ delivery[<<e, c>>].status = "NONE"
Overlap(e, c) ==
  IF c \in registered THEN stage[e] = "inserted" ELSE e \notin registering[c].seen
FanOutGap ==
  [][\A e \in Events, c \in Consumers :
       Gap(e, c)' =>
         /\ Gap(e, c) \/ Overlap(e, c)
         /\ commitRegistration(c) => e \notin registering[c].seen]_vars
=============================================================================
