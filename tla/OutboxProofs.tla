----------------------------- MODULE OutboxProofs -----------------------------
(* Machine-checked theorems about the outbox, for every value of its constants. *)
EXTENDS OutboxContract, FiniteSetTheorems, TLAPS

USE DEF Deliveries

\* The rows and jobs the actions write are of the types TypeOK names.
LEMMA NullRows == NoRow \in DeliveryRow /\ Seeded \in DeliveryRow
BY DEF NoRow, Seeded, DeliveryRow, Statuses

\* The three ways the actions rewrite a row keep it a row.
LEMMA FlagType ==
  ASSUME NEW r \in DeliveryRow, NEW b \in BOOLEAN
  PROVE  [r EXCEPT !.lapsed = b] \in DeliveryRow /\ [r EXCEPT !.due = b] \in DeliveryRow
BY DEF DeliveryRow

\* A claimed row is a row.
LEMMA ClaimType ==
  ASSUME NEW r \in DeliveryRow, NEW w \in Workers
  PROVE  [r EXCEPT !.status = "CLAIMED", !.attempts = @ + 1, !.owner = w,
                   !.fence = @ + 1, !.lapsed = FALSE] \in DeliveryRow
<1>1. r.attempts + 1 \in Nat /\ r.fence + 1 \in Nat
  BY DEF DeliveryRow
<1>2. \A m, n \in Nat :
        [r EXCEPT !.status = "CLAIMED", !.attempts = m, !.owner = w,
                  !.fence = n, !.lapsed = FALSE] \in DeliveryRow
  BY DEF DeliveryRow, Statuses
<1>3. QED
  BY ONLY <1>1, <1>2

\* A requeued row is a row.
LEMMA RequeueType ==
  ASSUME NEW r \in DeliveryRow
  PROVE  [r EXCEPT !.status = "PENDING", !.attempts = 0, !.due = TRUE,
                   !.generation = @ + 1] \in DeliveryRow
<1>1. r.generation + 1 \in Nat
  BY DEF DeliveryRow
<1>2. \A n \in Nat : [r EXCEPT !.status = "PENDING", !.attempts = 0, !.due = TRUE,
                               !.generation = n] \in DeliveryRow
  BY DEF DeliveryRow, Statuses
<1>3. QED
  BY ONLY <1>1, <1>2

\* Appending a history row keeps the history well typed.
LEMMA RecordType ==
  ASSUME history \in SUBSET AttemptRow, NEW row \in AttemptRow, Record(row)
  PROVE  history' \in SUBSET AttemptRow
BY DEF Record

\* A busy worker holds a claim.
LEMMA BusyJob ==
  ASSUME TypeOK, NEW w \in Workers, job[w].phase # "idle"
  PROVE  /\ job[w] \in [phase: Phases \ {"idle"}, claim: Claim]
         /\ job[w].claim \in Claim
         /\ job[w].claim.delivery \in Deliveries
BY DEF TypeOK, Idle, Claim

\* Settling leaves well-typed rows behind.
LEMMA SettleType ==
  ASSUME TypeOK, NEW w \in Workers, job[w].phase # "idle",
         NEW status \in Settlements, NEW due \in BOOLEAN, SettleAs(w, status, due)
  PROVE  delivery' \in [Deliveries -> DeliveryRow] /\ history' \in SUBSET AttemptRow
<1> DEFINE c == job[w].claim
           row == [delivery |-> c.delivery, generation |-> c.generation,
                   attempt |-> c.attempts, fence |-> c.fence, outcome |-> status]
<1>1. c \in Claim /\ c.delivery \in Deliveries
  BY BusyJob
<1>2. row \in AttemptRow
  BY <1>1 DEF AttemptRow, Claim
<1>3. history' \in SUBSET AttemptRow
  BY <1>2, RecordType DEF SettleAs, TypeOK
<1>4. delivery[c.delivery] \in DeliveryRow
  BY <1>1 DEF TypeOK
<1>5. [delivery[c.delivery] EXCEPT !.status = status, !.owner = NoWorker,
                                  !.lapsed = FALSE, !.due = due] \in DeliveryRow
  BY <1>4 DEF DeliveryRow, Statuses, Settlements
<1>6. QED
  BY <1>1, <1>3, <1>5 DEF SettleAs, TypeOK

\* Moving a busy worker to another phase, or back to idle, keeps job typed.
LEMMA JobType ==
  ASSUME TypeOK, NEW w \in Workers, job[w].phase # "idle",
         \/ Finish(w)
         \/ \E phase \in Phases \ {"idle"} : ContinueAs(w, phase)
  PROVE  job' \in [Workers -> {Idle} \cup [phase: Phases \ {"idle"}, claim: Claim]]
<1>1. job[w] \in [phase: Phases \ {"idle"}, claim: Claim]
  BY BusyJob
<1>2. CASE Finish(w)
  BY <1>2 DEF Finish, TypeOK
<1>3. CASE \E phase \in Phases \ {"idle"} : ContinueAs(w, phase)
  BY <1>1, <1>3 DEF ContinueAs, TypeOK
<1>4. QED
  BY <1>2, <1>3

\* Spending a fault keeps the budget a natural number.
LEMMA FaultsType ==
  ASSUME faults \in Nat, SpendFault \/ UNCHANGED faults
  PROVE  faults' \in Nat
BY DEF SpendFault

\* The empty tables are well typed.
LEMMA InitType == Init => TypeOK
<1> SUFFICES ASSUME Init PROVE TypeOK
  OBVIOUS
<1>1. faults \in Nat
  BY BoundsAssumption DEF Init
<1>2. delivery \in [Deliveries -> DeliveryRow]
  BY NullRows DEF Init
<1>3. QED
  BY <1>1, <1>2 DEF Init, TypeOK, Stages, NotRegistering

\* Every action keeps the tables well typed: the induction step of TypeCorrect.
LEMMA NextType == TypeOK /\ [Next]_vars => TypeOK'
<1> SUFFICES ASSUME TypeOK, [Next]_vars PROVE TypeOK'
  OBVIOUS
<1>1. ASSUME NEW e \in Events, appendOutboxEvent(e) PROVE TypeOK'
  BY <1>1, NullRows DEF appendOutboxEvent, TypeOK, Stages
<1>2. ASSUME NEW t \in Transactions, commitTransaction(t) PROVE TypeOK'
  BY <1>2 DEF commitTransaction, TypeOK, Stages
<1>3. ASSUME NEW t \in Transactions, rollbackTransaction(t) PROVE TypeOK'
  BY <1>3, NullRows DEF rollbackTransaction, TypeOK, Stages
<1>4. ASSUME NEW c \in Consumers,
             registerEventConsumer(c) \/ commitRegistration(c) \/ rollbackRegistration(c)
      PROVE  TypeOK'
  <2>1. CASE registerEventConsumer(c)
    <3>1. [open |-> TRUE, seen |-> {e \in Events : stage[e] = "committed"}]
            \in [open: BOOLEAN, seen: SUBSET Events]
      OBVIOUS
    <3>2. QED
      BY <2>1, <3>1 DEF registerEventConsumer, TypeOK
  <2>2. CASE commitRegistration(c)
    BY <2>2, NullRows DEF commitRegistration, NotRegistering, TypeOK
  <2>3. CASE rollbackRegistration(c)
    BY <2>3 DEF rollbackRegistration, NotRegistering, TypeOK
  <2>4. QED
    BY <1>4, <2>1, <2>2, <2>3
<1>5. ASSUME NEW w \in Workers, NEW d \in Deliveries, claimNextEventDelivery(w, d)
      PROVE  TypeOK'
  <2> DEFINE row == [delivery[d] EXCEPT !.status = "CLAIMED", !.attempts = @ + 1,
                                        !.owner = w, !.fence = @ + 1, !.lapsed = FALSE]
             claim == [delivery |-> d, fence |-> row.fence, attempts |-> row.attempts,
                       generation |-> row.generation]
             entry == [delivery |-> d, generation |-> row.generation,
                       attempt |-> row.attempts, fence |-> row.fence,
                       outcome |-> "CLAIMED"]
  <2>1. delivery[d] \in DeliveryRow
    BY DEF TypeOK
  <2>2. row \in DeliveryRow
    BY <2>1, ClaimType
  <2>3. claim \in Claim
    BY <2>2 DEF Claim, DeliveryRow
  <2>4. entry \in AttemptRow
    BY <2>2 DEF AttemptRow, DeliveryRow
  <2>5. /\ delivery' = [delivery EXCEPT ![d] = row]
        /\ job' = [job EXCEPT ![w] = [phase |-> "handling", claim |-> claim]]
        /\ Record(entry)
        /\ UNCHANGED <<stage, registered, registering, quarantine, completed, faults>>
    BY <1>5 DEF claimNextEventDelivery
  <2> HIDE DEF row, claim, entry
  <2>6. history' \in SUBSET AttemptRow
    BY <2>4, <2>5, RecordType DEF TypeOK
  <2>7. delivery' \in [Deliveries -> DeliveryRow]
    BY <2>2, <2>5 DEF TypeOK
  <2>8. job' \in [Workers -> {Idle} \cup [phase: Phases \ {"idle"}, claim: Claim]]
    BY <2>3, <2>5 DEF TypeOK, Phases
  <2>9. QED
    BY <2>5, <2>6, <2>7, <2>8 DEF TypeOK
<1>6. ASSUME NEW w \in Workers, heartbeatEventDelivery(w) PROVE TypeOK'
  <2>1. job[w].claim.delivery \in Deliveries
    BY <1>6, BusyJob DEF heartbeatEventDelivery, OwnsLease
  <2>2. delivery' \in [Deliveries -> DeliveryRow]
    BY <1>6, <2>1, FlagType DEF heartbeatEventDelivery, TypeOK
  <2>3. QED
    BY <1>6, <2>2 DEF heartbeatEventDelivery, TypeOK
<1>7. ASSUME NEW w \in Workers, WorkerStep(w) PROVE TypeOK'
  <2>1. CASE HandlerReturns(w)
    <3>1. /\ job[w].claim \in Claim
          /\ job' \in [Workers -> {Idle} \cup [phase: Phases \ {"idle"}, claim: Claim]]
      BY <2>1, BusyJob, JobType DEF HandlerReturns, Phases
    <3>2. completed' \in [Deliveries -> SUBSET Nat]
      BY <2>1, <3>1 DEF HandlerReturns, TypeOK, Claim
    <3>3. QED
      BY <2>1, <3>1, <3>2 DEF HandlerReturns, TypeOK
  <2>2. CASE HandlerThrows(w)
    BY <2>2, JobType DEF HandlerThrows, TypeOK, Phases
  <2>3. ASSUME acknowledgeEventDelivery(w), SpendFault \/ UNCHANGED faults,
               Finish(w) \/ ContinueAs(w, "failing")
        PROVE  TypeOK'
    <3>1. job' \in [Workers -> {Idle} \cup [phase: Phases \ {"idle"}, claim: Claim]]
      BY <2>3, JobType DEF acknowledgeEventDelivery, Phases
    <3>2. delivery' \in [Deliveries -> DeliveryRow] /\ history' \in SUBSET AttemptRow
      BY <2>3, SettleType DEF acknowledgeEventDelivery, Settlements
    <3>3. faults' \in Nat
      BY <2>3, FaultsType DEF TypeOK
    <3>4. QED
      BY <2>3, <3>1, <3>2, <3>3 DEF acknowledgeEventDelivery, TypeOK
  <2>4. CASE AcknowledgeRejected(w)
    <3>1. job' \in [Workers -> {Idle} \cup [phase: Phases \ {"idle"}, claim: Claim]]
      BY <2>4, JobType DEF AcknowledgeRejected, Phases
    <3>2. faults' \in Nat
      BY <2>4, FaultsType DEF AcknowledgeRejected, TypeOK
    <3>3. QED
      BY <2>4, <3>1, <3>2 DEF AcknowledgeRejected, TypeOK
  <2>5. CASE FailureRecorded(w)
    <3>1. job' \in [Workers -> {Idle} \cup [phase: Phases \ {"idle"}, claim: Claim]]
      BY <2>5, JobType DEF FailureRecorded, failEventDelivery
    <3>2. delivery' \in [Deliveries -> DeliveryRow] /\ history' \in SUBSET AttemptRow
      BY <2>5, SettleType DEF FailureRecorded, failEventDelivery, Settlements
    <3>3. job[w].claim.delivery \in Deliveries
      BY <2>5, BusyJob DEF FailureRecorded, failEventDelivery
    <3>4. quarantine' \in [Deliveries -> [open: Nat, requeued: Nat]]
      <4>1. \A q \in [open: Nat, requeued: Nat] :
              [q EXCEPT !.open = q.open + 1] \in [open: Nat, requeued: Nat]
        OBVIOUS
      <4>2. \/ quarantine' = [quarantine EXCEPT ![job[w].claim.delivery].open = @ + 1]
            \/ quarantine' = quarantine
        BY <2>5 DEF FailureRecorded, failEventDelivery
      <4>3. quarantine \in [Deliveries -> [open: Nat, requeued: Nat]]
        BY DEF TypeOK
      <4>4. QED
        BY ONLY <3>3, <4>1, <4>2, <4>3
    <3>5. QED
      BY <2>5, <3>1, <3>2, <3>4 DEF FailureRecorded, failEventDelivery, TypeOK
  <2>6. CASE FailureDropped(w)
    BY <2>6, JobType DEF FailureDropped, TypeOK
  <2>7. QED
    BY <1>7, <2>1, <2>2, <2>3, <2>4, <2>5, <2>6
       DEF WorkerStep, Acknowledged, AcknowledgedReplyLost
<1>8. ASSUME NEW w \in Workers, Crash(w) PROVE TypeOK'
  BY <1>8, JobType, FaultsType DEF Crash, TypeOK
<1>9. ASSUME NEW d \in Deliveries, requeueEventDelivery(d) PROVE TypeOK'
  <2>1. delivery' \in [Deliveries -> DeliveryRow]
    BY <1>9, RequeueType DEF requeueEventDelivery, TypeOK
  <2>2. quarantine' \in [Deliveries -> [open: Nat, requeued: Nat]]
    BY <1>9 DEF requeueEventDelivery, TypeOK
  <2>3. QED
    BY <1>9, <2>1, <2>2 DEF requeueEventDelivery, TypeOK
<1>10. ASSUME NEW d \in Deliveries, LeaseLapses(d) PROVE TypeOK'
  <2>1. delivery' \in [Deliveries -> DeliveryRow]
    BY <1>10, FlagType DEF LeaseLapses, TypeOK
  <2>2. faults' \in Nat
    BY <1>10, FaultsType DEF LeaseLapses, TypeOK
  <2>3. QED
    BY <1>10, <2>1, <2>2 DEF LeaseLapses, TypeOK
<1>11. ASSUME NEW d \in Deliveries, BackoffElapses(d) PROVE TypeOK'
  <2>1. delivery' \in [Deliveries -> DeliveryRow]
    BY <1>11, FlagType DEF BackoffElapses, TypeOK
  <2>2. QED
    BY <1>11, <2>1 DEF BackoffElapses, TypeOK
<1>12. CASE UNCHANGED vars
  BY <1>12 DEF vars, TypeOK
<1>13. QED
  BY <1>1, <1>2, <1>3, <1>4, <1>5, <1>6, <1>7, <1>8, <1>9, <1>10, <1>11, <1>12 DEF Next

\* The outbox never leaves its types: every delivery row, attempt row and claim
\* of outbox.ts keeps its shape through every interleaving of workers.
THEOREM TypeCorrect == Spec => []TypeOK
BY InitType, NextType, PTL DEF Spec

-----------------------------------------------------------------------------
(* Causal order.  It is not inductive alone: a claim reads only rows whose   *)
(* event committed, so one must know that causes commit no later than their  *)
(* effects and that rows nobody can see yet are fresh.                       *)

CausesComeFirst ==
  \A e \in Events :
    (stage[e] # "absent" /\ Cause[e] # NoEvent) =>
      \/ stage[Cause[e]] = "committed"
      \/ /\ stage[e] = "inserted" /\ stage[Cause[e]] = "inserted"
         /\ TxOf[Cause[e]] = TxOf[e]

HiddenRowsAreFresh ==
  \A d \in Deliveries : stage[d[1]] # "committed" => delivery[d] \in {NoRow, Seeded}

StartedRowsAreFenced ==
  \A d \in Deliveries :
    /\ delivery[d].status = "NONE" => delivery[d].fence = 0
    /\ delivery[d].status \notin {"NONE", "PENDING"} => delivery[d].fence > 0

CausalInv ==
  TypeOK /\ CausesComeFirst /\ HiddenRowsAreFresh /\ StartedRowsAreFenced /\ CausalOrder

\* Everything one step can do to one delivery row.
Reset(d) ==
  /\ stage[d[1]] # "committed" \/ delivery[d].status = "NONE"
  /\ delivery'[d] \in {NoRow, Seeded}
Claimed(d) ==
  /\ stage[d[1]] = "committed" /\ CausallyReady(d)
  /\ delivery[d].status \in {"PENDING", "RETRY", "CLAIMED"}
  /\ delivery'[d].status = "CLAIMED"
  /\ delivery'[d].fence = delivery[d].fence + 1
  /\ delivery'[d].generation = delivery[d].generation
Settled(d) ==
  /\ delivery[d].status = "CLAIMED"
  /\ delivery'[d].status \in Settlements
  /\ delivery'[d].fence = delivery[d].fence
  /\ delivery'[d].generation = delivery[d].generation
Retimed(d) ==
  /\ delivery[d].status \in {"CLAIMED", "RETRY"}
  /\ delivery'[d].status = delivery[d].status
  /\ delivery'[d].fence = delivery[d].fence
  /\ delivery'[d].generation = delivery[d].generation
Requeued(d) ==
  /\ delivery[d].status = "QUARANTINED"
  /\ delivery'[d].status = "PENDING"
  /\ delivery'[d].fence = delivery[d].fence
  /\ delivery'[d].generation = delivery[d].generation + 1
RowStep(d) ==
  \/ delivery'[d] = delivery[d]
  \/ Reset(d) \/ Claimed(d) \/ Settled(d) \/ Retimed(d) \/ Requeued(d)

\* A settlement completes, retries or quarantines one row and touches no other.
LEMMA SettleRow ==
  ASSUME TypeOK, NEW w \in Workers, OwnsLease(w), NEW status \in Settlements,
         NEW due \in BOOLEAN, SettleAs(w, status, due)
  PROVE  /\ Settled(job[w].claim.delivery)
         /\ delivery'[job[w].claim.delivery].status = status
         /\ \A d \in Deliveries : d # job[w].claim.delivery => delivery'[d] = delivery[d]
<1> DEFINE c == job[w].claim
           row == [delivery[c.delivery] EXCEPT !.status = status, !.owner = NoWorker,
                                               !.lapsed = FALSE, !.due = due]
<1>1. c.delivery \in Deliveries /\ delivery[c.delivery].status = "CLAIMED"
  BY BusyJob DEF OwnsLease
<1>2. delivery \in [Deliveries -> DeliveryRow]
  BY DEF TypeOK
<1>3. delivery[c.delivery] \in DeliveryRow
  BY <1>1, <1>2
<1>4. /\ row.status = status /\ row.fence = delivery[c.delivery].fence
      /\ row.generation = delivery[c.delivery].generation
  BY <1>3 DEF DeliveryRow
<1>5. delivery' = [delivery EXCEPT ![c.delivery] = row]
  BY DEF SettleAs
<1> HIDE DEF row
<1>6. QED
  BY <1>1, <1>2, <1>4, <1>5 DEF Settled

\* Elapsing time changes neither a status nor a fencing version.
LEMMA RetimeRow ==
  ASSUME TypeOK, NEW d \in Deliveries,
         delivery[d].status \in {"CLAIMED", "RETRY"},
         \/ delivery' = [delivery EXCEPT ![d].lapsed = FALSE]
         \/ delivery' = [delivery EXCEPT ![d].lapsed = TRUE]
         \/ delivery' = [delivery EXCEPT ![d].due = TRUE]
  PROVE  \A x \in Deliveries : RowStep(x)
<1>1. delivery \in [Deliveries -> DeliveryRow] /\ delivery[d] \in DeliveryRow
  BY DEF TypeOK
<1>2. ASSUME NEW row, delivery' = [delivery EXCEPT ![d] = row],
             row.status = delivery[d].status, row.fence = delivery[d].fence,
             row.generation = delivery[d].generation
      PROVE  \A x \in Deliveries : RowStep(x)
  <2>1. delivery'[d] = row /\ \A x \in Deliveries : x # d => delivery'[x] = delivery[x]
    BY <1>1, <1>2
  <2>2. QED
    BY <1>2, <2>1 DEF RowStep, Retimed
<1>3. \A r \in DeliveryRow, b \in BOOLEAN :
        /\ [r EXCEPT !.lapsed = b].status = r.status /\ [r EXCEPT !.lapsed = b].fence = r.fence
        /\ [r EXCEPT !.lapsed = b].generation = r.generation
        /\ [r EXCEPT !.due = b].status = r.status /\ [r EXCEPT !.due = b].fence = r.fence
        /\ [r EXCEPT !.due = b].generation = r.generation
  BY DEF DeliveryRow
<1>4. QED
  BY <1>1, <1>2, <1>3

\* Every step changes each committed row in one of the ways RowChange lists.
LEMMA RowSteps ==
  ASSUME TypeOK, [Next]_vars
  PROVE  \A d \in Deliveries : RowStep(d)
<1>0. delivery \in [Deliveries -> DeliveryRow]
  BY DEF TypeOK
<1>1. ASSUME NEW e \in Events, appendOutboxEvent(e) PROVE \A d \in Deliveries : RowStep(d)
  BY <1>1 DEF appendOutboxEvent, Reset, RowStep
<1>2. ASSUME NEW t \in Transactions, rollbackTransaction(t)
      PROVE  \A d \in Deliveries : RowStep(d)
  BY <1>2 DEF rollbackTransaction, Reset, RowStep
<1>3. ASSUME NEW c \in Consumers, commitRegistration(c)
      PROVE  \A d \in Deliveries : RowStep(d)
  BY <1>3 DEF commitRegistration, Reset, RowStep
<1>4. ASSUME NEW w \in Workers, NEW d \in Deliveries, claimNextEventDelivery(w, d)
      PROVE  \A x \in Deliveries : RowStep(x)
  <2> DEFINE row == [delivery[d] EXCEPT !.status = "CLAIMED", !.attempts = @ + 1,
                                        !.owner = w, !.fence = @ + 1, !.lapsed = FALSE]
  <2>1. delivery' = [delivery EXCEPT ![d] = row] /\ Claimable(d)
    BY <1>4 DEF claimNextEventDelivery
  <2>2. delivery[d] \in DeliveryRow
    BY <1>0
  <2>3. /\ row.status = "CLAIMED" /\ row.fence = delivery[d].fence + 1
        /\ row.generation = delivery[d].generation
    BY <2>2 DEF DeliveryRow
  <2> HIDE DEF row
  <2>4. delivery'[d] = row /\ \A x \in Deliveries : x # d => delivery'[x] = delivery[x]
    BY <1>0, <2>1
  <2>5. QED
    BY <2>1, <2>3, <2>4 DEF Claimed, Claimable, RowStep
<1>6. ASSUME NEW w \in Workers, heartbeatEventDelivery(w)
      PROVE  \A d \in Deliveries : RowStep(d)
  <2>1. /\ job[w].claim.delivery \in Deliveries
        /\ delivery[job[w].claim.delivery].status = "CLAIMED"
    BY <1>6, BusyJob DEF heartbeatEventDelivery, OwnsLease
  <2>2. QED
    BY <1>6, <2>1, RetimeRow DEF heartbeatEventDelivery
<1>7. ASSUME NEW w \in Workers, WorkerStep(w) PROVE \A d \in Deliveries : RowStep(d)
  <2>1. CASE acknowledgeEventDelivery(w)
    BY <2>1, SettleRow DEF acknowledgeEventDelivery, Settlements, RowStep
  <2>2. CASE failEventDelivery(w)
    BY <2>2, SettleRow DEF failEventDelivery, Settlements, RowStep
  <2>3. CASE UNCHANGED delivery
    BY <2>3 DEF RowStep
  <2>4. QED
    BY <1>7, <2>1, <2>2, <2>3
       DEF WorkerStep, HandlerReturns, HandlerThrows, Acknowledged, AcknowledgedReplyLost,
           AcknowledgeRejected, FailureRecorded, FailureDropped
<1>8. ASSUME NEW d \in Deliveries, requeueEventDelivery(d)
      PROVE  \A x \in Deliveries : RowStep(x)
  <2> DEFINE row == [delivery[d] EXCEPT !.status = "PENDING", !.attempts = 0, !.due = TRUE,
                                        !.generation = @ + 1]
  <2>1. delivery' = [delivery EXCEPT ![d] = row] /\ delivery[d].status = "QUARANTINED"
    BY <1>8 DEF requeueEventDelivery
  <2>2. delivery[d] \in DeliveryRow
    BY <1>0
  <2>3. /\ row.status = "PENDING" /\ row.fence = delivery[d].fence
        /\ row.generation = delivery[d].generation + 1
    BY <2>2 DEF DeliveryRow
  <2> HIDE DEF row
  <2>4. delivery'[d] = row /\ \A x \in Deliveries : x # d => delivery'[x] = delivery[x]
    BY <1>0, <2>1
  <2>5. QED
    BY <2>1, <2>3, <2>4 DEF Requeued, RowStep
<1>9. ASSUME NEW d \in Deliveries, LeaseLapses(d) PROVE \A x \in Deliveries : RowStep(x)
  BY <1>9, RetimeRow DEF LeaseLapses
<1>10. ASSUME NEW d \in Deliveries, BackoffElapses(d)
       PROVE  \A x \in Deliveries : RowStep(x)
  BY <1>10, RetimeRow DEF BackoffElapses
<1>11. CASE UNCHANGED delivery
  BY <1>11, SMTT(30) DEF RowStep
<1>12. QED
  BY <1>1, <1>2, <1>3, <1>4, <1>6, <1>7, <1>8, <1>9, <1>10, <1>11
     DEF Next, vars, commitTransaction, registerEventConsumer, rollbackRegistration, Crash

\* Only a commit makes an event visible, and it stays so.
LEMMA StageSteps ==
  ASSUME TypeOK, CausesComeFirst, [Next]_vars
  PROVE  CausesComeFirst' /\ \A e \in Events : stage[e] = "committed" => stage'[e] = "committed"
<1>1. ASSUME NEW e \in Events, appendOutboxEvent(e)
      PROVE  /\ CausesComeFirst'
             /\ \A x \in Events : stage[x] = "committed" => stage'[x] = "committed"
  BY <1>1, CauseAssumption DEF appendOutboxEvent, CauseIsWritten, CausesComeFirst, TypeOK
<1>2. ASSUME NEW t \in Transactions, commitTransaction(t)
      PROVE  /\ CausesComeFirst'
             /\ \A x \in Events : stage[x] = "committed" => stage'[x] = "committed"
  BY <1>2, CauseAssumption DEF commitTransaction, CausesComeFirst, TypeOK
<1>3. ASSUME NEW t \in Transactions, rollbackTransaction(t)
      PROVE  /\ CausesComeFirst'
             /\ \A x \in Events : stage[x] = "committed" => stage'[x] = "committed"
  BY <1>3, CauseAssumption DEF rollbackTransaction, CausesComeFirst, TypeOK
<1>4. CASE UNCHANGED stage
  BY <1>4 DEF CausesComeFirst
<1>5. QED
  BY <1>1, <1>2, <1>3, <1>4
     DEF Next, vars, registerEventConsumer, commitRegistration, rollbackRegistration,
         claimNextEventDelivery, heartbeatEventDelivery,
         WorkerStep, HandlerReturns, HandlerThrows, Acknowledged, AcknowledgedReplyLost,
         acknowledgeEventDelivery, AcknowledgeRejected, FailureRecorded, failEventDelivery,
         FailureDropped, Crash, requeueEventDelivery, LeaseLapses, BackoffElapses

\* Rows that have just been written have never been claimed.
LEMMA FreshRows == /\ NoRow.status = "NONE" /\ Seeded.status = "PENDING"
                   /\ NoRow.fence = 0 /\ Seeded.fence = 0
BY DEF NoRow, Seeded

\* The empty tables satisfy the inductive invariant.
LEMMA InitCausal == Init => CausalInv
<1> SUFFICES ASSUME Init PROVE CausalInv
  OBVIOUS
<1>1. TypeOK
  BY InitType
<1>2. \A d \in Deliveries : delivery[d] = NoRow
  BY DEF Init
<1>3. CausesComeFirst
  BY DEF Init, CausesComeFirst
<1>4. QED
  BY <1>1, <1>2, <1>3, FreshRows
     DEF CausalInv, HiddenRowsAreFresh, StartedRowsAreFenced, CausalOrder

\* Every action keeps the inductive invariant: the induction step of CausalDelivery.
LEMMA NextCausal == CausalInv /\ [Next]_vars => CausalInv'
<1> SUFFICES ASSUME CausalInv, [Next]_vars PROVE CausalInv'
  OBVIOUS
<1>1. TypeOK /\ TypeOK'
  BY NextType DEF CausalInv
<1>2. /\ CausesComeFirst'
      /\ \A e \in Events : stage[e] = "committed" => stage'[e] = "committed"
  BY <1>1, StageSteps DEF CausalInv
<1>3. \A d \in Deliveries : RowStep(d)
  BY <1>1, RowSteps
<1>4. \A d \in Deliveries : delivery[d].fence \in Nat /\ delivery'[d].fence \in Nat
  BY <1>1 DEF TypeOK, DeliveryRow
<1>5. HiddenRowsAreFresh'
  <2> SUFFICES ASSUME NEW d \in Deliveries, stage'[d[1]] # "committed"
               PROVE  delivery'[d] \in {NoRow, Seeded}
    BY DEF HiddenRowsAreFresh
  <2>1. stage[d[1]] # "committed" /\ delivery[d] \in {NoRow, Seeded}
    BY <1>2 DEF CausalInv, HiddenRowsAreFresh
  <2>2. QED
    BY <1>3, <2>1, FreshRows
       DEF RowStep, Reset, Claimed, Settled, Retimed, Requeued
<1>6. StartedRowsAreFenced'
  <2> SUFFICES ASSUME NEW d \in Deliveries
               PROVE  /\ delivery'[d].status = "NONE" => delivery'[d].fence = 0
                      /\ delivery'[d].status \notin {"NONE", "PENDING"} => delivery'[d].fence > 0
    BY DEF StartedRowsAreFenced
  <2>1. /\ delivery[d].status = "NONE" => delivery[d].fence = 0
        /\ delivery[d].status \notin {"NONE", "PENDING"} => delivery[d].fence > 0
    BY DEF CausalInv, StartedRowsAreFenced
  <2>2. QED
    BY <1>3, <1>4, <2>1, FreshRows
       DEF RowStep, Reset, Claimed, Settled, Retimed, Requeued, Settlements
<1>7. CausalOrder'
  <2> SUFFICES ASSUME NEW d \in Deliveries, delivery'[d].fence > 0, Cause[d[1]] # NoEvent
               PROVE  delivery'[<<Cause[d[1]], d[2]>>].status = "SUCCEEDED"
    BY DEF CausalOrder
  <2> DEFINE parent == <<Cause[d[1]], d[2]>>
  <2>1. parent \in Deliveries /\ d[1] \in Events /\ parent[1] = Cause[d[1]]
    BY CauseAssumption
  <2>2. delivery[parent].status = "SUCCEEDED"
    <3>1. CASE delivery[d].fence > 0
      BY <3>1 DEF CausalInv, CausalOrder
    <3>2. CASE Claimed(d)
      <4>1. stage[Cause[d[1]]] = "committed"
        BY <2>1, <3>2 DEF Claimed, CausalInv, CausesComeFirst
      <4>2. QED
        BY <3>2, <4>1 DEF Claimed, CausallyReady
    <3>3. QED
      BY <1>3, <1>4, <3>1, <3>2, FreshRows DEF RowStep, Reset, Settled, Retimed, Requeued
  <2>3. stage[parent[1]] = "committed"
    BY <2>1, <2>2, FreshRows DEF CausalInv, HiddenRowsAreFresh
  <2> HIDE DEF parent
  <2>4. delivery'[parent] = delivery[parent]
    BY <1>3, <2>1, <2>2, <2>3 DEF RowStep, Reset, Claimed, Settled, Retimed, Requeued
  <2>5. QED
    BY <2>2, <2>4 DEF parent
<1>8. QED
  BY <1>1, <1>2, <1>5, <1>6, <1>7 DEF CausalInv

\* No consumer is ever handed an event before it is done with the cause of that
\* event: the causation clause of claimNextEventDelivery holds up under lease
\* takeovers, retries, requeues, late registrations and rolled-back appends.
THEOREM CausalDelivery == Spec => []CausalOrder
<1>1. CausalInv => CausalOrder
  BY DEF CausalInv
<1>2. QED
  BY InitCausal, NextCausal, <1>1, PTL DEF Spec

\* Settlement is final, fencing versions never decrease, and only a requeue
\* brings a quarantined delivery back.
THEOREM FinalSettlement == Spec => SettlementIsFinal
<1>1. CausalInv /\ [Next]_vars =>
        [\A d \in Deliveries : stage[d[1]] = "committed" => DeliveryStep(d)]_vars
  <2> SUFFICES ASSUME CausalInv, [Next]_vars,
                      NEW d \in Deliveries, stage[d[1]] = "committed"
               PROVE  DeliveryStep(d)
    OBVIOUS
  <2>1. RowStep(d)
    BY RowSteps DEF CausalInv
  <2>2. delivery[d].fence \in Nat /\ (delivery[d].status = "NONE" => delivery[d].fence = 0)
    BY DEF CausalInv, TypeOK, DeliveryRow, StartedRowsAreFenced
  <2>3. QED
    BY <2>1, <2>2, FreshRows
       DEF RowStep, Reset, Claimed, Settled, Retimed, Requeued, DeliveryStep, Settlements
<1>2. QED
  BY InitCausal, NextCausal, <1>1, PTL DEF Spec, SettlementIsFinal
-----------------------------------------------------------------------------
(* The outbox implements the delivery contract (its safety part).           *)

\* Promises is a function, before and after a step.
LEMMA PromisesFunction ==
  /\ Promises = [d \in Deliveries |-> Promises[d]]
  /\ Promises' = [d \in Deliveries |-> Promises'[d]]
BY DEF Promises

\* Whatever a step does to a delivery, its promise makes at most one of the
\* moves of the contract, and a row is offered only by a commit or a backfill.
LEMMA PromiseSteps ==
  ASSUME CausalInv, [Next]_vars, NEW d \in Deliveries
  PROVE  \/ Promises'[d] = Promises[d]
         \/ Promises[d] = "none" /\ Promises'[d] = "open"
         \/ /\ Promises[d] = "open" /\ Promises'[d] \in {"done", "dead"}
            /\ Settled(d) /\ Contract!CauseDone(d)
         \/ /\ Promises[d] = "dead" /\ Promises'[d] = "open"
            /\ Requeued(d)
<1>1. RowStep(d)
  BY RowSteps DEF CausalInv
<1>2. stage[d[1]] = "committed" => stage'[d[1]] = "committed"
  BY StageSteps DEF CausalInv
<1>3. stage[d[1]] # "committed" => delivery[d].status \in {"NONE", "PENDING"}
  BY FreshRows DEF CausalInv, HiddenRowsAreFresh
<1>4. Promises[d] = "open" /\ Settled(d) => Contract!CauseDone(d)
  <2> SUFFICES ASSUME Settled(d), stage[d[1]] = "committed", Cause[d[1]] # NoEvent
               PROVE  Promises[<<Cause[d[1]], d[2]>>] = "done"
    BY DEF Contract!CauseDone, PromiseOf, Promises
  <2>1. <<Cause[d[1]], d[2]>> \in Deliveries
    BY CauseAssumption
  <2>2. delivery[d].fence > 0
    BY DEF Settled, CausalInv, StartedRowsAreFenced
  <2>3. delivery[<<Cause[d[1]], d[2]>>].status = "SUCCEEDED"
    BY <2>2 DEF CausalInv, CausalOrder
  <2>4. stage[Cause[d[1]]] = "committed"
    BY DEF CausalInv, CausesComeFirst
  <2>5. QED
    BY <2>1, <2>3, <2>4 DEF Promises, PromiseOf
<1>5. QED
  BY <1>1, <1>2, <1>3, <1>4, FreshRows
     DEF RowStep, Reset, Claimed, Settled, Retimed, Requeued, Settlements, Promises, PromiseOf

\* A step either touches fresh rows and visibility only, or one row only.
LEMMA OneRowAtATime ==
  ASSUME TypeOK, [Next]_vars
  PROVE  \/ \A d \in Deliveries : delivery'[d] = delivery[d] \/ Reset(d)
         \/ /\ UNCHANGED stage
            /\ \E d \in Deliveries : \A x \in Deliveries : x # d => delivery'[x] = delivery[x]
<1> DEFINE Bulk == \A d \in Deliveries : delivery'[d] = delivery[d] \/ Reset(d)
           Single == \E d \in Deliveries :
                       \A x \in Deliveries : x # d => delivery'[x] = delivery[x]
<1>0. delivery \in [Deliveries -> DeliveryRow]
  BY DEF TypeOK
<1>1. ASSUME NEW e \in Events, appendOutboxEvent(e) PROVE Bulk
  BY <1>1 DEF appendOutboxEvent, Reset
<1>2. ASSUME NEW t \in Transactions, commitTransaction(t) \/ rollbackTransaction(t) PROVE Bulk
  BY <1>2 DEF commitTransaction, rollbackTransaction, Reset
<1>3. ASSUME NEW c \in Consumers, commitRegistration(c) PROVE Bulk
  BY <1>3 DEF commitRegistration, Reset
<1>4. ASSUME NEW d \in Deliveries, NEW row, delivery' = [delivery EXCEPT ![d] = row]
      PROVE  Single
  BY <1>0, <1>4
<1>5. ASSUME NEW w \in Workers, NEW d \in Deliveries, claimNextEventDelivery(w, d) PROVE Single
  BY <1>4, <1>5 DEF claimNextEventDelivery
<1>6. ASSUME NEW w \in Workers, heartbeatEventDelivery(w) PROVE Single
  <2>1. job[w].claim.delivery \in Deliveries
    BY <1>6, BusyJob DEF heartbeatEventDelivery, OwnsLease
  <2>2. QED
    BY <1>0, <1>6, <2>1 DEF heartbeatEventDelivery
<1>7. ASSUME NEW w \in Workers, acknowledgeEventDelivery(w) \/ failEventDelivery(w) PROVE Single
  <2>1. job[w].claim.delivery \in Deliveries
    BY <1>7, BusyJob DEF acknowledgeEventDelivery, failEventDelivery
  <2>2. QED
    BY <1>4, <1>7, <2>1 DEF acknowledgeEventDelivery, failEventDelivery, SettleAs
<1>8. ASSUME NEW d \in Deliveries,
             requeueEventDelivery(d) \/ LeaseLapses(d) \/ BackoffElapses(d)
      PROVE  Single
  <2>1. CASE requeueEventDelivery(d)
    BY <1>4, <2>1 DEF requeueEventDelivery
  <2>2. CASE LeaseLapses(d)
    BY <1>0, <2>2 DEF LeaseLapses
  <2>3. CASE BackoffElapses(d)
    BY <1>0, <2>3 DEF BackoffElapses
  <2>4. QED
    BY <1>8, <2>1, <2>2, <2>3
<1>9. CASE UNCHANGED delivery
  BY <1>9, SMTT(30)
<1> HIDE DEF Bulk, Single
<1>10. Bulk \/ (UNCHANGED stage /\ Single)
  BY <1>1, <1>2, <1>3, <1>5, <1>6, <1>7, <1>8, <1>9, ZenonT(60)
     DEF Next, vars, WorkerStep, HandlerReturns, HandlerThrows, Acknowledged,
         AcknowledgedReplyLost, AcknowledgeRejected, FailureRecorded, FailureDropped, Crash,
         acknowledgeEventDelivery, failEventDelivery, claimNextEventDelivery,
         heartbeatEventDelivery, requeueEventDelivery, LeaseLapses, BackoffElapses,
         registerEventConsumer, rollbackRegistration, Bulk
<1>11. QED
  BY <1>10 DEF Bulk, Single

\* A step of the outbox is a step of the contract or leaves its promises alone.
LEMMA StepRefines ==
  ASSUME CausalInv, [Next]_vars
  PROVE  Contract!Next \/ Promises' = Promises
<1>1. \A d \in Deliveries :
        \/ Promises'[d] = Promises[d]
        \/ Promises[d] = "none" /\ Promises'[d] = "open"
        \/ /\ Promises[d] = "open" /\ Promises'[d] \in {"done", "dead"}
           /\ Settled(d) /\ Contract!CauseDone(d)
        \/ /\ Promises[d] = "dead" /\ Promises'[d] = "open"
           /\ Requeued(d)
  BY PromiseSteps
<1>2. ASSUME \A d \in Deliveries :
        Promises'[d] = Promises[d] \/ (Promises[d] = "none" /\ Promises'[d] = "open")
      PROVE  Contract!Next
  <2> DEFINE S == {d \in Deliveries : Promises[d] = "none" /\ Promises'[d] = "open"}
  <2>1. S \in SUBSET Deliveries /\ \A d \in S : Promises[d] = "none"
    OBVIOUS
  <2>2. Promises' = [d \in Deliveries |-> IF d \in S THEN "open" ELSE Promises[d]]
    BY <1>2, PromisesFunction
  <2> HIDE DEF S
  <2>3. QED
    BY <2>1, <2>2 DEF Contract!Next, Contract!Offer, Contract!Deliveries
<1>3. CASE \A d \in Deliveries : delivery'[d] = delivery[d] \/ Reset(d)
  <2>1. \A d \in Deliveries : ~Settled(d) /\ ~Requeued(d)
    BY <1>3, FreshRows
       DEF Reset, Settled, Requeued, Settlements, CausalInv, HiddenRowsAreFresh
  <2>2. \A d \in Deliveries :
        Promises'[d] = Promises[d] \/ (Promises[d] = "none" /\ Promises'[d] = "open")
    BY <1>1, <2>1
  <2>3. QED
    BY <1>2, <2>2
<1>4. ASSUME UNCHANGED stage, NEW d \in Deliveries,
             \A x \in Deliveries : x # d => delivery'[x] = delivery[x]
      PROVE  Contract!Next \/ Promises' = Promises
  <2>1. \A x \in Deliveries : x # d => Promises'[x] = Promises[x]
    BY <1>4 DEF Promises, PromiseOf
  <2>2. Promises' = [Promises EXCEPT ![d] = Promises'[d]]
    BY <2>1, PromisesFunction
  <2>3. CASE Promises'[d] = Promises[d] \/ (Promises[d] = "none" /\ Promises'[d] = "open")
    <3>1. \A x \in Deliveries :
        Promises'[x] = Promises[x] \/ (Promises[x] = "none" /\ Promises'[x] = "open")
      BY <2>1, <2>3
    <3>2. QED
      BY <1>2, <3>1
  <2>4. CASE /\ Promises[d] = "open" /\ Promises'[d] \in {"done", "dead"}
             /\ Contract!CauseDone(d)
    BY <2>2, <2>4
       DEF Contract!Next, Contract!Complete, Contract!GiveUp, Contract!Deliveries
  <2>5. CASE Promises[d] = "dead" /\ Promises'[d] = "open"
    BY <2>2, <2>5 DEF Contract!Next, Contract!Reopen, Contract!Deliveries
  <2>6. QED
    BY <1>1, <2>3, <2>4, <2>5
<1>5. QED
  BY <1>3, <1>4, OneRowAtATime DEF CausalInv

\* The outbox implements the delivery contract: leases, takeovers, retries and
\* stale workers are invisible, and no event is handled before its cause,
\* un-handled or forgotten.
THEOREM OutboxImplementsContract == Spec => ImplementsContract
<1>1. Init => Contract!Init
  BY FreshRows DEF Init, Contract!Init, Contract!Deliveries, Promises, PromiseOf
<1>2. CausalInv /\ [Next]_vars => [Contract!Next]_Promises
  BY StepRefines
<1>3. QED
  BY InitCausal, NextCausal, <1>1, <1>2, PTL DEF Spec, ImplementsContract, Contract!SafeSpec
-----------------------------------------------------------------------------
(* The books.  That history, quarantine and rows tell one story rests on the *)
(* fence: what was journalled lies behind the row's numbers, so the key of a *)
(* new claim is free, and a worker that may still settle knows these numbers.*)

RowsAreSeeded == \A d \in Deliveries : delivery[d].status = "NONE" => delivery[d] = NoRow

\* A journal row is of a claim the delivery has had; those of its present
\* generation count no more attempts than it does.
PastIsBehind ==
  \A h \in history :
    LET row == delivery[h.delivery]
    IN  /\ h.fence <= row.fence /\ h.generation <= row.generation
        /\ h.generation = row.generation => h.attempt <= row.attempts

\* The claim a delivery is under has not been settled.
OpenIsUnsettled ==
  \A h \in history :
    h.outcome \in Settlements /\ delivery[h.delivery].status = "CLAIMED"
      => h.fence < delivery[h.delivery].fence

\* A worker's claim is one its delivery has had.  While it is the present one
\* the worker knows the row's numbers; an acknowledging worker has handled.
ClaimIsKnown(w) ==
  LET c == job[w].claim
      row == delivery[c.delivery]
  IN  /\ c.fence <= row.fence
      /\ row.status = "CLAIMED" /\ row.fence = c.fence
           => c.attempts = row.attempts /\ c.generation = row.generation
      /\ job[w].phase = "acking" => c.fence \in completed[c.delivery]
ClaimsAreKnown == \A w \in Workers : job[w].phase # "idle" => ClaimIsKnown(w)

BooksHold ==
  /\ SettledOncePerClaim /\ HistoryIsComplete /\ QuarantineAgrees
  /\ SucceededWasHandled /\ RetryBudget
  /\ RowsAreSeeded /\ IsFiniteSet(history) /\ PastIsBehind /\ OpenIsUnsettled /\ ClaimsAreKnown

BooksInv == CausalInv /\ BooksHold

\* What one step does to the books: it leaves the numbers of every row and the
\* journal alone, or one worker claims, one settles, or an operator requeues.
Keeps(d) ==
  /\ delivery'[d].fence = delivery[d].fence
  /\ delivery'[d].attempts = delivery[d].attempts
  /\ delivery'[d].generation = delivery[d].generation

JobMoves(w) ==
  job'[w].phase # "idle" =>
    /\ job[w].phase # "idle" /\ job'[w].claim = job[w].claim
    /\ job'[w].phase = "acking" =>
         job[w].phase = "acking" \/ job[w].claim.fence \in completed'[job[w].claim.delivery]

QuietStep ==
  /\ UNCHANGED <<history, quarantine>>
  /\ \A d \in Deliveries :
       /\ Keeps(d) /\ completed[d] \subseteq completed'[d]
       /\ \/ delivery'[d].status = delivery[d].status
          \/ delivery[d].status \in {"NONE", "PENDING"} /\ delivery'[d].status \in {"NONE", "PENDING"}
       /\ delivery'[d].status = "NONE" => delivery'[d] = NoRow \/ delivery'[d] = delivery[d]
  /\ \A w \in Workers : JobMoves(w)

\* One journal row is written for d, unless its key is taken.
Journals(d, generation, attempt, fence, outcome) ==
  \E h \in AttemptRow :
    /\ h.delivery = d /\ h.generation = generation /\ h.attempt = attempt
    /\ h.fence = fence /\ h.outcome = outcome
    /\ Record(h)

Elsewhere(d) == \A x \in Deliveries : x # d => delivery'[x] = delivery[x]

ClaimStep(w, d) ==
  /\ delivery[d].status \in {"PENDING", "RETRY", "CLAIMED"}
  /\ delivery'[d].status = "CLAIMED"
  /\ delivery'[d].fence = delivery[d].fence + 1
  /\ delivery'[d].attempts = delivery[d].attempts + 1
  /\ delivery'[d].generation = delivery[d].generation
  /\ Elsewhere(d)
  /\ UNCHANGED <<quarantine, completed>>
  /\ Journals(d, delivery'[d].generation, delivery'[d].attempts, delivery'[d].fence, "CLAIMED")
  /\ job'[w].phase = "handling"
  /\ job'[w].claim.delivery = d /\ job'[w].claim.fence = delivery'[d].fence
  /\ job'[w].claim.attempts = delivery'[d].attempts
  /\ job'[w].claim.generation = delivery'[d].generation
  /\ \A v \in Workers : v # w => job'[v] = job[v]

SettleStep(w, d, status) ==
  /\ job[w].phase # "idle" /\ job[w].claim.delivery = d /\ OwnsLease(w)
  /\ Keeps(d) /\ delivery'[d].status = status /\ Elsewhere(d)
  /\ UNCHANGED completed
  /\ Journals(d, job[w].claim.generation, job[w].claim.attempts, job[w].claim.fence, status)
  /\ status = "SUCCEEDED" => job[w].phase = "acking"
  /\ status = "RETRY" => job[w].claim.attempts < MaxAttempts
  /\ status = "QUARANTINED" => job[w].claim.attempts >= MaxAttempts
  /\ quarantine'[d].open = quarantine[d].open + (IF status = "QUARANTINED" THEN 1 ELSE 0)
  /\ quarantine'[d].requeued = quarantine[d].requeued
  /\ \A x \in Deliveries : x # d => quarantine'[x] = quarantine[x]
  /\ \A v \in Workers : JobMoves(v)

RequeueStep(d) ==
  /\ delivery[d].status = "QUARANTINED" /\ delivery'[d].status = "PENDING"
  /\ delivery'[d].fence = delivery[d].fence /\ delivery'[d].attempts = 0
  /\ delivery'[d].generation = delivery[d].generation + 1
  /\ Elsewhere(d)
  /\ quarantine'[d].open = 0
  /\ quarantine'[d].requeued = quarantine[d].requeued + quarantine[d].open
  /\ \A x \in Deliveries : x # d => quarantine'[x] = quarantine[x]
  /\ UNCHANGED <<history, completed, job>>

BookStep ==
  \/ QuietStep
  \/ \E w \in Workers, d \in Deliveries : ClaimStep(w, d)
  \/ \E w \in Workers, d \in Deliveries, status \in Settlements : SettleStep(w, d, status)
  \/ \E d \in Deliveries : RequeueStep(d)

\* A worker that goes idle, or moves on with its claim, moves alone.
LEMMA JobMoved ==
  ASSUME TypeOK, NEW w \in Workers, job[w].phase # "idle",
         Finish(w) \/ ContinueAs(w, "failing")
  PROVE  \A v \in Workers : JobMoves(v)
<1>1. job[w] \in [phase: Phases \ {"idle"}, claim: Claim] /\ job \in [Workers -> {Idle} \cup [phase: Phases \ {"idle"}, claim: Claim]]
  BY BusyJob DEF TypeOK
<1>2. CASE Finish(w)
  BY <1>1, <1>2 DEF Finish, JobMoves, Idle
<1>3. CASE ContinueAs(w, "failing")
  BY <1>1, <1>3 DEF ContinueAs, JobMoves
<1>4. QED
  BY <1>2, <1>3

\* A claim counts one attempt under a fresh fence and journals it.
LEMMA ClaimMakes ==
  ASSUME TypeOK, NEW w \in Workers, NEW d \in Deliveries, claimNextEventDelivery(w, d)
  PROVE  ClaimStep(w, d)
<1> DEFINE row == [delivery[d] EXCEPT !.status = "CLAIMED", !.attempts = @ + 1,
                                      !.owner = w, !.fence = @ + 1, !.lapsed = FALSE]
           claim == [delivery |-> d, fence |-> row.fence, attempts |-> row.attempts,
                     generation |-> row.generation]
           entry == [delivery |-> d, generation |-> row.generation,
                     attempt |-> row.attempts, fence |-> row.fence,
                     outcome |-> "CLAIMED"]
<1>1. delivery[d] \in DeliveryRow /\ delivery \in [Deliveries -> DeliveryRow]
  BY DEF TypeOK
<1>2. /\ row.status = "CLAIMED" /\ row.fence = delivery[d].fence + 1
      /\ row.attempts = delivery[d].attempts + 1 /\ row.generation = delivery[d].generation
  BY <1>1 DEF DeliveryRow
<1>3. row \in DeliveryRow
  BY <1>1, ClaimType
<1>4. entry \in AttemptRow
  BY <1>3 DEF AttemptRow, DeliveryRow
<1>5. /\ entry.delivery = d /\ entry.generation = row.generation /\ entry.attempt = row.attempts
      /\ entry.fence = row.fence /\ entry.outcome = "CLAIMED"
      /\ claim.delivery = d /\ claim.fence = row.fence /\ claim.attempts = row.attempts
      /\ claim.generation = row.generation
  OBVIOUS
<1>6. /\ delivery' = [delivery EXCEPT ![d] = row]
      /\ job' = [job EXCEPT ![w] = [phase |-> "handling", claim |-> claim]]
      /\ Record(entry) /\ Claimable(d)
      /\ UNCHANGED <<quarantine, completed>>
  BY DEF claimNextEventDelivery
<1> HIDE DEF row, claim, entry
<1>7. delivery'[d] = row /\ Elsewhere(d)
  BY <1>1, <1>6 DEF Elsewhere
<1>8. /\ job'[w].phase = "handling" /\ job'[w].claim = claim
      /\ \A v \in Workers : v # w => job'[v] = job[v]
  BY <1>6 DEF TypeOK
<1>9. QED
  BY <1>2, <1>4, <1>5, <1>6, <1>7, <1>8 DEF ClaimStep, Claimable, Journals

\* A settlement journals the outcome of the settling worker's claim.
LEMMA SettleMakes ==
  ASSUME TypeOK, NEW w \in Workers, job[w].phase # "idle", OwnsLease(w),
         NEW d \in Deliveries, d = job[w].claim.delivery,
         NEW status \in Settlements, \E due \in BOOLEAN : SettleAs(w, status, due)
  PROVE  /\ Keeps(d) /\ delivery'[d].status = status /\ Elsewhere(d)
         /\ Journals(d, job[w].claim.generation, job[w].claim.attempts, job[w].claim.fence, status)
<1>0. PICK due \in BOOLEAN : SettleAs(w, status, due)
  OBVIOUS
<1> DEFINE c == job[w].claim
           row == [delivery[c.delivery] EXCEPT !.status = status, !.owner = NoWorker,
                                               !.lapsed = FALSE, !.due = due]
           entry == [delivery |-> c.delivery, generation |-> c.generation,
                     attempt |-> c.attempts, fence |-> c.fence, outcome |-> status]
<1>1. c \in Claim /\ c.delivery \in Deliveries
  BY BusyJob
<1>2. delivery[c.delivery] \in DeliveryRow /\ delivery \in [Deliveries -> DeliveryRow]
  BY <1>1 DEF TypeOK
<1>3. /\ row.status = status /\ row.fence = delivery[c.delivery].fence
      /\ row.attempts = delivery[c.delivery].attempts
      /\ row.generation = delivery[c.delivery].generation
  BY <1>2 DEF DeliveryRow
<1>4. entry \in AttemptRow
  BY <1>1 DEF AttemptRow, Claim
<1>5. /\ entry.delivery = c.delivery /\ entry.generation = c.generation
      /\ entry.attempt = c.attempts /\ entry.fence = c.fence /\ entry.outcome = status
  OBVIOUS
<1>6. delivery' = [delivery EXCEPT ![c.delivery] = row] /\ Record(entry)
  BY <1>0 DEF SettleAs
<1> HIDE DEF row, entry
<1>7. delivery'[c.delivery] = row /\ Elsewhere(c.delivery)
  BY <1>1, <1>2, <1>6 DEF Elsewhere
<1>8. QED
  BY <1>1, <1>3, <1>4, <1>5, <1>6, <1>7 DEF Keeps, Journals

\* Elapsing time changes none of a row's numbers.
LEMMA RetimeKeeps ==
  ASSUME TypeOK, NEW d \in Deliveries,
         \/ delivery' = [delivery EXCEPT ![d].lapsed = FALSE]
         \/ delivery' = [delivery EXCEPT ![d].lapsed = TRUE]
         \/ delivery' = [delivery EXCEPT ![d].due = TRUE],
         delivery[d].status # "NONE", UNCHANGED <<history, quarantine, completed, job>>
  PROVE  QuietStep
<1>1. delivery \in [Deliveries -> DeliveryRow] /\ delivery[d] \in DeliveryRow
  BY DEF TypeOK
<1>2. \A r \in DeliveryRow, b \in BOOLEAN :
        /\ [r EXCEPT !.lapsed = b].status = r.status /\ [r EXCEPT !.lapsed = b].fence = r.fence
        /\ [r EXCEPT !.lapsed = b].generation = r.generation
        /\ [r EXCEPT !.lapsed = b].attempts = r.attempts
        /\ [r EXCEPT !.due = b].status = r.status /\ [r EXCEPT !.due = b].fence = r.fence
        /\ [r EXCEPT !.due = b].generation = r.generation
        /\ [r EXCEPT !.due = b].attempts = r.attempts
  BY DEF DeliveryRow
<1>3. \A x \in Deliveries : x # d => delivery'[x] = delivery[x]
  BY <1>1
<1>4. \/ delivery'[d] = [delivery[d] EXCEPT !.lapsed = FALSE]
      \/ delivery'[d] = [delivery[d] EXCEPT !.lapsed = TRUE]
      \/ delivery'[d] = [delivery[d] EXCEPT !.due = TRUE]
  BY <1>1
<1>5. /\ delivery'[d].status = delivery[d].status /\ delivery'[d].fence = delivery[d].fence
      /\ delivery'[d].generation = delivery[d].generation
      /\ delivery'[d].attempts = delivery[d].attempts
  BY <1>1, <1>2, <1>4, ZenonT(60)
<1>6. \A v \in Workers : JobMoves(v)
  BY DEF JobMoves
<1>7. QED
  BY <1>3, <1>5, <1>6 DEF QuietStep, Keeps

\* Rows nobody can see yet, and rows that are not there, have no numbers.
LEMMA ResetIsQuiet ==
  ASSUME CausalInv, RowsAreSeeded, \A d \in Deliveries : delivery'[d] = delivery[d] \/ Reset(d),
         UNCHANGED <<history, quarantine, completed, job>>
  PROVE  QuietStep
<1>1. /\ NoRow.attempts = 0 /\ Seeded.attempts = 0 /\ NoRow.fence = 0 /\ Seeded.fence = 0
      /\ NoRow.generation = 0 /\ Seeded.generation = 0
      /\ NoRow.status = "NONE" /\ Seeded.status = "PENDING"
  BY DEF NoRow, Seeded
<1>2. ASSUME NEW d \in Deliveries, Reset(d)
      PROVE  delivery[d] \in {NoRow, Seeded} /\ delivery'[d] \in {NoRow, Seeded}
  BY <1>2 DEF Reset, CausalInv, HiddenRowsAreFresh, RowsAreSeeded
<1>3. \A v \in Workers : JobMoves(v)
  BY DEF JobMoves
<1> HIDE DEF Deliveries
<1>4. ASSUME NEW d \in Deliveries
      PROVE  /\ Keeps(d)
             /\ \/ delivery'[d].status = delivery[d].status
                \/ delivery[d].status \in {"NONE", "PENDING"} /\ delivery'[d].status \in {"NONE", "PENDING"}
             /\ delivery'[d].status = "NONE" => delivery'[d] = NoRow \/ delivery'[d] = delivery[d]
  <2>1. CASE delivery'[d] = delivery[d]
    BY <2>1 DEF Keeps
  <2>2. CASE Reset(d)
    BY <1>1, <1>2, <2>2 DEF Keeps
  <2>3. QED
    BY <2>1, <2>2
<1>5. QED
  BY <1>3, <1>4 DEF QuietStep

\* A step of a worker that leaves the rows and the journal alone.
LEMMA WorkerIsQuiet ==
  ASSUME TypeOK, UNCHANGED <<delivery, history, quarantine>>,
         \A d \in Deliveries : completed[d] \subseteq completed'[d],
         \A v \in Workers : JobMoves(v)
  PROVE  QuietStep
BY DEF QuietStep, Keeps

\* A delivery that settles changes the books in the one way SettleStep says.
LEMMA AcknowledgeMakes ==
  ASSUME TypeOK, NEW w \in Workers, acknowledgeEventDelivery(w),
         Finish(w) \/ ContinueAs(w, "failing")
  PROVE  \E d \in Deliveries : SettleStep(w, d, "SUCCEEDED")
<1>1. job[w].phase = "acking" /\ OwnsLease(w) /\ SettleAs(w, "SUCCEEDED", TRUE)
      /\ UNCHANGED <<quarantine, completed>>
  BY DEF acknowledgeEventDelivery
<1>2. \A v \in Workers : JobMoves(v)
  BY <1>1, JobMoved
<1>3. PICK d \in Deliveries : d = job[w].claim.delivery
  BY <1>1, BusyJob
<1>4. /\ quarantine[d] \in [open: Nat, requeued: Nat] /\ quarantine[d].open \in Nat
      /\ quarantine' = quarantine
  BY <1>1, <1>3 DEF TypeOK
<1>5. "SUCCEEDED" \in Settlements /\ \E due \in BOOLEAN : SettleAs(w, "SUCCEEDED", due)
  BY <1>1 DEF Settlements
<1>6. /\ Keeps(d) /\ delivery'[d].status = "SUCCEEDED" /\ Elsewhere(d)
      /\ Journals(d, job[w].claim.generation, job[w].claim.attempts, job[w].claim.fence, "SUCCEEDED")
  BY <1>1, <1>3, <1>5, SettleMakes
<1>7. quarantine'[d].open = quarantine[d].open + 0
  BY <1>4
<1>8. QED
  BY <1>1, <1>2, <1>3, <1>4, <1>6, <1>7 DEF SettleStep

\* A failure that is recorded quarantines or retries, as the attempts tell.
LEMMA FailureMakes ==
  ASSUME TypeOK, NEW w \in Workers, failEventDelivery(w), Finish(w)
  PROVE  \E d \in Deliveries, status \in Settlements : SettleStep(w, d, status)
<1>1. job[w].phase = "failing" /\ OwnsLease(w) /\ UNCHANGED completed
  BY DEF failEventDelivery
<1>2. \A v \in Workers : JobMoves(v)
  BY <1>1, JobMoved
<1>3. PICK d \in Deliveries : d = job[w].claim.delivery
  BY <1>1, BusyJob
<1>4. /\ quarantine \in [Deliveries -> [open: Nat, requeued: Nat]]
      /\ quarantine[d] \in [open: Nat, requeued: Nat]
      /\ quarantine[d].open \in Nat
  BY <1>3 DEF TypeOK
<1>5. CASE IsTerminal(job[w].claim)
  <2>1. /\ SettleAs(w, "QUARANTINED", FALSE)
        /\ quarantine' = [quarantine EXCEPT ![d].open = @ + 1]
    BY <1>3, <1>5 DEF failEventDelivery
  <2>2. /\ quarantine'[d].open = quarantine[d].open + 1
        /\ quarantine'[d].requeued = quarantine[d].requeued
        /\ \A x \in Deliveries : x # d => quarantine'[x] = quarantine[x]
    BY <1>4, <2>1
  <2>3. job[w].claim.attempts >= MaxAttempts
    BY <1>5 DEF IsTerminal
  <2>4. "QUARANTINED" \in Settlements /\ job[w].phase # "idle"
        /\ \E due \in BOOLEAN : SettleAs(w, "QUARANTINED", due)
    BY <1>1, <2>1 DEF Settlements
  <2>5. /\ Keeps(d) /\ delivery'[d].status = "QUARANTINED" /\ Elsewhere(d)
        /\ Journals(d, job[w].claim.generation, job[w].claim.attempts, job[w].claim.fence, "QUARANTINED")
    BY <1>1, <1>3, <2>1, <2>4, SettleMakes
  <2>6. SettleStep(w, d, "QUARANTINED")
    BY <1>1, <1>2, <1>3, <2>2, <2>3, <2>4, <2>5 DEF SettleStep
  <2>7. QED
    BY <2>4, <2>6
<1>6. CASE ~IsTerminal(job[w].claim)
  <2>1. SettleAs(w, "RETRY", FALSE) /\ UNCHANGED quarantine
    BY <1>3, <1>6 DEF failEventDelivery
  <2>2. job[w].claim.attempts < MaxAttempts
    <3>1. job[w].claim.attempts \in Nat /\ MaxAttempts \in Nat
      BY <1>1, BusyJob, AttemptsAssumption DEF Claim
    <3>2. QED
      BY <1>6, <3>1 DEF IsTerminal
  <2>3. "RETRY" \in Settlements /\ job[w].phase # "idle"
        /\ \E due \in BOOLEAN : SettleAs(w, "RETRY", due)
    BY <1>1, <2>1 DEF Settlements
  <2>4. /\ Keeps(d) /\ delivery'[d].status = "RETRY" /\ Elsewhere(d)
        /\ Journals(d, job[w].claim.generation, job[w].claim.attempts, job[w].claim.fence, "RETRY")
    BY <1>1, <1>3, <2>1, <2>3, SettleMakes
  <2>5. quarantine'[d].open = quarantine[d].open + 0
    BY <1>4, <2>1
  <2>6. SettleStep(w, d, "RETRY")
    BY <1>1, <1>2, <1>3, <2>1, <2>2, <2>3, <2>4, <2>5 DEF SettleStep
  <2>7. QED
    BY <2>3, <2>6
<1>7. QED
  BY <1>5, <1>6

\* A requeue opens a new generation, and closes the quarantine it ends.
LEMMA RequeueMakes ==
  ASSUME TypeOK, NEW d \in Deliveries, requeueEventDelivery(d)
  PROVE  RequeueStep(d)
<1> DEFINE row == [delivery[d] EXCEPT !.status = "PENDING", !.attempts = 0, !.due = TRUE,
                                      !.generation = @ + 1]
           shut == [open |-> 0, requeued |-> quarantine[d].requeued + quarantine[d].open]
<1>1. delivery[d] \in DeliveryRow /\ delivery \in [Deliveries -> DeliveryRow]
      /\ quarantine \in [Deliveries -> [open: Nat, requeued: Nat]]
  BY DEF TypeOK
<1>2. /\ row.status = "PENDING" /\ row.fence = delivery[d].fence /\ row.attempts = 0
      /\ row.generation = delivery[d].generation + 1
  BY <1>1 DEF DeliveryRow
<1>3. shut.open = 0 /\ shut.requeued = quarantine[d].requeued + quarantine[d].open
  OBVIOUS
<1>4. /\ delivery' = [delivery EXCEPT ![d] = row]
      /\ quarantine' = [quarantine EXCEPT ![d] = shut]
      /\ delivery[d].status = "QUARANTINED"
      /\ UNCHANGED <<history, completed, job>>
  BY <1>1 DEF requeueEventDelivery
<1> HIDE DEF row, shut
<1>5. delivery'[d] = row /\ Elsewhere(d)
  BY <1>1, <1>4 DEF Elsewhere
<1>6. quarantine'[d] = shut /\ \A x \in Deliveries : x # d => quarantine'[x] = quarantine[x]
  BY <1>1, <1>4
<1>7. QED
  BY <1>2, <1>3, <1>4, <1>5, <1>6 DEF RequeueStep

\* Every step is one of the four.
LEMMA BookSteps ==
  ASSUME CausalInv, RowsAreSeeded, [Next]_vars
  PROVE  BookStep
<1>0. TypeOK /\ delivery \in [Deliveries -> DeliveryRow]
  BY DEF CausalInv, TypeOK
<1>1. ASSUME NEW e \in Events, appendOutboxEvent(e) PROVE QuietStep
  <2>1. \A d \in Deliveries : delivery'[d] = delivery[d] \/ Reset(d)
    BY <1>1 DEF appendOutboxEvent, Reset
  <2>2. QED
    BY <1>1, <2>1, ResetIsQuiet DEF appendOutboxEvent
<1>2. ASSUME NEW t \in Transactions, commitTransaction(t) \/ rollbackTransaction(t)
      PROVE  QuietStep
  <2>1. \A d \in Deliveries : delivery'[d] = delivery[d] \/ Reset(d)
    BY <1>2 DEF commitTransaction, rollbackTransaction, Reset
  <2>2. QED
    BY <1>2, <2>1, ResetIsQuiet DEF commitTransaction, rollbackTransaction
<1>3. ASSUME NEW c \in Consumers,
             registerEventConsumer(c) \/ commitRegistration(c) \/ rollbackRegistration(c)
      PROVE  QuietStep
  <2>1. \A d \in Deliveries : delivery'[d] = delivery[d] \/ Reset(d)
    BY <1>3 DEF registerEventConsumer, commitRegistration, rollbackRegistration, Reset
  <2>2. QED
    BY <1>3, <2>1, ResetIsQuiet
       DEF registerEventConsumer, commitRegistration, rollbackRegistration
<1>4. ASSUME NEW w \in Workers, NEW d \in Deliveries, claimNextEventDelivery(w, d)
      PROVE  ClaimStep(w, d)
  BY <1>0, <1>4, ClaimMakes, SMTT(30)
<1>5. ASSUME NEW w \in Workers, heartbeatEventDelivery(w) PROVE QuietStep
  <2>1. /\ job[w].claim.delivery \in Deliveries
        /\ delivery[job[w].claim.delivery].status = "CLAIMED"
    BY <1>0, <1>5, BusyJob DEF heartbeatEventDelivery, OwnsLease
  <2>2. QED
    BY <1>0, <1>5, <2>1, RetimeKeeps DEF heartbeatEventDelivery
<1>6. ASSUME NEW w \in Workers, HandlerReturns(w) PROVE QuietStep
  <2>1. /\ job[w].claim.delivery \in Deliveries
        /\ job[w] \in [phase: Phases \ {"idle"}, claim: Claim]
        /\ job \in [Workers -> {Idle} \cup [phase: Phases \ {"idle"}, claim: Claim]]
        /\ completed \in [Deliveries -> SUBSET Nat]
    BY <1>0, <1>6, BusyJob DEF HandlerReturns, TypeOK
  <2>2. /\ \A d \in Deliveries : completed[d] \subseteq completed'[d]
        /\ job[w].claim.fence \in completed'[job[w].claim.delivery]
    BY <1>6, <2>1 DEF HandlerReturns
  <2>3. job' = [job EXCEPT ![w].phase = "acking"] /\ job[w].phase = "handling"
    BY <1>6 DEF HandlerReturns, ContinueAs
  <2>4. \A v \in Workers : v # w => job'[v] = job[v]
    BY <2>1, <2>3
  <2>5. job'[w].phase = "acking" /\ job'[w].claim = job[w].claim
    BY <2>1, <2>3
  <2>6. \A v \in Workers : JobMoves(v)
    BY <2>2, <2>3, <2>4, <2>5 DEF JobMoves
  <2>7. QED
    BY <1>0, <1>6, <2>2, <2>6, WorkerIsQuiet DEF HandlerReturns
<1>7. ASSUME NEW w \in Workers,
             HandlerThrows(w) \/ AcknowledgeRejected(w) \/ FailureDropped(w) \/ Crash(w)
      PROVE  QuietStep
  <2>1. /\ (job[w].phase # "idle" /\ Finish(w)) \/ ContinueAs(w, "failing")
        /\ UNCHANGED <<delivery, history, quarantine, completed>>
    BY <1>7 DEF HandlerThrows, AcknowledgeRejected, FailureDropped, Crash
  <2>2. \A v \in Workers : JobMoves(v)
    BY <1>0, <1>7, <2>1, JobMoved DEF HandlerThrows, AcknowledgeRejected, FailureDropped, Crash
  <2>3. QED
    BY <1>0, <2>1, <2>2, WorkerIsQuiet
<1>8. ASSUME NEW w \in Workers, Acknowledged(w) \/ AcknowledgedReplyLost(w) PROVE BookStep
  <2>1. acknowledgeEventDelivery(w) /\ (Finish(w) \/ ContinueAs(w, "failing"))
    BY <1>8 DEF Acknowledged, AcknowledgedReplyLost
  <2>2. PICK d \in Deliveries : SettleStep(w, d, "SUCCEEDED")
    BY <1>0, <2>1, AcknowledgeMakes
  <2>3. QED
    BY <2>2 DEF BookStep, Settlements
<1>9. ASSUME NEW w \in Workers, FailureRecorded(w) PROVE BookStep
  <2>1. PICK d \in Deliveries, status \in Settlements : SettleStep(w, d, status)
    BY <1>0, <1>9, FailureMakes DEF FailureRecorded
  <2>2. QED
    BY <2>1 DEF BookStep
<1>10. ASSUME NEW d \in Deliveries, requeueEventDelivery(d) PROVE RequeueStep(d)
  BY <1>0, <1>10, RequeueMakes
<1>11. ASSUME NEW d \in Deliveries, LeaseLapses(d) \/ BackoffElapses(d) PROVE QuietStep
  BY <1>0, <1>11, RetimeKeeps DEF LeaseLapses, BackoffElapses
<1>12. CASE UNCHANGED vars
  <2>1. \A v \in Workers : JobMoves(v)
    BY <1>12 DEF vars, JobMoves
  <2>2. QED
    BY <1>12, <2>1 DEF vars, QuietStep, Keeps, BookStep
<1> HIDE DEF Deliveries
<1>13. QED
  BY <1>1, <1>2, <1>3, <1>4, <1>5, <1>6, <1>7, <1>8, <1>9, <1>10, <1>11, <1>12
     DEF Next, WorkerStep, BookStep

\* The rows and the journal name deliveries and count in natural numbers.
LEMMA BookTypes ==
  ASSUME TypeOK
  PROVE  /\ \A d \in Deliveries :
              /\ delivery[d].fence \in Nat /\ delivery[d].attempts \in Nat
              /\ delivery[d].generation \in Nat
              /\ quarantine[d].open \in Nat /\ quarantine[d].requeued \in Nat
         /\ \A h \in history :
              /\ h.delivery \in Deliveries /\ h.fence \in Nat /\ h.attempt \in Nat
              /\ h.generation \in Nat
         /\ \A w \in Workers : job[w].phase # "idle" =>
              /\ job[w].claim.delivery \in Deliveries /\ job[w].claim.fence \in Nat
              /\ job[w].claim.attempts \in Nat /\ job[w].claim.generation \in Nat
<1> HIDE DEF Deliveries
<1>1. \A h \in history : h \in AttemptRow
  BY DEF TypeOK
<1>2. \A d \in Deliveries : delivery[d] \in DeliveryRow
  BY DEF TypeOK
<1>3. \A d \in Deliveries : quarantine[d] \in [open: Nat, requeued: Nat]
  BY DEF TypeOK
<1>4. \A w \in Workers : job[w].phase # "idle" => job[w].claim \in Claim
  BY BusyJob
<1>5. QED
  BY <1>1, <1>2, <1>3, <1>4 DEF AttemptRow, DeliveryRow, Claim

\* The claims journalled for a delivery, and those of its present generation.
Claims(d) == {h \in history : h.delivery = d /\ h.outcome = "CLAIMED"}
Present(d) == {h \in Claims(d) : h.generation = delivery[d].generation}

LEMMA CompleteMeans ==
  HistoryIsComplete <=>
    \A d \in Deliveries : /\ Cardinality(Claims(d)) = delivery[d].fence
                          /\ Cardinality(Present(d)) = delivery[d].attempts
BY DEF HistoryIsComplete, Claims, Present

\* A step that is not a claim, an outcome or a requeue keeps the books.
LEMMA QuietBooks ==
  ASSUME BooksInv, TypeOK', QuietStep
  PROVE  BooksHold'
<1> HIDE DEF Deliveries
<1>0. /\ TypeOK /\ UNCHANGED <<history, quarantine>>
      /\ \A d \in Deliveries : Keeps(d)
      /\ \A h \in history : h.delivery \in Deliveries
  BY BookTypes DEF BooksInv, CausalInv, QuietStep
<1>1. SettledOncePerClaim' /\ IsFiniteSet(history')
  BY <1>0 DEF BooksInv, BooksHold, SettledOncePerClaim
<1>2. HistoryIsComplete'
  <2>1. \A d \in Deliveries : Claims(d)' = Claims(d)
    BY <1>0 DEF Claims
  <2>2. \A d \in Deliveries : Present(d)' = Present(d)
    BY <1>0, <2>1 DEF Present, Keeps
  <2>3. \A d \in Deliveries : /\ Cardinality(Claims(d)') = delivery'[d].fence
                              /\ Cardinality(Present(d)') = delivery'[d].attempts
    BY <1>0, <2>1, <2>2, CompleteMeans DEF Keeps, BooksInv, BooksHold
  <2>4. QED
    BY <2>3 DEF HistoryIsComplete, Claims, Present
<1>3. \A d \in Deliveries : delivery[d].status \in {"CLAIMED", "RETRY", "SUCCEEDED", "QUARANTINED"}
                            \/ delivery'[d].status \in {"CLAIMED", "RETRY", "SUCCEEDED", "QUARANTINED"}
                              => delivery'[d].status = delivery[d].status
  BY DEF QuietStep
<1>4. QuarantineAgrees'
  BY <1>0, <1>3 DEF BooksInv, BooksHold, QuarantineAgrees, Keeps
<1>5. SucceededWasHandled' /\ RetryBudget'
  BY <1>0, <1>3 DEF BooksInv, BooksHold, SucceededWasHandled, RetryBudget, Keeps, QuietStep
<1>6. RowsAreSeeded'
  BY <1>0 DEF BooksInv, BooksHold, RowsAreSeeded, QuietStep
<1>7. PastIsBehind' /\ OpenIsUnsettled'
  BY <1>0, <1>3 DEF BooksInv, BooksHold, PastIsBehind, OpenIsUnsettled, Keeps
<1>8. ClaimsAreKnown'
  <2> SUFFICES ASSUME NEW w \in Workers, job'[w].phase # "idle" PROVE ClaimIsKnown(w)'
    BY DEF ClaimsAreKnown
  <2>1. /\ job[w].phase # "idle" /\ job'[w].claim = job[w].claim
        /\ job'[w].phase = "acking" =>
             job[w].phase = "acking" \/ job[w].claim.fence \in completed'[job[w].claim.delivery]
    BY DEF QuietStep, JobMoves
  <2>2. ClaimIsKnown(w) /\ job[w].claim.delivery \in Deliveries
    BY <1>0, <2>1, BookTypes DEF BooksInv, BooksHold, ClaimsAreKnown
  <2>3. completed[job[w].claim.delivery] \subseteq completed'[job[w].claim.delivery]
    BY <2>2 DEF QuietStep
  <2>4. QED
    BY <1>0, <1>3, <2>1, <2>2, <2>3 DEF ClaimIsKnown, Keeps
<1>9. QED
  BY <1>1, <1>2, <1>4, <1>5, <1>6, <1>7, <1>8 DEF BooksHold

\* What is in the journal after a row was recorded.
LEMMA Recorded ==
  ASSUME NEW h, Record(h)
  PROVE  /\ history' = history \/ history' = history \cup {h}
         /\ (\A k \in history : k.delivery = h.delivery /\ k.generation = h.generation
                                  /\ k.outcome = h.outcome => k.attempt # h.attempt)
              => history' = history \cup {h} /\ h \notin history
BY DEF Record

\* A claim's row lies ahead of the journal, so its key is free.
LEMMA ClaimBooks ==
  ASSUME BooksInv, TypeOK', NEW w \in Workers, NEW d \in Deliveries, ClaimStep(w, d)
  PROVE  BooksHold'
<1> HIDE DEF Deliveries
<1>0. /\ TypeOK /\ UNCHANGED <<quarantine, completed>>
      /\ \A h \in history : h.delivery \in Deliveries
      /\ \A h \in history : h.fence \in Nat /\ h.attempt \in Nat /\ h.generation \in Nat
      /\ delivery[d].fence \in Nat /\ delivery[d].attempts \in Nat /\ delivery[d].generation \in Nat
      /\ \A x \in Deliveries : x # d => delivery'[x] = delivery[x]
      /\ delivery'[d].status = "CLAIMED"
      /\ delivery'[d].fence = delivery[d].fence + 1
      /\ delivery'[d].attempts = delivery[d].attempts + 1
      /\ delivery'[d].generation = delivery[d].generation
      /\ delivery[d].status \in {"PENDING", "RETRY", "CLAIMED"}
  BY BookTypes DEF BooksInv, CausalInv, ClaimStep, Elsewhere
<1>1. PICK h \in AttemptRow :
        /\ h.delivery = d /\ h.generation = delivery'[d].generation
        /\ h.attempt = delivery'[d].attempts /\ h.fence = delivery'[d].fence
        /\ h.outcome = "CLAIMED" /\ Record(h)
  BY DEF ClaimStep, Journals
<1>2. /\ PastIsBehind /\ OpenIsUnsettled /\ ClaimsAreKnown /\ SettledOncePerClaim
      /\ IsFiniteSet(history)
  BY DEF BooksInv, BooksHold
<1>3. \A k \in history : k.delivery = d => /\ k.fence <= delivery[d].fence
                                           /\ k.generation <= delivery[d].generation
                                           /\ k.generation = delivery[d].generation
                                                => k.attempt <= delivery[d].attempts
  BY <1>2 DEF PastIsBehind
<1>4. history' = history \cup {h} /\ h \notin history
  <2>1. \A k \in history : k.delivery = h.delivery /\ k.generation = h.generation
                             /\ k.outcome = h.outcome => k.attempt # h.attempt
    BY <1>0, <1>1, <1>3
  <2>2. QED
    BY <1>1, <2>1, Recorded
<1>5. SettledOncePerClaim' /\ IsFiniteSet(history')
  <2>1. "CLAIMED" \notin Settlements
    BY DEF Settlements
  <2>2. IsFiniteSet(history')
    BY <1>2, <1>4, FS_AddElement
  <2>3. QED
    BY <1>1, <1>2, <1>4, <2>1, <2>2 DEF SettledOncePerClaim
<1>6. HistoryIsComplete'
  <2>1. \A x \in Deliveries : /\ Cardinality(Claims(x)) = delivery[x].fence
                              /\ Cardinality(Present(x)) = delivery[x].attempts
                              /\ IsFiniteSet(Claims(x)) /\ IsFiniteSet(Present(x))
    <3>1. \A x \in Deliveries : Claims(x) \in SUBSET history /\ Present(x) \in SUBSET history
      BY DEF Claims, Present
    <3>2. QED
      BY <1>2, <3>1, CompleteMeans, FS_Subset DEF BooksInv, BooksHold
  <2>2. \A x \in Deliveries : x # d => Claims(x)' = Claims(x)
    BY <1>1, <1>4 DEF Claims
  <2>3. \A x \in Deliveries : x # d => Present(x)' = Present(x)
    BY <1>0, <2>2 DEF Present
  <2>4. Claims(d)' = Claims(d) \cup {h} /\ h \notin Claims(d)
    BY <1>1, <1>4 DEF Claims
  <2>5. Present(d)' = Present(d) \cup {h} /\ h \notin Present(d)
    BY <1>0, <1>1, <2>4 DEF Present
  <2>6. /\ Cardinality(Claims(d)') = delivery[d].fence + 1
        /\ Cardinality(Present(d)') = delivery[d].attempts + 1
    <3>1. /\ IsFiniteSet(Claims(d)) /\ Cardinality(Claims(d)) = delivery[d].fence
          /\ IsFiniteSet(Present(d)) /\ Cardinality(Present(d)) = delivery[d].attempts
      BY <2>1
    <3>2. Cardinality(Claims(d)') = delivery[d].fence + 1
      BY <2>4, <3>1, FS_AddElement
    <3>3. Cardinality(Present(d)') = delivery[d].attempts + 1
      BY <2>5, <3>1, FS_AddElement
    <3>4. QED
      BY <3>2, <3>3
  <2>7. \A x \in Deliveries : /\ Cardinality(Claims(x)') = delivery'[x].fence
                              /\ Cardinality(Present(x)') = delivery'[x].attempts
    BY <1>0, <2>1, <2>2, <2>3, <2>6
  <2>8. QED
    BY <2>7 DEF HistoryIsComplete, Claims, Present
<1>7. QuarantineAgrees' /\ SucceededWasHandled' /\ RetryBudget'
  BY <1>0 DEF BooksInv, BooksHold, QuarantineAgrees, SucceededWasHandled, RetryBudget
<1>8. RowsAreSeeded'
  BY <1>0 DEF BooksInv, BooksHold, RowsAreSeeded
<1>9. PastIsBehind' /\ OpenIsUnsettled'
  <2>1. \A k \in history : k.delivery # d => delivery'[k.delivery] = delivery[k.delivery]
    BY <1>0
  <2>2. "CLAIMED" \notin Settlements
    BY DEF Settlements
  <2>3. PastIsBehind'
    BY <1>0, <1>1, <1>2, <1>3, <1>4, <2>1 DEF PastIsBehind
  <2>4. OpenIsUnsettled'
    BY <1>0, <1>1, <1>2, <1>3, <1>4, <2>1, <2>2 DEF OpenIsUnsettled
  <2>5. QED
    BY <2>3, <2>4
<1>10. ClaimsAreKnown'
  <2> SUFFICES ASSUME NEW v \in Workers, job'[v].phase # "idle" PROVE ClaimIsKnown(v)'
    BY DEF ClaimsAreKnown
  <2>1. CASE v = w
    BY <1>0, <2>1 DEF ClaimStep, ClaimIsKnown
  <2>2. CASE v # w
    <3>1. job'[v] = job[v] /\ ClaimIsKnown(v)
      BY <1>2, <2>2 DEF ClaimStep, ClaimsAreKnown
    <3>2. job[v].claim.delivery \in Deliveries /\ job[v].claim.fence \in Nat
      BY <1>0, <3>1, BookTypes
    <3>3. CASE job[v].claim.delivery = d
      BY <1>0, <3>1, <3>2, <3>3 DEF ClaimIsKnown
    <3>4. CASE job[v].claim.delivery # d
      BY <1>0, <3>1, <3>2, <3>4 DEF ClaimIsKnown
    <3>5. QED
      BY <3>3, <3>4
  <2>3. QED
    BY <2>1, <2>2
<1>11. QED
  BY <1>5, <1>6, <1>7, <1>8, <1>9, <1>10 DEF BooksHold

\* A worker that may settle knows the present numbers of the row, whose claim
\* nobody has settled; the journal row it writes is the first outcome.
LEMMA SettleBooks ==
  ASSUME BooksInv, TypeOK', NEW w \in Workers, NEW d \in Deliveries, NEW status \in Settlements,
         SettleStep(w, d, status)
  PROVE  BooksHold'
<1> HIDE DEF Deliveries
<1>0. /\ TypeOK /\ UNCHANGED completed
      /\ \A h \in history : h.delivery \in Deliveries
      /\ \A h \in history : h.fence \in Nat /\ h.attempt \in Nat /\ h.generation \in Nat
      /\ delivery[d].fence \in Nat /\ delivery[d].attempts \in Nat /\ delivery[d].generation \in Nat
      /\ \A x \in Deliveries : x # d => delivery'[x] = delivery[x]
      /\ Keeps(d) /\ delivery'[d].status = status
  BY BookTypes DEF BooksInv, CausalInv, SettleStep, Elsewhere
<1>1. /\ job[w].phase # "idle" /\ job[w].claim.delivery = d
      /\ delivery[d].status = "CLAIMED" /\ delivery[d].fence = job[w].claim.fence
  BY DEF SettleStep, OwnsLease
<1>2. /\ PastIsBehind /\ OpenIsUnsettled /\ ClaimsAreKnown /\ SettledOncePerClaim
      /\ IsFiniteSet(history)
  BY DEF BooksInv, BooksHold
<1>3. /\ job[w].claim.attempts = delivery[d].attempts
      /\ job[w].claim.generation = delivery[d].generation
      /\ job[w].phase = "acking" => delivery[d].fence \in completed[d]
  BY <1>1, <1>2 DEF ClaimsAreKnown, ClaimIsKnown
<1>4. PICK h \in AttemptRow :
        /\ h.delivery = d /\ h.generation = delivery[d].generation
        /\ h.attempt = delivery[d].attempts /\ h.fence = delivery[d].fence
        /\ h.outcome = status /\ Record(h)
  BY <1>1, <1>3 DEF SettleStep, Journals
<1>5. history' = history \/ history' = history \cup {h}
  BY <1>4, Recorded
<1>6. \A k \in history : k.delivery = d /\ k.outcome \in Settlements => k.fence # delivery[d].fence
  BY <1>0, <1>1, <1>2 DEF OpenIsUnsettled
<1>7. status # "CLAIMED" /\ status \notin {"NONE", "PENDING"}
  BY DEF Settlements
<1>8. SettledOncePerClaim' /\ IsFiniteSet(history')
  <2>1. IsFiniteSet(history')
    BY <1>2, <1>5, FS_AddElement
  <2>2. SettledOncePerClaim'
    BY <1>2, <1>4, <1>5, <1>6 DEF SettledOncePerClaim
  <2>3. QED
    BY <2>1, <2>2
<1>9. HistoryIsComplete'
  <2>1. \A x \in Deliveries : Claims(x)' = Claims(x)
    BY <1>4, <1>5, <1>7 DEF Claims
  <2>2. \A x \in Deliveries : Present(x)' = Present(x)
    BY <1>0, <2>1 DEF Present, Keeps
  <2>3. \A x \in Deliveries : /\ Cardinality(Claims(x)') = delivery'[x].fence
                              /\ Cardinality(Present(x)') = delivery'[x].attempts
    BY <1>0, <2>1, <2>2, CompleteMeans DEF Keeps, BooksInv, BooksHold
  <2>4. QED
    BY <2>3 DEF HistoryIsComplete, Claims, Present
<1>10. QuarantineAgrees'
  <2>1. /\ quarantine'[d].open = quarantine[d].open + (IF status = "QUARANTINED" THEN 1 ELSE 0)
        /\ quarantine'[d].requeued = quarantine[d].requeued
        /\ \A x \in Deliveries : x # d => quarantine'[x] = quarantine[x]
    BY DEF SettleStep
  <2>2. quarantine[d].open = 0
    BY <1>1 DEF BooksInv, BooksHold, QuarantineAgrees
  <2>3. QED
    BY <1>0, <2>1, <2>2 DEF BooksInv, BooksHold, QuarantineAgrees, Keeps
<1>11. SucceededWasHandled'
  <2>1. status = "SUCCEEDED" => job[w].phase = "acking"
    BY DEF SettleStep
  <2>2. QED
    BY <1>0, <1>3, <2>1 DEF BooksInv, BooksHold, SucceededWasHandled, Keeps
<1>12. RetryBudget'
  <2>1. /\ status = "RETRY" => delivery[d].attempts < MaxAttempts
        /\ status = "QUARANTINED" => delivery[d].attempts >= MaxAttempts
    BY <1>3 DEF SettleStep
  <2>2. QED
    BY <1>0, <2>1 DEF BooksInv, BooksHold, RetryBudget, Keeps
<1>13. RowsAreSeeded'
  BY <1>0, <1>7 DEF BooksInv, BooksHold, RowsAreSeeded
<1>14. PastIsBehind' /\ OpenIsUnsettled'
  <2>1. \A x \in Deliveries : Keeps(x)
    BY <1>0 DEF Keeps
  <2>2. PastIsBehind'
    BY <1>0, <1>2, <1>4, <1>5, <2>1 DEF PastIsBehind, Keeps
  <2>3. OpenIsUnsettled'
    BY <1>0, <1>2, <1>4, <1>5, <1>7 DEF OpenIsUnsettled
  <2>4. QED
    BY <2>2, <2>3
<1>15. ClaimsAreKnown'
  <2> SUFFICES ASSUME NEW v \in Workers, job'[v].phase # "idle" PROVE ClaimIsKnown(v)'
    BY DEF ClaimsAreKnown
  <2>1. /\ job[v].phase # "idle" /\ job'[v].claim = job[v].claim
        /\ job'[v].phase = "acking" =>
             job[v].phase = "acking" \/ job[v].claim.fence \in completed[job[v].claim.delivery]
    BY <1>0 DEF SettleStep, JobMoves
  <2>2. ClaimIsKnown(v) /\ job[v].claim.delivery \in Deliveries
    BY <1>0, <1>2, <2>1, BookTypes DEF ClaimsAreKnown
  <2>3. CASE job[v].claim.delivery = d
    BY <1>0, <1>7, <2>1, <2>2, <2>3 DEF ClaimIsKnown, Keeps
  <2>4. CASE job[v].claim.delivery # d
    BY <1>0, <2>1, <2>2, <2>4 DEF ClaimIsKnown
  <2>5. QED
    BY <2>3, <2>4
<1>16. QED
  BY <1>8, <1>9, <1>10, <1>11, <1>12, <1>13, <1>14, <1>15 DEF BooksHold

\* A requeue starts the attempts again under a generation nobody has claimed.
LEMMA RequeueBooks ==
  ASSUME BooksInv, TypeOK', NEW d \in Deliveries, RequeueStep(d)
  PROVE  BooksHold'
<1> HIDE DEF Deliveries
<1>0. /\ TypeOK /\ UNCHANGED <<history, completed, job>>
      /\ \A h \in history : h.delivery \in Deliveries
      /\ \A h \in history : h.fence \in Nat /\ h.attempt \in Nat /\ h.generation \in Nat
      /\ delivery[d].fence \in Nat /\ delivery[d].attempts \in Nat /\ delivery[d].generation \in Nat
      /\ \A x \in Deliveries : x # d => delivery'[x] = delivery[x]
      /\ delivery[d].status = "QUARANTINED" /\ delivery'[d].status = "PENDING"
      /\ delivery'[d].fence = delivery[d].fence /\ delivery'[d].attempts = 0
      /\ delivery'[d].generation = delivery[d].generation + 1
  BY BookTypes DEF BooksInv, CausalInv, RequeueStep, Elsewhere
<1>1. /\ PastIsBehind /\ OpenIsUnsettled /\ ClaimsAreKnown /\ SettledOncePerClaim
      /\ IsFiniteSet(history)
  BY DEF BooksInv, BooksHold
<1>2. SettledOncePerClaim' /\ IsFiniteSet(history')
  BY <1>0, <1>1 DEF SettledOncePerClaim
<1>3. HistoryIsComplete'
  <2>1. \A x \in Deliveries : Claims(x)' = Claims(x)
    BY <1>0 DEF Claims
  <2>2. \A x \in Deliveries : x # d => Present(x)' = Present(x)
    BY <1>0, <2>1 DEF Present
  <2>3. Present(d)' = {}
    BY <1>0, <1>1 DEF Present, Claims, PastIsBehind
  <2>4. Cardinality({}) = 0
    BY FS_EmptySet
  <2>5. \A x \in Deliveries : /\ Cardinality(Claims(x)) = delivery[x].fence
                              /\ Cardinality(Present(x)) = delivery[x].attempts
    BY CompleteMeans DEF BooksInv, BooksHold
  <2>6. \A x \in Deliveries : /\ Cardinality(Claims(x)') = delivery'[x].fence
                              /\ Cardinality(Present(x)') = delivery'[x].attempts
    BY <1>0, <2>1, <2>2, <2>3, <2>4, <2>5
  <2>7. QED
    BY <2>6 DEF HistoryIsComplete, Claims, Present
<1>4. QuarantineAgrees'
  <2>1. /\ quarantine'[d].open = 0
        /\ quarantine'[d].requeued = quarantine[d].requeued + quarantine[d].open
        /\ \A x \in Deliveries : x # d => quarantine'[x] = quarantine[x]
    BY DEF RequeueStep
  <2>2. quarantine[d].open = 1 /\ quarantine[d].requeued = delivery[d].generation
    BY <1>0 DEF BooksInv, BooksHold, QuarantineAgrees
  <2>3. QED
    BY <1>0, <2>1, <2>2 DEF BooksInv, BooksHold, QuarantineAgrees
<1>5. SucceededWasHandled' /\ RetryBudget' /\ RowsAreSeeded'
  BY <1>0 DEF BooksInv, BooksHold, SucceededWasHandled, RetryBudget, RowsAreSeeded
<1>6. PastIsBehind' /\ OpenIsUnsettled'
  BY <1>0, <1>1 DEF PastIsBehind, OpenIsUnsettled
<1>7. ClaimsAreKnown'
  <2> SUFFICES ASSUME NEW w \in Workers, job[w].phase # "idle" PROVE ClaimIsKnown(w)'
    BY <1>0 DEF ClaimsAreKnown
  <2>1. ClaimIsKnown(w) /\ job[w].claim.delivery \in Deliveries
    BY <1>0, <1>1, BookTypes DEF ClaimsAreKnown
  <2>2. CASE job[w].claim.delivery = d
    BY <1>0, <2>1, <2>2 DEF ClaimIsKnown
  <2>3. CASE job[w].claim.delivery # d
    BY <1>0, <2>1, <2>3 DEF ClaimIsKnown
  <2>4. QED
    BY <2>2, <2>3
<1>8. QED
  BY <1>2, <1>3, <1>4, <1>5, <1>6, <1>7 DEF BooksHold

\* Nothing has been claimed, settled or quarantined at first.
LEMMA InitBooks == Init => BooksInv
<1> SUFFICES ASSUME Init PROVE BooksInv
  OBVIOUS
<1> HIDE DEF Deliveries
<1>1. /\ history = {} /\ \A w \in Workers : job[w] = Idle
      /\ \A d \in Deliveries : delivery[d] = NoRow /\ quarantine[d].open = 0
                               /\ quarantine[d].requeued = 0
  BY DEF Init
<1>2. NoRow.status = "NONE" /\ NoRow.fence = 0 /\ NoRow.attempts = 0 /\ NoRow.generation = 0
  BY DEF NoRow
<1>3. \A d \in Deliveries : Claims(d) = {} /\ Present(d) = {}
  BY <1>1 DEF Claims, Present
<1>4. Cardinality({}) = 0 /\ IsFiniteSet({})
  BY FS_EmptySet
<1>5. HistoryIsComplete
  BY <1>1, <1>2, <1>3, <1>4, CompleteMeans
<1>6. ClaimsAreKnown
  BY <1>1 DEF ClaimsAreKnown, Idle
<1>7. QED
  BY <1>1, <1>2, <1>4, <1>5, <1>6, InitCausal
     DEF BooksInv, BooksHold, SettledOncePerClaim, QuarantineAgrees, SucceededWasHandled,
         RetryBudget, RowsAreSeeded, PastIsBehind, OpenIsUnsettled

\* Every step keeps the books: the induction step of BooksAreKept.
LEMMA NextBooks == BooksInv /\ [Next]_vars => BooksInv'
<1> SUFFICES ASSUME BooksInv, [Next]_vars PROVE BooksInv'
  OBVIOUS
<1>1. CausalInv' /\ TypeOK'
  BY NextCausal DEF BooksInv, CausalInv
<1>2. BookStep
  BY BookSteps DEF BooksInv, BooksHold
<1> HIDE DEF Deliveries
<1>3. BooksHold'
  BY <1>1, <1>2, QuietBooks, ClaimBooks, SettleBooks, RequeueBooks DEF BookStep
<1>4. QED
  BY <1>1, <1>3 DEF BooksInv

\* The rows, the journal of attempts and the quarantine of outbox.ts tell one
\* story: a claim is settled once and journalled, a success was handled under
\* the claim that acknowledged it, and quarantine rows match the generations,
\* whatever stale workers, crashes, lost replies and requeues do.
THEOREM BooksAreKept == Spec => []BooksAgree
<1>1. BooksInv => BooksAgree
  BY DEF BooksInv, BooksHold, CausalInv, BooksAgree
<1>2. QED
  BY InitBooks, NextBooks, <1>1, PTL DEF Spec

-----------------------------------------------------------------------------
(* Fan-out.                                                                  *)

\* A consumer joins only through the commit of a registration, and an event
\* becomes visible only through its transaction's commit.
LEMMA WhoJoins ==
  ASSUME TypeOK, [Next]_vars
  PROVE  /\ \A c \in Consumers : c \in registered' /\ c \notin registered =>
              commitRegistration(c) /\ UNCHANGED stage
         /\ \A e \in Events : stage'[e] = "committed" /\ stage[e] # "committed" =>
              stage[e] = "inserted" /\ UNCHANGED registered
<1> DEFINE Joins == \A c \in Consumers : c \in registered' /\ c \notin registered =>
                      commitRegistration(c) /\ UNCHANGED stage
           Appears == \A e \in Events : stage'[e] = "committed" /\ stage[e] # "committed" =>
                        stage[e] = "inserted" /\ UNCHANGED registered
<1>1. ASSUME NEW e \in Events, appendOutboxEvent(e) PROVE Joins /\ Appears
  BY <1>1 DEF appendOutboxEvent, TypeOK
<1>2. ASSUME NEW t \in Transactions, commitTransaction(t) PROVE Joins /\ Appears
  BY <1>2 DEF commitTransaction, TypeOK
<1>3. ASSUME NEW t \in Transactions, rollbackTransaction(t) PROVE Joins /\ Appears
  BY <1>3 DEF rollbackTransaction, TypeOK
<1>4. ASSUME NEW c \in Consumers, commitRegistration(c) PROVE Joins /\ Appears
  <2>1. registered' = registered \cup {c} /\ UNCHANGED stage
    BY <1>4 DEF commitRegistration
  <2>2. QED
    BY <1>4, <2>1
<1>5. ASSUME UNCHANGED <<stage, registered>> PROVE Joins /\ Appears
  BY <1>5, SMTT(30)
<1> HIDE DEF Joins, Appears
<1>6. Joins /\ Appears
  BY <1>1, <1>2, <1>3, <1>4, <1>5
     DEF Next, vars, registerEventConsumer, rollbackRegistration,
         claimNextEventDelivery, heartbeatEventDelivery,
         WorkerStep, HandlerReturns, HandlerThrows, Acknowledged, AcknowledgedReplyLost,
         acknowledgeEventDelivery, AcknowledgeRejected, FailureRecorded, failEventDelivery,
         FailureDropped, Crash, requeueEventDelivery, LeaseLapses, BackoffElapses
<1>7. QED
  BY <1>6 DEF Joins, Appears

\* When a registration commits, what its backfill read has a row.
LEMMA BackfillLeavesNone ==
  ASSUME TypeOK, NEW c \in Consumers, NEW e \in Events,
         commitRegistration(c), e \in registering[c].seen
  PROVE  delivery'[<<e, c>>].status # "NONE"
<1>1. PICK d \in Deliveries : d = <<e, c>>
  BY DEF Deliveries
<1>2. d[1] = e /\ d[2] = c
  BY <1>1
<1>3. delivery'[d] = IF delivery[d].status = "NONE" THEN Seeded ELSE delivery[d]
  BY <1>2 DEF commitRegistration
<1>4. QED
  BY <1>1, <1>3, FreshRows

\* A committed event lacks the row of a committed consumer only where its
\* insertion and the first registration overlapped - the trigger ran before the
\* registration committed and the event committed after the backfill had read -
\* and only until a registration whose backfill reads it commits: no retry,
\* rollback, quarantine or other registration opens a gap or leaves it there.
THEOREM GapsAreOverlaps == Spec => FanOutGap
<1> DEFINE GapStep ==
             \A e \in Events, c \in Consumers :
               Gap(e, c)' => /\ Gap(e, c) \/ Overlap(e, c)
                             /\ commitRegistration(c) => e \notin registering[c].seen
<1>1. TypeOK /\ [Next]_vars => GapStep
  <2> SUFFICES ASSUME TypeOK, [Next]_vars, NEW e \in Events, NEW c \in Consumers,
                      stage'[e] = "committed", c \in registered',
                      delivery'[<<e, c>>].status = "NONE"
               PROVE  /\ Gap(e, c) \/ Overlap(e, c)
                      /\ commitRegistration(c) => e \notin registering[c].seen
    BY DEF Gap
  <2>1. PICK d \in Deliveries : d = <<e, c>>
    BY DEF Deliveries
  <2>2. d[1] = e /\ d[2] = c
    BY <2>1
  <2>3. commitRegistration(c) => e \notin registering[c].seen
    BY BackfillLeavesNone
  <2>4. CASE stage[e] # "committed"
    BY <2>3, <2>4, WhoJoins DEF Overlap
  <2>5. CASE stage[e] = "committed" /\ c \in registered
    <3>1. RowStep(d)
      BY RowSteps
    <3>2. delivery[d].status = "NONE"
      BY <2>1, <2>2, <2>5, <3>1
         DEF RowStep, Reset, Claimed, Settled, Retimed, Requeued, Settlements
    <3>3. QED
      BY <2>1, <2>3, <2>5, <3>2 DEF Gap
  <2>6. CASE stage[e] = "committed" /\ c \notin registered
    BY <2>3, <2>6, WhoJoins DEF Overlap
  <2>7. QED
    BY <2>4, <2>5, <2>6
<1>2. TypeOK /\ [Next]_vars => [GapStep]_vars
  BY <1>1
<1>3. QED
  BY InitType, NextType, <1>2, PTL DEF Spec, FanOutGap, GapStep
=============================================================================
