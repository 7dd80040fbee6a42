--------------------------- MODULE IngestJobProofs ---------------------------
(* Machine-checked theorems about ingest jobs, for every value of the constants. *)
EXTENDS IngestJob, FiniteSetTheorems, TLAPS

\* A worker that is not idle holds a claim on a job.
LEMMA BusyClaim ==
  ASSUME TypeOK, NEW w \in Workers, work[w].at # "idle"
  PROVE  work[w] \in Claim /\ work[w].job \in Jobs /\ work[w].version \in Nat
BY DEF TypeOK, NoClaim, Claim

\* Stages lead from states that workers claim to states of a job.
LEMMA StageStates ==
  /\ Working \subseteq States
  /\ \A stage \in Stages : stage[1] \in Working /\ stage[2] \in States
BY DEF Working, States, Stages

\* Moving a busy worker to another phase keeps work typed.
LEMMA MoveType ==
  ASSUME TypeOK, NEW w \in Workers, work[w].at # "idle", NEW at \in Phases, MoveTo(w, at)
  PROVE  work' \in [Workers -> Claim \cup {NoClaim}]
<1>1. work[w] \in Claim
  BY BusyClaim
<1>2. [work[w] EXCEPT !.at = at] \in Claim
  BY <1>1 DEF Claim
<1>3. QED
  BY <1>2 DEF TypeOK, MoveTo

\* An outcome that is recorded is appended for the worker's job, which keeps
\* the journal typed.
LEMMA RecordType ==
  ASSUME TypeOK, NEW w \in Workers, work[w].at # "idle", NEW kind \in {"moved", "failed"},
         Record(w, kind)
  PROVE  outcomes' \in [Jobs -> Seq(Outcome)]
<1> DEFINE o == [version |-> work[w].version, kind |-> kind]
<1>1. work[w].job \in Jobs /\ o \in Outcome
  BY BusyClaim DEF Outcome
<1>2. Append(outcomes[work[w].job], o) \in Seq(Outcome)
  BY <1>1 DEF TypeOK
<1>3. outcomes' = [outcomes EXCEPT ![work[w].job] = Append(outcomes[work[w].job], o)]
  BY DEF Record
<1>4. QED
  BY <1>1, <1>2, <1>3 DEF TypeOK

\* Taking a claim away keeps the history of revocations typed.
LEMMA RevokeType ==
  ASSUME TypeOK, NEW j \in Jobs, Revoke(j)
  PROVE  revoked' \in [Jobs -> SUBSET Nat]
<1>1. job[j].version \in Nat
  BY DEF TypeOK, JobRow
<1>2. revoked[j] \cup {job[j].version} \in SUBSET Nat
  BY <1>1 DEF TypeOK
<1>3. revoked' = revoked \/ revoked' = [revoked EXCEPT ![j] = revoked[j] \cup {job[j].version}]
  BY DEF Revoke
<1>4. QED
  BY <1>2, <1>3 DEF TypeOK

BoundOK == reopenings \in Nat /\ budget \in Nat /\ struck \subseteq FaultKinds

\* A fault or a reopening leaves the bounds typed.
LEMMA BoundType ==
  ASSUME TypeOK
  PROVE  /\ \A kind : Spend(kind) => BoundOK'
         /\ Reopen => BoundOK'
BY BoundAssumption DEF TypeOK, Spend, Reopen, BoundOK

\* The transition leaves a typed state behind, whichever way it ends.
LEMMA TransitionType ==
  ASSUME TypeOK, NEW w \in Workers, work[w].at # "idle", NEW next \in States,
         NEW catch \in Phases, transitionClaimedIngestJob(w, next, catch)
  PROVE  TypeOK'
<1> DEFINE j == work[w].job
<1>1. j \in Jobs
  BY BusyClaim
<1>2. ASSUME Commit(w, next)
      PROVE  /\ job' \in [Jobs -> JobRow] /\ outcomes' \in [Jobs -> Seq(Outcome)]
             /\ reviews' \in [Jobs -> Seq(Review)]
             /\ branch' \subseteq Jobs /\ worktree' \subseteq Jobs
             /\ errands' \subseteq Errand /\ revoked' \in [Jobs -> SUBSET Nat]
  <2>1. job[j] \in JobRow
    BY <1>1 DEF TypeOK
  <2>2. job' \in [Jobs -> JobRow]
    BY <1>1, <1>2, <2>1 DEF TypeOK, Commit, JobRow
  <2>3. outcomes' \in [Jobs -> Seq(Outcome)]
    BY <1>2, RecordType DEF Commit
  <2>4. Append(reviews[j], [status |-> "PENDING", own |-> TRUE, asked |-> FALSE]) \in Seq(Review)
    BY <1>1 DEF TypeOK, Review
  <2>5. reviews' \in [Jobs -> Seq(Review)]
    BY <1>1, <1>2, <2>4 DEF TypeOK, Commit
  <2>6. QED
    BY <1>2, <2>2, <2>3, <2>5 DEF TypeOK, Commit, gitVars
<1>3. ASSUME MoveTo(w, catch)
      PROVE  work' \in [Workers -> Claim \cup {NoClaim}]
  BY <1>3, MoveType
<1>4. CASE Holds(w) /\ Commit(w, next) /\ work' = [work EXCEPT ![w] = NoClaim]
           /\ UNCHANGED bounds
  BY <1>2, <1>4 DEF TypeOK, bounds
<1>5. CASE Holds(w) /\ Commit(w, next) /\ MoveTo(w, catch) /\ Spend("lost")
  BY <1>2, <1>3, <1>5, BoundType DEF TypeOK, BoundOK
<1>6. CASE /\ MoveTo(w, catch)
           /\ UNCHANGED <<job, outcomes, reviews, gitVars, errands, revoked, bounds>>
  BY <1>3, <1>6 DEF TypeOK, gitVars, bounds
<1>7. QED
  BY <1>4, <1>5, <1>6 DEF transitionClaimedIngestJob

\* Every step of a worker on a stage keeps the types.
LEMMA StageType ==
  ASSUME TypeOK, NEW w \in Workers, StageStep(w)
  PROVE  TypeOK'
<1> DEFINE j == work[w].job
<1>1. CASE processStage(w)
  <2>1. work[w].at # "idle" /\ "failing" \in Phases
    BY <1>1 DEF processStage, Phases
  <2>2. PICK stage \in Stages : transitionClaimedIngestJob(w, stage[2], "failing")
    BY <1>1 DEF processStage
  <2>3. stage[2] \in States
    BY StageStates
  <2>4. QED
    BY <2>1, <2>2, <2>3, TransitionType
<1>2. CASE stageThrows(w)
  <2>1. work[w].at # "idle" /\ \E at \in Phases : MoveTo(w, at)
    BY <1>2 DEF stageThrows, Phases
  <2>2. work' \in [Workers -> Claim \cup {NoClaim}]
    BY <2>1, MoveType
  <2>3. QED
    BY <1>2, <2>2 DEF TypeOK, stageThrows, gitVars, bounds
<1>3. CASE assertClaimedIngestJob(w)
  <2>1. work[w].at # "idle" /\ \E at \in Phases : MoveTo(w, at)
    BY <1>3 DEF assertClaimedIngestJob, Phases
  <2>2. work' \in [Workers -> Claim \cup {NoClaim}]
    BY <2>1, MoveType
  <2>3. QED
    BY <1>3, <2>2 DEF TypeOK, assertClaimedIngestJob, gitVars, bounds
<1>4. CASE createDraftBranch(w)
  <2>1. work[w].at # "idle" /\ \E at \in Phases : MoveTo(w, at)
    BY <1>4 DEF createDraftBranch, Phases
  <2>2. work' \in [Workers -> Claim \cup {NoClaim}]
    BY <2>1, MoveType
  <2>3. j \in Jobs
    BY <2>1, BusyClaim
  <2>4. QED
    BY <1>4, <2>2, <2>3 DEF TypeOK, createDraftBranch, bounds
<1>5. CASE commitDraft(w)
  <2>1. work[w].at # "idle" /\ "cleaning" \in Phases /\ "DRAFTED" \in States
    BY <1>5, StageStates DEF commitDraft, Phases, Stages
  <2>2. QED
    BY <1>5, <2>1, TransitionType DEF commitDraft
<1>6. CASE cleanupDraft(w)
  <2>1. work[w].at # "idle" /\ \E at \in Phases : MoveTo(w, at)
    BY <1>6 DEF cleanupDraft, Phases
  <2>2. work' \in [Workers -> Claim \cup {NoClaim}]
    BY <2>1, MoveType
  <2>3. QED
    BY <1>6, <2>2 DEF TypeOK, cleanupDraft, gitVars, bounds
<1>7. CASE handleFailure(w)
  <2> DEFINE attempts == work[w].attempts + 1
             state == IF attempts >= MaxAttempts THEN "FAILED" ELSE job[j].state
  <2>1. work[w].at # "idle"
    BY <1>7 DEF handleFailure
  <2>2. work[w] \in Claim /\ j \in Jobs
    BY <2>1, BusyClaim
  <2>3. attempts \in Nat
    BY <2>2 DEF Claim
  <2>4. job[j] \in JobRow
    BY <2>2 DEF TypeOK
  <2>5. state \in States
    BY <2>4 DEF JobRow, States
  <2>6. job' \in [Jobs -> JobRow] /\ outcomes' \in [Jobs -> Seq(Outcome)]
    <3>1. CASE OwnsLease(w)
      <4>0. Record(w, "failed")
        BY <1>7, <3>1, Zenon DEF handleFailure
      <4>1. outcomes' \in [Jobs -> Seq(Outcome)]
        BY <2>1, <4>0, RecordType
      <4>2. job' = [job EXCEPT ![j].state = state, ![j].attempts = attempts, ![j].due = FALSE,
                               ![j].owner = NoWorker, ![j].lapsed = FALSE]
        BY <1>7, <3>1 DEF handleFailure
      <4> HIDE DEF attempts, state
      <4>3. job' \in [Jobs -> JobRow]
        BY <2>2, <2>3, <2>4, <2>5, <4>2 DEF TypeOK, JobRow
      <4>4. QED
        BY <4>1, <4>3, SMTT(30)
    <3>2. CASE ~OwnsLease(w)
      BY <1>7, <3>2 DEF handleFailure, TypeOK
    <3>3. QED
      BY <3>1, <3>2
  <2>7. work' = [work EXCEPT ![w] = NoClaim] /\ UNCHANGED <<reviews, gitVars, errands, revoked, bounds>>
    BY <1>7, Zenon DEF handleFailure
  <2>8. QED
    BY <2>6, <2>7 DEF TypeOK, gitVars, bounds
<1>8. QED
  BY <1>1, <1>2, <1>3, <1>4, <1>5, <1>6, <1>7 DEF StageStep

\* Claims, heartbeats and crashes keep the types.
LEMMA WorkerType ==
  ASSUME TypeOK, NEW w \in Workers
  PROVE  /\ \A j \in Jobs : claimNextIngestJob(w, j) => TypeOK'
         /\ heartbeat(w) => TypeOK'
         /\ Crash(w) => TypeOK'
<1>1. ASSUME NEW j \in Jobs, claimNextIngestJob(w, j)
      PROVE  TypeOK'
  <2> DEFINE version == job[j].version + 1
             claim == [at |-> "claimed", job |-> j, state |-> job[j].state,
                       version |-> version, attempts |-> job[j].attempts]
  <2>1. job[j] \in JobRow
    BY DEF TypeOK
  <2>2. version \in Nat
    BY <2>1 DEF JobRow
  <2>3. claim \in Claim
    BY <1>1, <2>1, <2>2 DEF Claim, JobRow, Phases, claimNextIngestJob, Claimable
  <2>4. job' = [job EXCEPT ![j].owner = w, ![j].lapsed = FALSE, ![j].version = version]
    BY <1>1 DEF claimNextIngestJob
  <2>5. work' = [work EXCEPT ![w] = claim]
    BY <1>1 DEF claimNextIngestJob
  <2>6. revoked' \in [Jobs -> SUBSET Nat]
    BY <1>1, RevokeType DEF claimNextIngestJob
  <2> HIDE DEF version, claim
  <2>7. job' \in [Jobs -> JobRow]
    BY <2>1, <2>2, <2>4 DEF TypeOK, JobRow
  <2>8. work' \in [Workers -> Claim \cup {NoClaim}]
    BY <2>3, <2>5 DEF TypeOK
  <2>9. QED
    BY <1>1, <2>6, <2>7, <2>8 DEF TypeOK, claimNextIngestJob, gitVars, bounds
<1>2. ASSUME heartbeat(w)
      PROVE  TypeOK'
  <2> DEFINE j == work[w].job
  <2>1. j \in Jobs
    BY <1>2, BusyClaim DEF heartbeat
  <2>2. job[j] \in JobRow /\ job' = [job EXCEPT ![j].lapsed = FALSE]
    BY <1>2, <2>1 DEF TypeOK, heartbeat
  <2>3. job' \in [Jobs -> JobRow]
    BY <2>1, <2>2 DEF TypeOK, JobRow
  <2>4. QED
    BY <1>2, <2>3 DEF TypeOK, heartbeat, gitVars, bounds
<1>3. ASSUME Crash(w)
      PROVE  TypeOK'
  BY <1>3, BoundType DEF TypeOK, Crash, gitVars, BoundOK
<1>4. QED
  BY <1>1, <1>2, <1>3

\* The row of one job is replaced by another row.
LEMMA RowType ==
  ASSUME TypeOK, NEW j \in Jobs
  PROVE  /\ job[j] \in JobRow
         /\ \A state \in States : [job EXCEPT ![j].state = state] \in [Jobs -> JobRow]
         /\ \A b \in BOOLEAN : /\ [job EXCEPT ![j].lapsed = b] \in [Jobs -> JobRow]
                               /\ [job EXCEPT ![j].due = b] \in [Jobs -> JobRow]
BY ZenonT(60) DEF TypeOK, JobRow

\* Operators and the clock keep the types.
LEMMA OperatorType ==
  ASSUME TypeOK, NEW j \in Jobs
  PROVE  /\ cancel(j) => TypeOK'
         /\ retry(j) => TypeOK'
         /\ LeaseLapses(j) => TypeOK'
         /\ BackoffElapses(j) => TypeOK'
<1>1. job[j] \in JobRow
  BY RowType
<1>2. ASSUME cancel(j)
      PROVE  TypeOK'
  <2>1. job' \in [Jobs -> JobRow]
    BY <1>1, <1>2 DEF TypeOK, cancel, JobRow, States
  <2>2. revoked' \in [Jobs -> SUBSET Nat]
    BY <1>2, RevokeType DEF cancel
  <2>3. QED
    BY <1>2, <2>1, <2>2 DEF TypeOK, cancel, gitVars, bounds
<1>3. ASSUME retry(j)
      PROVE  TypeOK'
  <2>1. "RECEIVED" \in States
    BY StageStates DEF Stages
  <2>2. job' \in [Jobs -> JobRow]
    BY <1>1, <1>3, <2>1 DEF TypeOK, retry, JobRow
  <2>3. revoked' \in [Jobs -> SUBSET Nat]
    BY <1>3, RevokeType DEF retry
  <2>4. QED
    BY <1>3, <2>2, <2>3, BoundType DEF TypeOK, retry, gitVars, BoundOK
<1>4. ASSUME LeaseLapses(j)
      PROVE  TypeOK'
  <2>1. job' \in [Jobs -> JobRow]
    BY <1>4, RowType DEF LeaseLapses
  <2>2. BoundOK'
    BY <1>4, BoundType DEF TypeOK, LeaseLapses, bounds, BoundOK
  <2>3. QED
    BY <1>4, <2>1, <2>2 DEF TypeOK, LeaseLapses, gitVars, BoundOK
<1>5. ASSUME BackoffElapses(j)
      PROVE  TypeOK'
  <2>1. job' \in [Jobs -> JobRow]
    BY <1>5, RowType DEF BackoffElapses
  <2>2. QED
    BY <1>5, <2>1 DEF TypeOK, BackoffElapses, gitVars, bounds
<1>6. QED
  BY <1>2, <1>3, <1>4, <1>5

\* A review of a job is replaced by another review, and errands are errands.
LEMMA ReviewType ==
  ASSUME TypeOK, NEW j \in Jobs, NEW i \in DOMAIN reviews[j]
  PROVE  /\ reviews[j][i] \in Review
         /\ \A status \in {"PENDING", "CHANGES_REQUESTED", "REJECTED", "APPROVED"} :
              [reviews EXCEPT ![j][i].status = status] \in [Jobs -> Seq(Review)]
         /\ [reviews EXCEPT ![j][i].own = FALSE] \in [Jobs -> Seq(Review)]
         /\ CleanUp(j) \in Errand
         /\ \A state \in {"CANCELLED", "DRAFTED"}, b \in BOOLEAN :
              [job |-> j, state |-> state, cleanup |-> b] \in Errand
<1>1. reviews[j] \in Seq(Review)
  BY DEF TypeOK
<1>2. reviews[j][i] \in Review
  BY <1>1
<1>3. ASSUME NEW new \in Review
      PROVE  [reviews EXCEPT ![j] = [reviews[j] EXCEPT ![i] = new]] \in [Jobs -> Seq(Review)]
  <2>1. [reviews[j] EXCEPT ![i] = new] \in Seq(Review)
    BY <1>1
  <2>2. QED
    BY <2>1 DEF TypeOK
<1>4. ASSUME NEW status \in {"PENDING", "CHANGES_REQUESTED", "REJECTED", "APPROVED"}
      PROVE  [reviews EXCEPT ![j][i].status = status] \in [Jobs -> Seq(Review)]
  <2>1. [reviews[j][i] EXCEPT !.status = status] \in Review
    BY <1>2 DEF Review
  <2>2. QED
    BY <1>3, <2>1
<1>5. [reviews EXCEPT ![j][i].own = FALSE] \in [Jobs -> Seq(Review)]
  <2>1. [reviews[j][i] EXCEPT !.own = FALSE] \in Review
    BY <1>2 DEF Review
  <2>2. QED
    BY <1>3, <2>1
<1>6. QED
  BY <1>2, <1>4, <1>5 DEF CleanUp, Errand

\* A decision keeps the reviews typed.
LEMMA DecideType ==
  ASSUME TypeOK, NEW j \in Jobs, NEW i \in DOMAIN reviews[j],
         NEW status \in {"PENDING", "CHANGES_REQUESTED", "REJECTED", "APPROVED"},
         Decide(j, i, status)
  PROVE  reviews' \in [Jobs -> Seq(Review)]
<1> DEFINE new == [reviews[j][i] EXCEPT !.status = status,
                                       !.asked = @ \/ status = "CHANGES_REQUESTED"]
<1>1. reviews[j] \in Seq(Review) /\ reviews[j][i] \in Review
  BY DEF TypeOK
<1>2. new \in Review
  BY <1>1 DEF Review
<1>3. [reviews[j] EXCEPT ![i] = new] \in Seq(Review)
  BY <1>1, <1>2
<1>4. reviews' = [reviews EXCEPT ![j] = [reviews[j] EXCEPT ![i] = new]]
  BY DEF Decide
<1>5. QED
  BY <1>3, <1>4 DEF TypeOK

\* Decisions and revisions keep the types.
LEMMA ReviewStepType ==
  ASSUME TypeOK, NEW j \in Jobs, ReviewStep(j)
  PROVE  TypeOK'
<1>1. PICK i \in DOMAIN reviews[j] :
        \/ requestChanges(j, i) \/ reject(j, i) \/ finalizePublication(j, i)
        \/ compensatePublication(j, i) \/ revise(j, i) \/ submit(j, i)
  BY DEF ReviewStep
<1>2. reviews[j][i].own \in BOOLEAN
  BY ReviewType DEF Review
<1>3. CASE requestChanges(j, i)
  <2>1. reviews' \in [Jobs -> Seq(Review)]
    BY <1>3, DecideType DEF requestChanges
  <2>2. BoundOK'
    BY <1>3, BoundType DEF requestChanges
  <2>3. [job |-> j, state |-> "DRAFTED", cleanup |-> FALSE] \in Errand
    BY ReviewType
  <2>4. errands' \subseteq Errand
    BY <1>3, <2>3 DEF requestChanges, TypeOK
  <2>5. QED
    BY <1>3, <2>1, <2>2, <2>4 DEF TypeOK, requestChanges, gitVars, BoundOK
<1>4. CASE reject(j, i)
  <2>1. reviews' \in [Jobs -> Seq(Review)]
    BY <1>4, DecideType DEF reject
  <2>2. [job |-> j, state |-> "CANCELLED", cleanup |-> reviews[j][i].own] \in Errand
    BY <1>2, ReviewType
  <2>3. QED
    BY <1>4, <2>1, <2>2 DEF TypeOK, reject, gitVars, bounds
<1>5. CASE finalizePublication(j, i)
  <2>1. job' \in [Jobs -> JobRow]
    BY <1>5, RowType DEF finalizePublication, States
  <2>2. reviews' \in [Jobs -> Seq(Review)]
    BY <1>5, ReviewType DEF finalizePublication
  <2>3. errands' \subseteq Errand
    BY <1>5, ReviewType DEF finalizePublication, TypeOK
  <2>4. QED
    BY <1>5, <2>1, <2>2, <2>3 DEF TypeOK, finalizePublication, gitVars, bounds
<1>6. CASE compensatePublication(j, i)
  BY <1>6, ReviewType DEF TypeOK, compensatePublication, gitVars, bounds
<1>7. CASE revise(j, i)
  BY <1>7, ReviewType DEF TypeOK, revise, gitVars, bounds
<1>8. CASE submit(j, i)
  BY <1>8, ReviewType DEF TypeOK, submit, gitVars, bounds
<1>9. QED
  BY <1>1, <1>3, <1>4, <1>5, <1>6, <1>7, <1>8

\* What a request still has to do keeps the types.
LEMMA ErrandType ==
  ASSUME TypeOK, NEW errand \in errands
  PROVE  /\ writeDecision(errand) => TypeOK'
         /\ cleanupReviewed(errand) => TypeOK'
         /\ RequestDies(errand) => TypeOK'
<1>1. errand \in Errand /\ errand.job \in Jobs
  BY DEF TypeOK, Errand
<1>2. ASSUME writeDecision(errand)
      PROVE  TypeOK'
  <2>1. errand.state \in States
    BY <1>1, <1>2, StageStates DEF writeDecision, Errand, States, Stages
  <2>2. job' \in [Jobs -> JobRow]
    BY <1>1, <1>2, <2>1, RowType DEF writeDecision
  <2>3. CleanUp(errand.job) \in Errand
    BY <1>1 DEF CleanUp, Errand
  <2>4. errands' \subseteq Errand
    BY <1>2, <2>3 DEF writeDecision, TypeOK
  <2>5. QED
    BY <1>2, <2>2, <2>4 DEF TypeOK, writeDecision, gitVars, bounds
<1>3. ASSUME cleanupReviewed(errand)
      PROVE  TypeOK'
  BY <1>3 DEF TypeOK, cleanupReviewed, gitVars, bounds
<1>4. ASSUME RequestDies(errand)
      PROVE  TypeOK'
  BY <1>4, BoundType DEF TypeOK, RequestDies, gitVars, BoundOK
<1>5. QED
  BY <1>2, <1>3, <1>4

\* The states of ingest jobs, of their claims, reviews and requests have their
\* types: no statement writes a row that another cannot read.
THEOREM TypeCorrect == Spec => []TypeOK
<1>1. Init => TypeOK
  <2>1. "RECEIVED" \in States
    BY StageStates DEF Stages
  <2>2. QED
    BY <2>1, BoundAssumption DEF Init, TypeOK, JobRow, NoClaim
<1>2. TypeOK /\ [Next]_vars => TypeOK'
  <2> SUFFICES ASSUME TypeOK, [Next]_vars
               PROVE  TypeOK'
    OBVIOUS
  <2>1. CASE UNCHANGED vars
    BY <2>1 DEF TypeOK, vars, gitVars, bounds
  <2>2. CASE \E w \in Workers : StageStep(w) \/ heartbeat(w) \/ Crash(w)
    BY <2>2, StageType, WorkerType
  <2>3. CASE \E w \in Workers, j \in Jobs : claimNextIngestJob(w, j)
    BY <2>3, WorkerType
  <2>4. CASE \E j \in Jobs : \/ cancel(j) \/ retry(j) \/ ReviewStep(j)
                            \/ LeaseLapses(j) \/ BackoffElapses(j)
    BY <2>4, OperatorType, ReviewStepType
  <2>5. CASE \E errand \in errands :
               writeDecision(errand) \/ cleanupReviewed(errand) \/ RequestDies(errand)
    BY <2>5, ErrandType
  <2>6. QED
    BY <2>1, <2>2, <2>3, <2>4, <2>5 DEF Next
<1>3. QED
  BY <1>1, <1>2, PTL DEF Spec

-----------------------------------------------------------------------------
(* A claim has one outcome at most.  The version a claim writes is new, so    *)
(* what must be invariant is that a held row's version has no outcome yet and *)
(* was not revoked, and that nothing recorded is younger than the row.        *)

\* The journal of j agrees with the row of j.
Fenced(j) ==
  /\ \A n \in DOMAIN outcomes[j] :
       outcomes[j][n].version <= job[j].version /\ outcomes[j][n].version \notin revoked[j]
  /\ \A m, n \in DOMAIN outcomes[j] :
       m < n => outcomes[j][m].version < outcomes[j][n].version
  /\ \A v \in revoked[j] : v <= job[j].version
  /\ job[j].owner # NoWorker =>
       /\ job[j].version \notin revoked[j]
       /\ \A n \in DOMAIN outcomes[j] : outcomes[j][n].version < job[j].version

\* What a step may do to the row, the journal and the history of a job.
LeavesAlone(j) ==
  /\ job'[j].owner = job[j].owner /\ job'[j].version = job[j].version
  /\ outcomes'[j] = outcomes[j] /\ revoked'[j] = revoked[j]
TakesAway(j) ==
  /\ outcomes'[j] = outcomes[j]
  /\ revoked'[j] = IF job[j].owner = NoWorker THEN revoked[j]
                   ELSE revoked[j] \cup {job[j].version}
ClaimedAnew(j) == TakesAway(j) /\ job'[j].version = job[j].version + 1
Released(j) == TakesAway(j) /\ job'[j].version = job[j].version /\ job'[j].owner = NoWorker
Settled(j) ==
  /\ job[j].owner # NoWorker /\ job'[j].owner = NoWorker
  /\ job'[j].version = job[j].version /\ revoked'[j] = revoked[j]
  /\ \E kind \in {"moved", "failed"} :
       outcomes'[j] = Append(outcomes[j], [version |-> job[j].version, kind |-> kind])
Effect(j) == LeavesAlone(j) \/ ClaimedAnew(j) \/ Released(j) \/ Settled(j)

\* None of these lets the journal and the row disagree.
LEMMA EffectKeepsFence ==
  ASSUME TypeOK, NEW j \in Jobs, Fenced(j), Effect(j)
  PROVE  Fenced(j)'
<1>1. /\ outcomes[j] \in Seq(Outcome) /\ job[j].version \in Nat /\ revoked[j] \subseteq Nat
      /\ \A n \in DOMAIN outcomes[j] : outcomes[j][n].version \in Nat
  <2>1. outcomes[j] \in Seq(Outcome) /\ job[j] \in JobRow /\ revoked[j] \subseteq Nat
    BY DEF TypeOK
  <2>2. \A n \in DOMAIN outcomes[j] : outcomes[j][n] \in Outcome
    BY <2>1
  <2>3. \A o \in Outcome : o.version \in Nat
    BY DEF Outcome
  <2>4. job[j].version \in Nat
    BY <2>1 DEF JobRow
  <2>5. QED
    BY <2>1, <2>2, <2>3, <2>4
<1>2. CASE LeavesAlone(j)
  BY <1>2 DEF Fenced, LeavesAlone
<1>3. CASE ClaimedAnew(j)
  BY <1>1, <1>3, SMTT(30) DEF Fenced, ClaimedAnew, TakesAway
<1>4. CASE Released(j)
  BY <1>1, <1>4 DEF Fenced, Released, TakesAway
<1>5. CASE Settled(j)
  <2>1. PICK kind \in {"moved", "failed"} :
          outcomes'[j] = Append(outcomes[j], [version |-> job[j].version, kind |-> kind])
    BY <1>5 DEF Settled
  <2> DEFINE last == Len(outcomes[j]) + 1
  <2>2. /\ DOMAIN outcomes[j] = 1..Len(outcomes[j]) /\ Len(outcomes[j]) \in Nat
        /\ DOMAIN outcomes'[j] = 1..last
        /\ \A n \in DOMAIN outcomes[j] : outcomes'[j][n] = outcomes[j][n]
        /\ outcomes'[j][last].version = job[j].version
    BY <1>1, <2>1 DEF Outcome
  <2>3. \A n \in DOMAIN outcomes'[j] : n \in DOMAIN outcomes[j] \/ n = last
    BY <2>2
  <2>4. /\ job[j].version \notin revoked[j]
        /\ \A n \in DOMAIN outcomes[j] : outcomes[j][n].version < job[j].version
        /\ job'[j].version = job[j].version /\ revoked'[j] = revoked[j]
        /\ job'[j].owner = NoWorker
    BY <1>5 DEF Settled, Fenced
  <2>5. \A n \in DOMAIN outcomes'[j] :
          /\ outcomes'[j][n].version <= job'[j].version
          /\ outcomes'[j][n].version \notin revoked'[j]
    BY <1>1, <2>2, <2>3, <2>4, SMTT(30) DEF Fenced
  <2>6. ASSUME NEW m \in DOMAIN outcomes'[j], NEW n \in DOMAIN outcomes'[j], m < n
        PROVE  outcomes'[j][m].version < outcomes'[j][n].version
    <3>1. m \in DOMAIN outcomes[j]
      BY <2>2, <2>3, <2>6
    <3>2. CASE n \in DOMAIN outcomes[j]
      BY <2>2, <2>6, <3>1, <3>2 DEF Fenced
    <3>3. CASE n = last
      BY <2>2, <2>4, <3>1, <3>3
    <3>4. QED
      BY <2>3, <3>2, <3>3
  <2>7. QED
    BY <2>4, <2>5, <2>6 DEF Fenced
<1>6. QED
  BY <1>2, <1>3, <1>4, <1>5 DEF Effect

\* A worker that owns its lease is the owner in the row, of the version it holds.
LEMMA OwnerHolds ==
  ASSUME TypeOK, NEW w \in Workers, OwnsLease(w)
  PROVE  /\ job[work[w].job].owner # NoWorker
         /\ job[work[w].job].version = work[w].version
BY WorkerAssumption DEF OwnsLease

\* Revoke takes the claim of its job away, if there is one, and no other.
LEMMA RevokeEffect ==
  ASSUME TypeOK, NEW j \in Jobs, Revoke(j), UNCHANGED outcomes
  PROVE  TakesAway(j) /\ \A k \in Jobs \ {j} : revoked'[k] = revoked[k]
BY DEF TypeOK, Revoke, TakesAway

\* A commit settles the claim of its worker and leaves other jobs alone.
LEMMA CommitEffect ==
  ASSUME TypeOK, NEW w \in Workers, work[w].at # "idle", NEW next,
         OwnsLease(w), Commit(w, next), NEW k \in Jobs
  PROVE  Effect(k)
<1> DEFINE j == work[w].job
<1>1. j \in Jobs /\ job \in [Jobs -> JobRow] /\ outcomes \in [Jobs -> Seq(Outcome)]
  BY BusyClaim DEF TypeOK
<1>2. revoked' = revoked
  BY DEF Commit
<1>3. outcomes'[j] = Append(outcomes[j], [version |-> job[j].version, kind |-> "moved"])
  BY <1>1, OwnerHolds DEF Commit, Record
<1>4. job'[j].owner = NoWorker /\ job'[j].version = job[j].version
  BY <1>1 DEF Commit, JobRow
<1>5. Settled(j)
  BY <1>2, <1>3, <1>4, OwnerHolds, SMTT(30) DEF Settled
<1>6. CASE k # j
  BY <1>1, <1>2, <1>6 DEF Commit, Record, Effect, LeavesAlone
<1>7. QED
  BY <1>5, <1>6 DEF Effect

\* So do the transition and every other step of a stage.
LEMMA StageEffect ==
  ASSUME TypeOK, NEW w \in Workers, StageStep(w), NEW k \in Jobs
  PROVE  Effect(k)
<1> DEFINE j == work[w].job
<1>1. ASSUME NEW next, NEW catch, work[w].at # "idle",
             transitionClaimedIngestJob(w, next, catch)
      PROVE  Effect(k)
  <2>1. CASE OwnsLease(w) /\ Commit(w, next)
    BY <1>1, <2>1, CommitEffect
  <2>2. CASE UNCHANGED <<job, outcomes, revoked>>
    BY <2>2 DEF Effect, LeavesAlone
  <2>3. QED
    BY <1>1, <2>1, <2>2 DEF transitionClaimedIngestJob, Holds
<1>2. CASE processStage(w)
  <2>1. \E stage \in Stages : transitionClaimedIngestJob(w, stage[2], "failing")
    BY <1>2 DEF processStage
  <2>2. work[w].at # "idle"
    BY <1>2 DEF processStage
  <2>3. QED
    BY <1>1, <2>1, <2>2
<1>3. CASE commitDraft(w)
  <2>1. transitionClaimedIngestJob(w, "DRAFTED", "cleaning") /\ work[w].at # "idle"
    BY <1>3 DEF commitDraft
  <2>2. QED
    BY <1>1, <2>1
<1>4. CASE handleFailure(w)
  <2>1. work[w].at # "idle"
    BY <1>4 DEF handleFailure
  <2>2. j \in Jobs /\ job \in [Jobs -> JobRow] /\ outcomes \in [Jobs -> Seq(Outcome)]
    BY <2>1, BusyClaim, SMTT(30) DEF TypeOK
  <2>3. revoked' = revoked
    BY <1>4 DEF handleFailure
  <2>4. CASE ~OwnsLease(w)
    BY <1>4, <2>3, <2>4 DEF handleFailure, Effect, LeavesAlone
  <2>5. CASE OwnsLease(w)
    <3> DEFINE attempts == work[w].attempts + 1
               state == IF attempts >= MaxAttempts THEN "FAILED" ELSE job[j].state
    <3>1. job' = [job EXCEPT ![j].state = state, ![j].attempts = attempts, ![j].due = FALSE,
                             ![j].owner = NoWorker, ![j].lapsed = FALSE]
      BY <1>4, <2>5, Zenon DEF handleFailure
    <3> HIDE DEF attempts, state
    <3>2. job'[j].owner = NoWorker /\ job'[j].version = job[j].version
      <4>1. job[j] \in JobRow /\ DOMAIN job = Jobs
        BY <2>2
      <4>2. job'[j] = [job[j] EXCEPT !.state = state, !.attempts = attempts, !.due = FALSE,
                                     !.owner = NoWorker, !.lapsed = FALSE]
        BY <2>2, <3>1, <4>1, Zenon
      <4>3. QED
        BY <4>1, <4>2 DEF JobRow
    <3>3. Record(w, "failed")
      BY <1>4, <2>5 DEF handleFailure
    <3>4. outcomes'[j] = Append(outcomes[j], [version |-> job[j].version, kind |-> "failed"])
      BY <2>2, <2>5, <3>3, OwnerHolds DEF Record
    <3>5. Settled(j)
      BY <2>3, <2>5, <3>2, <3>4, OwnerHolds, SMTT(30) DEF Settled
    <3>6. CASE k # j
      BY <2>2, <2>3, <3>1, <3>3, <3>6 DEF Record, Effect, LeavesAlone
    <3>7. QED
      BY <3>5, <3>6, SMTT(30) DEF Effect
  <2>6. QED
    BY <2>4, <2>5, SMTT(30)
<1>5. CASE stageThrows(w) \/ assertClaimedIngestJob(w) \/ createDraftBranch(w) \/ cleanupDraft(w)
  BY <1>5 DEF stageThrows, assertClaimedIngestJob, createDraftBranch, cleanupDraft,
              Effect, LeavesAlone
<1>6. QED
  BY <1>2, <1>3, <1>4, <1>5 DEF StageStep

\* A claim is new, and takes the one before it away; heartbeats and crashes
\* leave every job alone.
LEMMA WorkerEffect ==
  ASSUME TypeOK, NEW w \in Workers, NEW k \in Jobs
  PROVE  /\ \A j \in Jobs : claimNextIngestJob(w, j) => Effect(k)
         /\ heartbeat(w) => Effect(k)
         /\ Crash(w) => Effect(k)
<1>1. job \in [Jobs -> JobRow]
  BY DEF TypeOK
<1>2. ASSUME NEW j \in Jobs, claimNextIngestJob(w, j)
      PROVE  Effect(k)
  <2> DEFINE version == job[j].version + 1
  <2>1. job' = [job EXCEPT ![j].owner = w, ![j].lapsed = FALSE, ![j].version = version]
    BY <1>2 DEF claimNextIngestJob
  <2>2. TakesAway(j) /\ \A i \in Jobs \ {j} : revoked'[i] = revoked[i]
    BY <1>2, RevokeEffect DEF claimNextIngestJob
  <2>3. ClaimedAnew(j)
    <3>1. job'[j].version = version
      <4> HIDE DEF version
      <4>1. QED
        BY <1>1, <2>1 DEF JobRow
    <3>2. QED
      BY <2>2, <3>1 DEF ClaimedAnew
  <2>4. CASE k # j
    BY <1>1, <1>2, <2>1, <2>2, <2>4 DEF claimNextIngestJob, Effect, LeavesAlone
  <2>5. QED
    BY <2>3, <2>4 DEF Effect
<1>3. ASSUME heartbeat(w)
      PROVE  Effect(k)
  <2>1. work[w].job \in Jobs
    BY <1>3, BusyClaim DEF heartbeat
  <2>2. job'[k].owner = job[k].owner /\ job'[k].version = job[k].version
    BY <1>1, <1>3, <2>1 DEF heartbeat, JobRow
  <2>3. QED
    BY <1>3, <2>2 DEF heartbeat, Effect, LeavesAlone
<1>4. ASSUME Crash(w)
      PROVE  Effect(k)
  BY <1>4 DEF Crash, Effect, LeavesAlone
<1>5. QED
  BY <1>2, <1>3, <1>4

\* Operators release the claim they take away; the clock, reviewers and their
\* requests write neither lease nor version.
LEMMA OtherEffect ==
  ASSUME TypeOK, NEW k \in Jobs
  PROVE  /\ \A j \in Jobs : cancel(j) \/ retry(j) => Effect(k)
         /\ \A j \in Jobs : LeaseLapses(j) \/ BackoffElapses(j) \/ ReviewStep(j) => Effect(k)
         /\ \A errand \in errands :
              writeDecision(errand) \/ cleanupReviewed(errand) \/ RequestDies(errand)
                => Effect(k)
<1>1. job \in [Jobs -> JobRow]
  BY DEF TypeOK
<1>2. ASSUME NEW j \in Jobs, cancel(j) \/ retry(j)
      PROVE  Effect(k)
  <2>1. /\ job'[j].owner = NoWorker /\ job'[j].version = job[j].version
        /\ \A i \in Jobs \ {j} : job'[i] = job[i]
    <3>1. CASE cancel(j)
      BY <1>1, <3>1 DEF cancel, JobRow
    <3>2. CASE retry(j)
      BY <1>1, <3>2 DEF retry, JobRow
    <3>3. QED
      BY <1>2, <3>1, <3>2
  <2>2. Revoke(j) /\ UNCHANGED outcomes
    BY <1>2 DEF cancel, retry
  <2>3. TakesAway(j) /\ \A i \in Jobs \ {j} : revoked'[i] = revoked[i]
    BY <2>2, RevokeEffect
  <2>4. Released(j)
    BY <2>1, <2>3 DEF Released
  <2>5. CASE k # j
    BY <2>1, <2>2, <2>3, <2>5 DEF Effect, LeavesAlone
  <2>6. QED
    BY <2>4, <2>5 DEF Effect
<1>3. ASSUME UNCHANGED <<outcomes, revoked>>,
             job'[k].owner = job[k].owner, job'[k].version = job[k].version
      PROVE  Effect(k)
  BY <1>3 DEF Effect, LeavesAlone
<1>4. ASSUME NEW j \in Jobs, LeaseLapses(j) \/ BackoffElapses(j) \/ ReviewStep(j)
      PROVE  Effect(k)
  <2>1. CASE LeaseLapses(j)
    BY <1>1, <1>3, <2>1 DEF LeaseLapses, JobRow
  <2>2. CASE BackoffElapses(j)
    BY <1>1, <1>3, <2>2 DEF BackoffElapses, JobRow
  <2>3. CASE ReviewStep(j)
    BY <1>1, <1>3, <2>3 DEF ReviewStep, requestChanges, reject, finalizePublication,
                            compensatePublication, revise, submit, JobRow
  <2>4. QED
    BY <1>4, <2>1, <2>2, <2>3
<1>5. ASSUME NEW errand \in errands,
             writeDecision(errand) \/ cleanupReviewed(errand) \/ RequestDies(errand)
      PROVE  Effect(k)
  <2>1. errand.job \in Jobs
    BY DEF TypeOK, Errand
  <2>2. QED
    BY <1>1, <1>3, <1>5, <2>1 DEF writeDecision, cleanupReviewed, RequestDies, JobRow
<1>6. QED
  BY <1>2, <1>4, <1>5

\* Whatever stalls, crashes, is cancelled, retried or claimed again, a claim is
\* settled once at most, and not after it was taken away.
THEOREM FencedOutcomes == Spec => []OneOutcomePerClaim
<1> DEFINE Fencing == \A j \in Jobs : Fenced(j)
<1>1. Init => Fencing
  <2> SUFFICES ASSUME Init, NEW j \in Jobs
               PROVE  Fenced(j)
    OBVIOUS
  <2>1. /\ job[j].owner = NoWorker /\ job[j].version = 0
        /\ outcomes[j] = <<>> /\ revoked[j] = {}
    BY DEF Init
  <2>2. DOMAIN outcomes[j] = {}
    BY <2>1
  <2>3. QED
    BY <2>1, <2>2 DEF Fenced
<1>2. TypeOK /\ Fencing /\ [Next]_vars => Fencing'
  <2> SUFFICES ASSUME TypeOK, Fencing, [Next]_vars, NEW k \in Jobs
               PROVE  Fenced(k)'
    OBVIOUS
  <2>1. CASE UNCHANGED vars
    BY <2>1 DEF vars, Effect, LeavesAlone, Fenced
  <2>2. CASE \E w \in Workers : StageStep(w) \/ heartbeat(w) \/ Crash(w)
    BY <2>2, StageEffect, WorkerEffect, EffectKeepsFence
  <2>3. CASE \E w \in Workers, j \in Jobs : claimNextIngestJob(w, j)
    BY <2>3, WorkerEffect, EffectKeepsFence
  <2>4. CASE \E j \in Jobs : \/ cancel(j) \/ retry(j) \/ ReviewStep(j)
                            \/ LeaseLapses(j) \/ BackoffElapses(j)
    BY <2>4, OtherEffect, EffectKeepsFence
  <2>5. CASE \E errand \in errands :
               writeDecision(errand) \/ cleanupReviewed(errand) \/ RequestDies(errand)
    BY <2>5, OtherEffect, EffectKeepsFence
  <2>6. QED
    BY <2>1, <2>2, <2>3, <2>4, <2>5 DEF Next
<1>3. Fencing => OneOutcomePerClaim
  BY DEF Fenced, OneOutcomePerClaim
<1>4. QED
  BY <1>1, <1>2, <1>3, TypeCorrect, PTL DEF Spec

-----------------------------------------------------------------------------
(* What one step does to rows, claims, reviews, requests and branches.        *)

Elsewhere(j) == \A k \in Jobs : k # j => job'[k] = job[k]
OthersWork(w) == \A v \in Workers : v # w => work'[v] = work[v]
Idles(w) == work'[w].at = "idle"
Continues(w, at) ==
  /\ work'[w].at = at /\ work'[w].job = work[w].job /\ work'[w].state = work[w].state
  /\ work'[w].version = work[w].version /\ work'[w].attempts = work[w].attempts
RowStays(k) ==
  /\ job'[k].state = job[k].state /\ job'[k].owner = job[k].owner
  /\ job'[k].version = job[k].version /\ job'[k].attempts = job[k].attempts
RowsStay == \A k \in Jobs : RowStays(k)

\* A worker goes on or gives up, and nobody else sees it.
TurnStep(w) ==
  /\ work[w].at # "idle"
  /\ \/ Idles(w) \/ Continues(w, "failing") \/ Continues(w, "asserted")
     \/ work[w].at \in {"drafting", "cleaning"} /\ Continues(w, "cleaning")
  /\ OthersWork(w) /\ RowsStay /\ UNCHANGED <<outcomes, reviews, errands, branch>>

\* A worker makes the draft's branch, or undoes it.
MakeStep(w) ==
  /\ work[w].at = "asserted" /\ Continues(w, "drafting") /\ OthersWork(w)
  /\ work[w].job \notin branch /\ branch' = branch \cup {work[w].job}
  /\ RowsStay /\ UNCHANGED <<outcomes, reviews, errands>>
UndoStep(w) ==
  /\ work[w].at = "cleaning" /\ Continues(w, "failing") /\ OthersWork(w)
  /\ branch' \in {branch, branch \ {work[w].job}}
  /\ RowsStay /\ UNCHANGED <<outcomes, reviews, errands>>

\* A worker that holds its claim commits a stage.
Opened == [status |-> "PENDING", own |-> TRUE, asked |-> FALSE]
CommitStep(w, j, next) ==
  /\ work[w].job = j /\ job[j].owner = w /\ job[j].version = work[w].version
  /\ job[j].state = work[w].state
  /\ \/ work[w].at = "claimed" /\ work[w].state # "PLANNED" /\ <<work[w].state, next>> \in Stages
     \/ work[w].at = "drafting" /\ next = "DRAFTED"
  /\ job'[j].state = next /\ job'[j].owner = NoWorker
  /\ job'[j].version = job[j].version /\ job'[j].attempts = job[j].attempts
  /\ Elsewhere(j)
  /\ outcomes' = [outcomes EXCEPT ![j] = Append(@, [version |-> job[j].version, kind |-> "moved"])]
  /\ reviews' = IF next = "REVIEW_REQUIRED" THEN [reviews EXCEPT ![j] = Append(@, Opened)]
                ELSE reviews
  /\ \/ Idles(w)
     \/ "lost" \in struck' /\ (Continues(w, "failing") \/ Continues(w, "cleaning"))
  /\ OthersWork(w) /\ UNCHANGED <<errands, branch>>

\* A worker that owns its lease records a failure.
FailStep(w, j) ==
  /\ work[w].at = "failing"
  /\ work[w].job = j /\ job[j].owner = w /\ job[j].version = work[w].version
  /\ job'[j].state \in {job[j].state, "FAILED"} /\ job'[j].owner = NoWorker
  /\ job'[j].version = job[j].version /\ job'[j].attempts = work[w].attempts + 1
  /\ Elsewhere(j)
  /\ outcomes' = [outcomes EXCEPT ![j] = Append(@, [version |-> job[j].version, kind |-> "failed"])]
  /\ Idles(w) /\ OthersWork(w) /\ UNCHANGED <<reviews, errands, branch>>

\* A worker claims a job.
TakeStep(w, j) ==
  /\ work[w].at = "idle" /\ job[j].state \in Working
  /\ job'[j].state = job[j].state /\ job'[j].owner = w
  /\ job'[j].version = job[j].version + 1 /\ job'[j].attempts = job[j].attempts
  /\ Elsewhere(j)
  /\ work'[w].at = "claimed" /\ work'[w].job = j /\ work'[w].attempts = job[j].attempts
  /\ OthersWork(w) /\ UNCHANGED <<outcomes, reviews, errands, branch>>

\* The clock moves, and heartbeats answer it.
ClockStep == RowsStay /\ UNCHANGED <<work, outcomes, reviews, errands, branch>>

\* An operator cancels or reopens a job.
OperateStep(j) ==
  /\ job[j].state # "COMPLETED"
  /\ \/ job'[j].state = "CANCELLED"
     \/ job'[j].state = "RECEIVED" /\ reopenings' = reopenings - 1
  /\ job'[j].owner = NoWorker
  /\ job'[j].version = job[j].version /\ job'[j].attempts = job[j].attempts
  /\ Elsewhere(j) /\ UNCHANGED <<work, outcomes, reviews, errands, branch>>

\* The review of job j at place i is replaced by another.
Rewrites(j, i, r) ==
  /\ DOMAIN reviews'[j] = DOMAIN reviews[j] /\ Len(reviews'[j]) = Len(reviews[j])
  /\ reviews'[j][i] = r
  /\ \A n \in DOMAIN reviews[j] : n # i => reviews'[j][n] = reviews[j][n]
  /\ \A k \in Jobs : k # j => reviews'[k] = reviews[k]

\* A reviewer or author moves a review; the job is written later, or at once by
\* the publication, and the review's own draft is left to a request.
ReviewMove(j, i) ==
  \E r \in Review :
    /\ reviews[j][i].status \in {"PENDING", "CHANGES_REQUESTED"}
    /\ Rewrites(j, i, r) /\ UNCHANGED <<work, outcomes, branch>>
    /\ reviews[j][i].asked => r.asked
    /\ \/ \* requestChanges
          /\ r.asked /\ r.status = "CHANGES_REQUESTED" /\ reopenings' = reopenings - 1
          /\ \E e \in Errand : /\ e.job = j /\ e.state = "DRAFTED" /\ e.cleanup = FALSE
                               /\ errands' = errands \cup {e}
          /\ RowsStay
       \/ \* reject
          /\ r.status = "REJECTED"
          /\ \E e \in Errand : /\ e.job = j /\ e.state = "CANCELLED"
                               /\ e.cleanup = reviews[j][i].own
                               /\ errands' = errands \cup {e}
          /\ RowsStay
       \/ \* finalizePublication
          /\ r.status = "APPROVED"
          /\ errands' = errands \cup IF reviews[j][i].own THEN {CleanUp(j)} ELSE {}
          /\ job'[j].state = "COMPLETED" /\ job'[j].owner = job[j].owner
          /\ job'[j].version = job[j].version /\ job'[j].attempts = job[j].attempts
          /\ Elsewhere(j)
       \/ \* compensatePublication, submit
          /\ r.status \in {"PENDING", "CHANGES_REQUESTED"} /\ r.own = reviews[j][i].own
          /\ UNCHANGED errands /\ RowsStay
       \/ \* revise
          /\ reviews[j][i].own /\ r.status = "CHANGES_REQUESTED" /\ ~r.own
          /\ errands' = errands \cup {CleanUp(j)} /\ RowsStay

\* A request writes its decision, clears the draft away, or dies.
WriteStep(e) ==
  /\ e.state # "none" /\ job'[e.job].state = e.state /\ job'[e.job].owner = job[e.job].owner
  /\ job'[e.job].version = job[e.job].version /\ job'[e.job].attempts = job[e.job].attempts
  /\ Elsewhere(e.job)
  /\ errands' = (errands \ {e}) \cup IF e.cleanup THEN {CleanUp(e.job)} ELSE {}
  /\ UNCHANGED <<work, outcomes, reviews, branch>>
ClearStep(e) ==
  /\ e = CleanUp(e.job) /\ branch' \in {branch, branch \ {e.job}} /\ errands' = errands \ {e}
  /\ RowsStay /\ UNCHANGED <<work, outcomes, reviews>>
DropStep(e) ==
  errands' = errands \ {e} /\ RowsStay /\ UNCHANGED <<work, outcomes, reviews, branch>>

JobStep ==
  \/ \E w \in Workers : TurnStep(w) \/ MakeStep(w) \/ UndoStep(w)
  \/ \E w \in Workers, j \in Jobs : \/ FailStep(w, j) \/ TakeStep(w, j)
                                   \/ \E next \in States : CommitStep(w, j, next)
  \/ ClockStep
  \/ \E j \in Jobs : OperateStep(j) \/ \E i \in DOMAIN reviews[j] : ReviewMove(j, i)
  \/ \E e \in errands : WriteStep(e) \/ ClearStep(e) \/ DropStep(e)

\* How a busy worker's claim looks after it moved on, or gave up.
LEMMA MoveFacts ==
  ASSUME TypeOK, NEW w \in Workers, work[w].at # "idle"
  PROVE  /\ \A at : MoveTo(w, at) => Continues(w, at) /\ OthersWork(w)
         /\ work' = [work EXCEPT ![w] = NoClaim] => Idles(w) /\ OthersWork(w)
<1>1. work[w] \in Claim /\ work \in [Workers -> Claim \cup {NoClaim}]
  BY BusyClaim DEF TypeOK
<1>2. ASSUME NEW at, MoveTo(w, at) PROVE Continues(w, at) /\ OthersWork(w)
  <2>1. work' = [work EXCEPT ![w].at = at]
    BY <1>2 DEF MoveTo
  <2>2. OthersWork(w)
    BY <1>1, <2>1 DEF OthersWork
  <2>3. work'[w] = [work[w] EXCEPT !.at = at]
    BY <1>1, <2>1
  <2>4. Continues(w, at)
    BY <1>1, <2>3 DEF Continues, Claim
  <2>5. QED
    BY <2>2, <2>4
<1>3. ASSUME work' = [work EXCEPT ![w] = NoClaim] PROVE Idles(w) /\ OthersWork(w)
  BY <1>1, <1>3 DEF Idles, OthersWork, NoClaim
<1>4. QED
  BY <1>2, <1>3

\* A transition commits, or the worker turns to its catch branch.
LEMMA TransitionFacts ==
  ASSUME TypeOK, NEW w \in Workers, NEW next \in States, NEW catch \in {"failing", "cleaning"},
         transitionClaimedIngestJob(w, next, catch), NEW j \in Jobs, work[w].job = j,
         \/ work[w].at = "claimed" /\ work[w].state # "PLANNED" /\ <<work[w].state, next>> \in Stages
            /\ catch = "failing"
         \/ work[w].at = "drafting" /\ next = "DRAFTED" /\ catch = "cleaning"
  PROVE  CommitStep(w, j, next) \/ TurnStep(w)
<1>0. work[w].at # "idle" /\ job \in [Jobs -> JobRow]
  BY DEF TypeOK
<1>1. ASSUME Holds(w), Commit(w, next), NEW x,
             \/ x = 1 /\ Idles(w)
             \/ x = 2 /\ "lost" \in struck' /\ Continues(w, catch),
             OthersWork(w)
      PROVE  CommitStep(w, j, next)
  <2>1. job[j].owner = w /\ job[j].version = work[w].version /\ job[j].state = work[w].state
    BY <1>1 DEF Holds, OwnsLease
  <2>2. job' = [job EXCEPT ![j].state = next, ![j].owner = NoWorker, ![j].lapsed = FALSE]
    BY <1>1 DEF Commit
  <2>3. /\ job'[j].state = next /\ job'[j].owner = NoWorker
        /\ job'[j].version = job[j].version /\ job'[j].attempts = job[j].attempts
    BY <1>0, <2>2 DEF JobRow
  <2>4. Elsewhere(j)
    BY <1>0, <2>2 DEF Elsewhere
  <2>5. outcomes' = [outcomes EXCEPT ![j] =
                       Append(@, [version |-> job[j].version, kind |-> "moved"])]
    BY <1>1, <2>1 DEF Commit, Record
  <2>6. reviews' = IF next = "REVIEW_REQUIRED" THEN [reviews EXCEPT ![j] = Append(@, Opened)]
                   ELSE reviews
    BY <1>1 DEF Commit, Opened
  <2>7. UNCHANGED <<errands, branch>>
    BY <1>1 DEF Commit, gitVars
  <2>8. Idles(w) \/ ("lost" \in struck' /\ (Continues(w, "failing") \/ Continues(w, "cleaning")))
    BY <1>1
  <2>9. QED
    BY <1>1, <2>1, <2>3, <2>4, <2>5, <2>6, <2>7, <2>8 DEF CommitStep
<1>2. CASE Holds(w) /\ Commit(w, next) /\ work' = [work EXCEPT ![w] = NoClaim] /\ UNCHANGED bounds
  <2>1. Idles(w) /\ OthersWork(w)
    BY <1>0, <1>2, MoveFacts
  <2>2. QED
    BY <1>1, <1>2, <2>1
<1>3. CASE Holds(w) /\ Commit(w, next) /\ MoveTo(w, catch) /\ Spend("lost")
  <2>1. Continues(w, catch) /\ OthersWork(w)
    BY <1>0, <1>3, MoveFacts
  <2>2. "lost" \in struck'
    BY <1>3 DEF Spend
  <2>3. QED
    BY <1>1, <1>3, <2>1, <2>2
<1>4. CASE /\ ~Holds(w)
           /\ MoveTo(w, catch)
           /\ UNCHANGED <<job, outcomes, reviews, gitVars, errands, revoked, bounds>>
  <2>1. Continues(w, catch) /\ OthersWork(w)
    BY <1>0, <1>4, MoveFacts
  <2>2. QED
    BY <1>0, <1>4, <2>1 DEF TurnStep, RowsStay, RowStays, gitVars
<1>5. QED
  BY <1>2, <1>3, <1>4 DEF transitionClaimedIngestJob

\* The steps of a stage.
LEMMA StageFacts ==
  ASSUME TypeOK, NEW w \in Workers, StageStep(w)
  PROVE  \/ TurnStep(w) \/ MakeStep(w) \/ UndoStep(w)
         \/ \E j \in Jobs : FailStep(w, j) \/ \E next \in States : CommitStep(w, j, next)
<1>0. job \in [Jobs -> JobRow]
  BY DEF TypeOK
<1>1. CASE processStage(w)
  <2>1. work[w].at = "claimed" /\ work[w].state # "PLANNED"
    BY <1>1 DEF processStage
  <2>2. PICK stage \in Stages :
          stage[1] = work[w].state /\ transitionClaimedIngestJob(w, stage[2], "failing")
    BY <1>1 DEF processStage
  <2>3. PICK j \in Jobs : work[w].job = j
    BY <2>1, BusyClaim
  <2>4. stage[2] \in States /\ stage = <<stage[1], stage[2]>>
    BY DEF Stages, States, Working
  <2>5. CommitStep(w, j, stage[2]) \/ TurnStep(w)
    BY <2>1, <2>2, <2>3, <2>4, TransitionFacts
  <2>6. QED
    BY <2>4, <2>5
<1>2. CASE stageThrows(w)
  <2>1. /\ work[w].at # "idle"
        /\ \/ work[w].at = "drafting" /\ MoveTo(w, "cleaning")
           \/ MoveTo(w, "failing")
        /\ UNCHANGED <<job, outcomes, reviews, gitVars, errands>>
    BY <1>2 DEF stageThrows
  <2>2. /\ (work[w].at = "drafting" /\ Continues(w, "cleaning")) \/ Continues(w, "failing")
        /\ OthersWork(w)
    BY <2>1, MoveFacts
  <2>3. QED
    BY <2>1, <2>2 DEF TurnStep, RowsStay, RowStays, gitVars
<1>3. CASE assertClaimedIngestJob(w)
  <2>1. /\ work[w].at # "idle" /\ (MoveTo(w, "asserted") \/ MoveTo(w, "failing"))
        /\ UNCHANGED <<job, outcomes, reviews, gitVars, errands>>
    BY <1>3 DEF assertClaimedIngestJob
  <2>2. (Continues(w, "asserted") \/ Continues(w, "failing")) /\ OthersWork(w)
    BY <1>3, <2>1, MoveFacts DEF assertClaimedIngestJob
  <2>3. QED
    BY <1>3, <2>1, <2>2 DEF TurnStep, RowsStay, RowStays, gitVars, assertClaimedIngestJob
<1>4. CASE createDraftBranch(w)
  <2>1. work[w].at = "asserted" /\ UNCHANGED <<job, outcomes, reviews, errands>>
    BY <1>4 DEF createDraftBranch
  <2>2. CASE work[w].job \in branch
    <3>1. MoveTo(w, "failing") /\ UNCHANGED branch
      BY <1>4, <2>2 DEF createDraftBranch
    <3>2. Continues(w, "failing") /\ OthersWork(w)
      BY <2>1, <3>1, MoveFacts
    <3>3. QED
      BY <2>1, <3>1, <3>2 DEF TurnStep, RowsStay, RowStays
  <2>3. CASE work[w].job \notin branch
    <3>1. MoveTo(w, "drafting") /\ branch' = branch \cup {work[w].job}
      BY <1>4, <2>3 DEF createDraftBranch
    <3>2. Continues(w, "drafting") /\ OthersWork(w)
      BY <2>1, <3>1, MoveFacts
    <3>3. QED
      BY <2>1, <2>3, <3>1, <3>2 DEF MakeStep, RowsStay, RowStays
  <2>4. QED
    BY <2>2, <2>3
<1>5. CASE commitDraft(w)
  <2>1. work[w].at = "drafting" /\ transitionClaimedIngestJob(w, "DRAFTED", "cleaning")
    BY <1>5 DEF commitDraft
  <2>2. PICK j \in Jobs : work[w].job = j
    BY <2>1, BusyClaim
  <2>3. "DRAFTED" \in States
    BY DEF States, Working, Stages
  <2>4. CommitStep(w, j, "DRAFTED") \/ TurnStep(w)
    BY <2>1, <2>2, <2>3, TransitionFacts
  <2>5. QED
    BY <2>3, <2>4
<1>6. CASE cleanupDraft(w)
  <2>1. /\ work[w].at = "cleaning" /\ MoveTo(w, "failing")
        /\ branch' \in {branch, branch \ {work[w].job}}
        /\ UNCHANGED <<job, outcomes, reviews, errands>>
    BY <1>6 DEF cleanupDraft, gitVars
  <2>2. Continues(w, "failing") /\ OthersWork(w)
    BY <2>1, MoveFacts
  <2>3. QED
    BY <2>1, <2>2 DEF UndoStep, RowsStay, RowStays
<1>7. CASE handleFailure(w)
  <2>1. /\ work[w].at = "failing" /\ work' = [work EXCEPT ![w] = NoClaim]
        /\ UNCHANGED <<reviews, gitVars, errands>>
    BY <1>7 DEF handleFailure
  <2>2. Idles(w) /\ OthersWork(w)
    BY <2>1, MoveFacts
  <2>3. PICK j \in Jobs : work[w].job = j
    BY <2>1, BusyClaim
  <2>4. CASE ~OwnsLease(w)
    <3>1. UNCHANGED <<job, outcomes>>
      BY <1>7, <2>4 DEF handleFailure
    <3>2. QED
      BY <2>1, <2>2, <3>1 DEF TurnStep, RowsStay, RowStays, gitVars
  <2>5. CASE OwnsLease(w)
    <3> DEFINE attempts == work[w].attempts + 1
               state == IF attempts >= MaxAttempts THEN "FAILED" ELSE job[j].state
    <3>1. job' = [job EXCEPT ![j].state = state, ![j].attempts = attempts, ![j].due = FALSE,
                             ![j].owner = NoWorker, ![j].lapsed = FALSE]
      BY <1>7, <2>3, <2>5 DEF handleFailure
    <3>2. state \in {job[j].state, "FAILED"}
      OBVIOUS
    <3> HIDE DEF attempts, state
    <3>3. /\ job'[j].owner = NoWorker /\ job'[j].version = job[j].version
          /\ job'[j].state = state /\ job'[j].attempts = attempts
      BY <1>0, <3>1 DEF JobRow
    <3>4. Elsewhere(j)
      BY <1>0, <3>1 DEF Elsewhere
    <3>5. job[j].owner = w /\ job[j].version = work[w].version
      BY <2>3, <2>5 DEF OwnsLease
    <3>6. outcomes' = [outcomes EXCEPT ![j] =
                         Append(@, [version |-> job[j].version, kind |-> "failed"])]
      BY <1>7, <2>3, <2>5, <3>5 DEF handleFailure, Record
    <3>7. FailStep(w, j)
      BY <2>1, <2>2, <2>3, <3>2, <3>3, <3>4, <3>5, <3>6 DEF FailStep, gitVars, attempts
    <3>8. QED
      BY <3>7
  <2>6. QED
    BY <2>4, <2>5, SMTT(30)
<1>8. QED
  BY <1>1, <1>2, <1>3, <1>4, <1>5, <1>6, <1>7 DEF StageStep

\* Claims, heartbeats, crashes, operators and the clock.
LEMMA RowFacts ==
  ASSUME TypeOK, NEW j \in Jobs
  PROVE  /\ \A w \in Workers : claimNextIngestJob(w, j) => TakeStep(w, j)
         /\ \A w \in Workers : heartbeat(w) => ClockStep
         /\ \A w \in Workers : Crash(w) => TurnStep(w)
         /\ cancel(j) \/ retry(j) => OperateStep(j)
         /\ LeaseLapses(j) \/ BackoffElapses(j) => ClockStep
<1>0. job \in [Jobs -> JobRow] /\ job[j] \in JobRow /\ work \in [Workers -> Claim \cup {NoClaim}]
  BY DEF TypeOK
<1>1. ASSUME NEW w \in Workers, claimNextIngestJob(w, j) PROVE TakeStep(w, j)
  <2> DEFINE version == job[j].version + 1
             claim == [at |-> "claimed", job |-> j, state |-> job[j].state,
                       version |-> version, attempts |-> job[j].attempts]
  <2>1. /\ job' = [job EXCEPT ![j].owner = w, ![j].lapsed = FALSE, ![j].version = version]
        /\ work' = [work EXCEPT ![w] = claim]
        /\ work[w].at = "idle" /\ job[j].state \in Working
        /\ UNCHANGED <<outcomes, reviews, errands, branch>>
    BY <1>1 DEF claimNextIngestJob, Claimable, gitVars
  <2>2. claim.at = "claimed" /\ claim.job = j /\ claim.attempts = job[j].attempts
    OBVIOUS
  <2> HIDE DEF version, claim
  <2>3. /\ job'[j].state = job[j].state /\ job'[j].owner = w
        /\ job'[j].version = version /\ job'[j].attempts = job[j].attempts
        /\ Elsewhere(j)
    BY <1>0, <2>1 DEF JobRow, Elsewhere
  <2>4. work'[w] = claim /\ OthersWork(w)
    BY <1>0, <2>1 DEF OthersWork
  <2>5. QED
    BY <2>1, <2>2, <2>3, <2>4 DEF TakeStep, version
<1>2. ASSUME NEW k \in Jobs, NEW b \in BOOLEAN,
             job' = [job EXCEPT ![k].lapsed = b] \/ job' = [job EXCEPT ![k].due = b],
             UNCHANGED <<work, outcomes, reviews, errands, branch>>
      PROVE  ClockStep
  <2>1. RowsStay
    BY <1>0, <1>2 DEF RowsStay, RowStays, JobRow
  <2>2. QED
    BY <1>2, <2>1 DEF ClockStep
<1>3. ASSUME NEW w \in Workers, heartbeat(w) PROVE ClockStep
  <2>1. /\ work[w].job \in Jobs /\ job' = [job EXCEPT ![work[w].job].lapsed = FALSE]
        /\ UNCHANGED <<work, outcomes, reviews, errands, branch>>
    BY <1>3, BusyClaim DEF heartbeat, gitVars
  <2>2. QED
    BY <1>2, <2>1
<1>4. ASSUME NEW w \in Workers, Crash(w) PROVE TurnStep(w)
  <2>1. Idles(w) /\ OthersWork(w)
    BY <1>4, MoveFacts DEF Crash
  <2>2. QED
    BY <1>4, <2>1 DEF Crash, TurnStep, RowsStay, RowStays, gitVars
<1>5. ASSUME cancel(j) PROVE OperateStep(j)
  <2>1. /\ job'[j].state = "CANCELLED" /\ job'[j].owner = NoWorker
        /\ job'[j].version = job[j].version /\ job'[j].attempts = job[j].attempts
        /\ Elsewhere(j)
    BY <1>0, <1>5 DEF cancel, JobRow, Elsewhere
  <2>2. QED
    BY <1>5, <2>1 DEF cancel, OperateStep, gitVars
<1>6. ASSUME retry(j) PROVE OperateStep(j)
  <2>1. /\ job'[j].state = "RECEIVED" /\ job'[j].owner = NoWorker
        /\ job'[j].version = job[j].version /\ job'[j].attempts = job[j].attempts
        /\ Elsewhere(j)
    BY <1>0, <1>6 DEF retry, JobRow, Elsewhere
  <2>2. reopenings' = reopenings - 1
    BY <1>6 DEF retry, Reopen
  <2>3. QED
    BY <1>6, <2>1, <2>2 DEF retry, OperateStep, gitVars
<1>7. ASSUME LeaseLapses(j) \/ BackoffElapses(j) PROVE ClockStep
  <2>1. /\ job' = [job EXCEPT ![j].lapsed = TRUE] \/ job' = [job EXCEPT ![j].due = TRUE]
        /\ UNCHANGED <<work, outcomes, reviews, errands, branch>>
    BY <1>7 DEF LeaseLapses, BackoffElapses, gitVars
  <2>2. QED
    BY <1>2, <2>1
<1>8. QED
  BY <1>1, <1>3, <1>4, <1>5, <1>6, <1>7

\* Replacing one review leaves the others.
LEMMA RewriteFacts ==
  ASSUME TypeOK, NEW j \in Jobs, NEW i \in DOMAIN reviews[j], NEW r \in Review,
         reviews' = [reviews EXCEPT ![j] = [reviews[j] EXCEPT ![i] = r]]
  PROVE  Rewrites(j, i, r)
<1>1. reviews[j] \in Seq(Review) /\ reviews \in [Jobs -> Seq(Review)]
  BY DEF TypeOK
<1>2. /\ reviews'[j] = [reviews[j] EXCEPT ![i] = r]
      /\ \A k \in Jobs : k # j => reviews'[k] = reviews[k]
  BY <1>1
<1>3. [reviews[j] EXCEPT ![i] = r] \in Seq(Review) /\ Len([reviews[j] EXCEPT ![i] = r]) = Len(reviews[j])
  BY <1>1
<1>4. QED
  BY <1>1, <1>2, <1>3 DEF Rewrites

\* The steps of reviewers and authors.
LEMMA ReviewFacts ==
  ASSUME TypeOK, NEW j \in Jobs, ReviewStep(j)
  PROVE  \E i \in DOMAIN reviews[j] : ReviewMove(j, i)
<1>1. PICK i \in DOMAIN reviews[j] :
        \/ requestChanges(j, i) \/ reject(j, i) \/ finalizePublication(j, i)
        \/ compensatePublication(j, i) \/ revise(j, i) \/ submit(j, i)
  BY DEF ReviewStep
<1>2. PICK q \in Review : q = reviews[j][i]
  BY ReviewType
<1>3. /\ q.own \in BOOLEAN /\ q.asked \in BOOLEAN
      /\ q.status \in {"PENDING", "CHANGES_REQUESTED", "REJECTED", "APPROVED"}
  BY DEF Review
<1>4. ASSUME NEW status \in {"PENDING", "CHANGES_REQUESTED", "REJECTED", "APPROVED"},
             NEW own \in BOOLEAN, NEW asked \in BOOLEAN
      PROVE  /\ [status |-> status, own |-> own, asked |-> asked] \in Review
             /\ [status |-> status, own |-> own, asked |-> asked].status = status
             /\ [status |-> status, own |-> own, asked |-> asked].own = own
             /\ [status |-> status, own |-> own, asked |-> asked].asked = asked
  BY DEF Review
<1>5. /\ CleanUp(j) \in Errand
      /\ \A state \in {"CANCELLED", "DRAFTED"}, b \in BOOLEAN :
           [job |-> j, state |-> state, cleanup |-> b] \in Errand
  BY ReviewType
<1>6. job \in [Jobs -> JobRow] /\ reviews \in [Jobs -> Seq(Review)]
  BY DEF TypeOK
<1>7. ASSUME NEW status \in {"PENDING", "CHANGES_REQUESTED", "REJECTED", "APPROVED"},
             \/ Decide(j, i, status)
             \/ reviews' = [reviews EXCEPT ![j][i].status = status]
      PROVE  \E r \in Review : /\ Rewrites(j, i, r) /\ r.status = status /\ r.own = q.own
                               /\ (q.asked => r.asked)
                               /\ Decide(j, i, status) /\ status = "CHANGES_REQUESTED" => r.asked
  <2>1. CASE Decide(j, i, status)
    <3>1. PICK r : r = [q EXCEPT !.status = status, !.asked = @ \/ status = "CHANGES_REQUESTED"]
      OBVIOUS
    <3>2. /\ r \in Review /\ r.status = status /\ r.own = q.own
          /\ r.asked = (q.asked \/ status = "CHANGES_REQUESTED")
      BY <1>3, <3>1 DEF Review
    <3>3. reviews' = [reviews EXCEPT ![j] = [reviews[j] EXCEPT ![i] = r]]
      BY <1>2, <2>1, <3>1 DEF Decide
    <3>4. QED
      BY <3>2, <3>3, RewriteFacts
  <2>2. CASE reviews' = [reviews EXCEPT ![j][i].status = status] /\ ~Decide(j, i, status)
    <3>1. PICK r : r = [q EXCEPT !.status = status]
      OBVIOUS
    <3>2. r \in Review /\ r.status = status /\ r.own = q.own /\ r.asked = q.asked
      BY <1>3, <3>1 DEF Review
    <3>3. reviews' = [reviews EXCEPT ![j] = [reviews[j] EXCEPT ![i] = r]]
      BY <1>2, <2>2, <3>1
    <3>4. QED
      BY <2>2, <3>2, <3>3, RewriteFacts
  <2>3. QED
    BY <1>7, <2>1, <2>2
<1>8. CASE requestChanges(j, i)
  <2>1. /\ Decide(j, i, "CHANGES_REQUESTED") /\ reopenings' = reopenings - 1
        /\ errands' = errands \cup {[job |-> j, state |-> "DRAFTED", cleanup |-> FALSE]}
        /\ UNCHANGED <<job, outcomes, branch, work>>
    BY <1>8 DEF requestChanges, Reopen, gitVars
  <2>2. q.status \in {"PENDING", "CHANGES_REQUESTED"}
    BY <1>2, <2>1 DEF Decide
  <2>3. PICK r \in Review : /\ Rewrites(j, i, r) /\ r.status = "CHANGES_REQUESTED" /\ r.own = q.own
                            /\ r.asked
    BY <1>7, <2>1
  <2>4. PICK e \in Errand : e = [job |-> j, state |-> "DRAFTED", cleanup |-> FALSE]
    BY <1>5
  <2>5. e.job = j /\ e.state = "DRAFTED" /\ e.cleanup = FALSE /\ errands' = errands \cup {e}
    BY <2>1, <2>4
  <2>6. ReviewMove(j, i)
    BY <1>2, <2>1, <2>2, <2>3, <2>5 DEF ReviewMove, RowsStay, RowStays
  <2>7. QED
    BY <2>6
<1>9. CASE reject(j, i)
  <2>1. /\ Decide(j, i, "REJECTED")
        /\ errands' = errands \cup {[job |-> j, state |-> "CANCELLED", cleanup |-> q.own]}
        /\ UNCHANGED <<job, outcomes, branch, work>>
    BY <1>2, <1>9 DEF reject, gitVars
  <2>2. q.status \in {"PENDING", "CHANGES_REQUESTED"}
    BY <1>2, <2>1 DEF Decide
  <2>3. PICK r \in Review : /\ Rewrites(j, i, r) /\ r.status = "REJECTED"
                            /\ (q.asked => r.asked)
    BY <1>7, <2>1
  <2>4. PICK e \in Errand : e = [job |-> j, state |-> "CANCELLED", cleanup |-> q.own]
    BY <1>3, <1>5
  <2>5. e.job = j /\ e.state = "CANCELLED" /\ e.cleanup = q.own /\ errands' = errands \cup {e}
    BY <2>1, <2>4
  <2>6. ReviewMove(j, i)
    BY <1>2, <2>1, <2>2, <2>3, <2>5 DEF ReviewMove, RowsStay, RowStays
  <2>7. QED
    BY <2>6
<1>10. CASE finalizePublication(j, i)
  <2>1. /\ q.status = "PENDING" /\ reviews' = [reviews EXCEPT ![j][i].status = "APPROVED"]
        /\ job' = [job EXCEPT ![j].state = "COMPLETED"]
        /\ errands' = errands \cup IF q.own THEN {CleanUp(j)} ELSE {}
        /\ UNCHANGED <<outcomes, branch, work>>
    BY <1>2, <1>10 DEF finalizePublication, gitVars
  <2>2. PICK r \in Review : /\ Rewrites(j, i, r) /\ r.status = "APPROVED" /\ (q.asked => r.asked)
    BY <1>7, <2>1
  <2>3. /\ job'[j].state = "COMPLETED" /\ job'[j].owner = job[j].owner
        /\ job'[j].version = job[j].version /\ job'[j].attempts = job[j].attempts
        /\ Elsewhere(j)
    BY <1>6, <2>1 DEF JobRow, Elsewhere
  <2>4. ReviewMove(j, i)
    BY <1>2, <2>1, <2>2, <2>3 DEF ReviewMove
  <2>5. QED
    BY <2>4
<1>11. CASE compensatePublication(j, i) \/ submit(j, i)
  <2>1. /\ q.status \in {"PENDING", "CHANGES_REQUESTED"}
        /\ \E status \in {"PENDING", "CHANGES_REQUESTED"} :
             reviews' = [reviews EXCEPT ![j][i].status = status]
        /\ UNCHANGED <<job, errands, outcomes, branch, work>>
    BY <1>2, <1>11 DEF compensatePublication, submit, gitVars
  <2>2. PICK r \in Review : /\ Rewrites(j, i, r) /\ r.status \in {"PENDING", "CHANGES_REQUESTED"}
                            /\ r.own = q.own /\ (q.asked => r.asked)
    BY <1>7, <2>1
  <2>3. ReviewMove(j, i)
    BY <1>2, <2>1, <2>2 DEF ReviewMove, RowsStay, RowStays
  <2>4. QED
    BY <2>3
<1>12. CASE revise(j, i)
  <2>1. /\ q.status = "CHANGES_REQUESTED" /\ q.own
        /\ reviews' = [reviews EXCEPT ![j][i].own = FALSE]
        /\ errands' = errands \cup {CleanUp(j)}
        /\ UNCHANGED <<job, outcomes, branch, work>>
    BY <1>2, <1>12 DEF revise, gitVars
  <2>2. PICK r : r = [q EXCEPT !.own = FALSE]
    OBVIOUS
  <2>3. r \in Review /\ r.status = q.status /\ r.own = FALSE /\ r.asked = q.asked
    BY <1>3, <2>2 DEF Review
  <2>4. reviews' = [reviews EXCEPT ![j] = [reviews[j] EXCEPT ![i] = r]]
    BY <1>2, <2>1, <2>2
  <2>5. Rewrites(j, i, r)
    BY <2>3, <2>4, RewriteFacts
  <2>6. ReviewMove(j, i)
    BY <1>2, <2>1, <2>3, <2>5 DEF ReviewMove, RowsStay, RowStays
  <2>7. QED
    BY <2>6
<1>13. QED
  BY <1>1, <1>8, <1>9, <1>10, <1>11, <1>12

\* The steps of review requests.
LEMMA ErrandFacts ==
  ASSUME TypeOK, NEW e \in errands
  PROVE  /\ writeDecision(e) => WriteStep(e)
         /\ cleanupReviewed(e) => ClearStep(e)
         /\ RequestDies(e) => DropStep(e)
<1>0. e.job \in Jobs /\ job \in [Jobs -> JobRow]
  BY DEF TypeOK, Errand
<1>1. ASSUME writeDecision(e) PROVE WriteStep(e)
  <2>1. /\ job'[e.job].state = e.state /\ job'[e.job].owner = job[e.job].owner
        /\ job'[e.job].version = job[e.job].version /\ job'[e.job].attempts = job[e.job].attempts
        /\ Elsewhere(e.job)
    BY <1>0, <1>1 DEF writeDecision, JobRow, Elsewhere
  <2>2. QED
    BY <1>1, <2>1 DEF writeDecision, WriteStep, gitVars
<1>2. ASSUME cleanupReviewed(e) PROVE ClearStep(e)
  BY <1>2 DEF cleanupReviewed, ClearStep, RowsStay, RowStays, gitVars
<1>3. ASSUME RequestDies(e) PROVE DropStep(e)
  BY <1>3 DEF RequestDies, DropStep, RowsStay, RowStays, gitVars
<1>4. QED
  BY <1>1, <1>2, <1>3

\* Every step is one of these.
LEMMA JobSteps ==
  ASSUME TypeOK, [Next]_vars
  PROVE  JobStep
<1>1. CASE UNCHANGED vars
  BY <1>1 DEF vars, gitVars, JobStep, ClockStep, RowsStay, RowStays
<1>2. ASSUME NEW w \in Workers, StageStep(w) \/ heartbeat(w) \/ Crash(w) PROVE JobStep
  <2>1. CASE StageStep(w)
    BY <2>1, StageFacts DEF JobStep
  <2>2. CASE heartbeat(w)
    <3>1. work[w].job \in Jobs
      BY <2>2, BusyClaim DEF heartbeat
    <3>2. QED
      BY <2>2, <3>1, RowFacts DEF JobStep
  <2>3. CASE Crash(w)
    <3>1. work[w].job \in Jobs
      BY <2>3, BusyClaim DEF Crash
    <3>2. QED
      BY <2>3, <3>1, RowFacts DEF JobStep
  <2>4. QED
    BY <1>2, <2>1, <2>2, <2>3
<1>3. ASSUME NEW w \in Workers, NEW j \in Jobs, claimNextIngestJob(w, j) PROVE JobStep
  BY <1>3, RowFacts DEF JobStep
<1>4. ASSUME NEW j \in Jobs,
             cancel(j) \/ retry(j) \/ ReviewStep(j) \/ LeaseLapses(j) \/ BackoffElapses(j)
      PROVE  JobStep
  BY <1>4, RowFacts, ReviewFacts DEF JobStep
<1>5. ASSUME NEW e \in errands, writeDecision(e) \/ cleanupReviewed(e) \/ RequestDies(e)
      PROVE  JobStep
  BY <1>5, ErrandFacts DEF JobStep
<1>6. QED
  BY <1>1, <1>2, <1>3, <1>4, <1>5 DEF Next

\* Faults are remembered, and reopenings are only spent.
LEMMA BoundSteps ==
  ASSUME TypeOK, [Next]_vars
  PROVE  struck \subseteq struck' /\ (reopenings' = reopenings \/ reopenings' = reopenings - 1)
<1>1. ASSUME NEW kind, Spend(kind)
      PROVE  struck \subseteq struck' /\ reopenings' = reopenings
  BY <1>1 DEF Spend
<1>2. ASSUME UNCHANGED bounds
      PROVE  struck \subseteq struck' /\ reopenings' = reopenings
  BY <1>2 DEF bounds
<1>3. ASSUME Reopen
      PROVE  struck \subseteq struck' /\ reopenings' = reopenings - 1
  BY <1>3 DEF Reopen
<1>4. ASSUME NEW w \in Workers, StageStep(w) \/ heartbeat(w) \/ Crash(w)
      PROVE  struck \subseteq struck' /\ reopenings' = reopenings
  <2>1. UNCHANGED bounds \/ \E kind : Spend(kind)
    BY <1>4 DEF StageStep, processStage, commitDraft, transitionClaimedIngestJob, stageThrows,
         assertClaimedIngestJob, createDraftBranch, cleanupDraft, handleFailure, heartbeat, Crash,
         bounds
  <2>2. QED
    BY <1>1, <1>2, <2>1, SMTT(30)
<1>5. ASSUME NEW j \in Jobs, LeaseLapses(j) \/ BackoffElapses(j) \/ cancel(j)
      PROVE  struck \subseteq struck' /\ reopenings' = reopenings
  <2>1. UNCHANGED bounds \/ \E kind : Spend(kind)
    BY <1>5 DEF LeaseLapses, BackoffElapses, cancel, bounds
  <2>2. QED
    BY <1>1, <1>2, <2>1
<1>6. ASSUME NEW j \in Jobs, retry(j)
      PROVE  struck \subseteq struck' /\ reopenings' = reopenings - 1
  BY <1>3, <1>6 DEF retry
<1>7. ASSUME NEW j \in Jobs, ReviewStep(j)
      PROVE  struck \subseteq struck' /\ (reopenings' = reopenings \/ reopenings' = reopenings - 1)
  <2>1. UNCHANGED bounds \/ Reopen
    BY <1>7 DEF ReviewStep, requestChanges, reject, finalizePublication, compensatePublication,
         revise, submit, bounds
  <2>2. QED
    BY <1>2, <1>3, <2>1
<1>8. ASSUME NEW e \in errands, writeDecision(e) \/ cleanupReviewed(e) \/ RequestDies(e)
      PROVE  struck \subseteq struck' /\ reopenings' = reopenings
  <2>1. UNCHANGED bounds \/ \E kind : Spend(kind)
    BY <1>8 DEF writeDecision, cleanupReviewed, RequestDies, bounds
  <2>2. QED
    BY <1>1, <1>2, <2>1
<1>9. ASSUME NEW w \in Workers, NEW j \in Jobs, claimNextIngestJob(w, j)
      PROVE  struck \subseteq struck' /\ reopenings' = reopenings
  BY <1>2, <1>9 DEF claimNextIngestJob, bounds
<1>10. ASSUME UNCHANGED vars
      PROVE  struck \subseteq struck' /\ reopenings' = reopenings
  BY <1>2, <1>10 DEF vars, bounds
<1>11. QED
  BY <1>4, <1>5, <1>6, <1>7, <1>8, <1>9, <1>10 DEF Next

\* Types of what the steps read.
LEMMA JobTypes ==
  ASSUME TypeOK
  PROVE  /\ \A j \in Jobs : /\ job[j].version \in Nat /\ job[j].attempts \in Nat
                            /\ job[j].owner \in Workers \cup {NoWorker} /\ job[j].state \in States
                            /\ reviews[j] \in Seq(Review) /\ outcomes[j] \in Seq(Outcome)
         /\ \A j \in Jobs : \A i \in DOMAIN reviews[j] :
              /\ reviews[j][i] \in Review /\ reviews[j][i].own \in BOOLEAN
              /\ reviews[j][i].asked \in BOOLEAN
         /\ \A w \in Workers : work[w].at # "idle" =>
              /\ work[w].job \in Jobs /\ work[w].version \in Nat /\ work[w].attempts \in Nat
         /\ \A e \in errands : /\ e.job \in Jobs /\ e.cleanup \in BOOLEAN
                               /\ e.state \in {"CANCELLED", "DRAFTED", "none"}
<1>1. \A j \in Jobs : job[j] \in JobRow /\ reviews[j] \in Seq(Review) /\ outcomes[j] \in Seq(Outcome)
  BY DEF TypeOK
<1>2. \A j \in Jobs : \A i \in DOMAIN reviews[j] : reviews[j][i] \in Review
  BY <1>1
<1>3. \A w \in Workers : work[w].at # "idle" => work[w] \in Claim
  BY BusyClaim
<1>4. \A e \in errands : e \in Errand
  BY DEF TypeOK
<1>5. QED
  BY <1>1, <1>2, <1>3, <1>4 DEF JobRow, Review, Claim, Errand

-----------------------------------------------------------------------------
(* Failures are counted: the worker that may record one has read the row's    *)
(* present count, because every step that changes the count ends the claim.   *)

Failures(j) == {n \in DOMAIN outcomes[j] : outcomes[j][n].kind = "failed"}

ClaimsCount ==
  \A w \in Workers :
    work[w].at # "idle" /\ job[work[w].job].owner = w /\ job[work[w].job].version = work[w].version
      => work[w].attempts = job[work[w].job].attempts

CountInv == FailuresCounted /\ ClaimsCount

\* What an outcome that is appended adds to the failures of a job.
LEMMA AppendedFailures ==
  ASSUME TypeOK, NEW j \in Jobs, NEW o \in Outcome,
         outcomes' = [outcomes EXCEPT ![j] = Append(@, o)]
  PROVE  /\ o.kind # "failed" => Failures(j)' = Failures(j)
         /\ o.kind = "failed" => Cardinality(Failures(j)') = Cardinality(Failures(j)) + 1
         /\ \A k \in Jobs : k # j => Failures(k)' = Failures(k)
<1>1. outcomes[j] \in Seq(Outcome) /\ outcomes \in [Jobs -> Seq(Outcome)]
  BY DEF TypeOK
<1> DEFINE last == Len(outcomes[j]) + 1
<1>2. outcomes'[j] = Append(outcomes[j], o) /\ \A k \in Jobs : k # j => outcomes'[k] = outcomes[k]
  BY <1>1
<1>3. /\ DOMAIN outcomes[j] = 1..Len(outcomes[j]) /\ Len(outcomes[j]) \in Nat
      /\ DOMAIN outcomes'[j] = 1..last /\ outcomes'[j][last] = o
      /\ \A n \in DOMAIN outcomes[j] : outcomes'[j][n] = outcomes[j][n]
  BY <1>1, <1>2
<1>4. last \notin DOMAIN outcomes[j] /\ DOMAIN outcomes'[j] = DOMAIN outcomes[j] \cup {last}
  BY <1>3
<1> HIDE DEF last
<1>5. o.kind # "failed" => Failures(j)' = Failures(j)
  BY <1>3, <1>4 DEF Failures
<1>6. ASSUME o.kind = "failed"
      PROVE  Cardinality(Failures(j)') = Cardinality(Failures(j)) + 1
  <2>1. Failures(j)' = Failures(j) \cup {last} /\ last \notin Failures(j)
    BY <1>3, <1>4, <1>6 DEF Failures
  <2>2. IsFiniteSet(1..Len(outcomes[j]))
    BY <1>3, FS_Interval
  <2>3. Failures(j) \in SUBSET (1..Len(outcomes[j]))
    BY <1>3 DEF Failures
  <2>4. IsFiniteSet(Failures(j))
    BY <2>2, <2>3, FS_Subset
  <2>5. QED
    BY <2>1, <2>4, FS_AddElement
<1>7. \A k \in Jobs : k # j => Failures(k)' = Failures(k)
  BY <1>2 DEF Failures
<1>8. QED
  BY <1>5, <1>6, <1>7

\* Every step keeps the count.
LEMMA NextCount ==
  ASSUME TypeOK, CountInv, [Next]_vars
  PROVE  CountInv'
<1>0. /\ \A j \in Jobs : Cardinality(Failures(j)) = job[j].attempts
      /\ ClaimsCount /\ JobStep
  BY JobSteps DEF CountInv, FailuresCounted, Failures
<1>1. ASSUME UNCHANGED outcomes, \A k \in Jobs : job'[k].attempts = job[k].attempts
      PROVE  FailuresCounted'
  BY <1>0, <1>1 DEF FailuresCounted, Failures
<1>2. ASSUME \A v \in Workers : job'[work'[v].job].owner = v /\ work'[v].at # "idle" =>
               /\ work[v].at # "idle" /\ job[work[v].job].owner = v
               /\ work'[v].job = work[v].job /\ work'[v].version = work[v].version
               /\ work'[v].attempts = work[v].attempts
               /\ job'[work[v].job].version = job[work[v].job].version
               /\ job'[work[v].job].attempts = job[work[v].job].attempts
      PROVE  ClaimsCount'
  BY <1>0, <1>2 DEF ClaimsCount
<1>3. ASSUME RowsStay, UNCHANGED <<work, outcomes>> PROVE CountInv'
  <2>1. ClaimsCount'
    BY <1>2, <1>3, JobTypes DEF RowsStay, RowStays
  <2>2. QED
    BY <1>1, <1>3, <2>1 DEF RowsStay, RowStays, CountInv
<1>4. ASSUME NEW w \in Workers, TurnStep(w) \/ MakeStep(w) \/ UndoStep(w) PROVE CountInv'
  <2>1. /\ RowsStay /\ UNCHANGED outcomes /\ OthersWork(w) /\ work[w].at # "idle"
        /\ Idles(w) \/ \E at : Continues(w, at)
    BY <1>4 DEF TurnStep, MakeStep, UndoStep
  <2>2. ClaimsCount'
    BY <1>2, <2>1, JobTypes, SMTT(30) DEF RowsStay, RowStays, OthersWork, Idles, Continues
  <2>3. QED
    BY <1>1, <2>1, <2>2 DEF RowsStay, RowStays, CountInv
<1>5. ASSUME NEW j \in Jobs, \A k \in Jobs : k # j => job'[k] = job[k],
             job'[j].owner \in {NoWorker, job[j].owner}, job'[j].version = job[j].version,
             job'[j].owner # NoWorker => job'[j].attempts = job[j].attempts,
             \/ UNCHANGED work
             \/ \E w \in Workers : /\ OthersWork(w) /\ work[w].at # "idle"
                                   /\ Idles(w) \/ \E at : Continues(w, at)
      PROVE  ClaimsCount'
  <2>1. ASSUME NEW v \in Workers, job'[work'[v].job].owner = v, work'[v].at # "idle"
        PROVE  /\ work[v].at # "idle" /\ job[work[v].job].owner = v
               /\ work'[v].job = work[v].job /\ work'[v].version = work[v].version
               /\ work'[v].attempts = work[v].attempts
               /\ job'[work[v].job].version = job[work[v].job].version
               /\ job'[work[v].job].attempts = job[work[v].job].attempts
    <3>1. /\ work[v].at # "idle" /\ work'[v].job = work[v].job
          /\ work'[v].version = work[v].version /\ work'[v].attempts = work[v].attempts
      BY <1>5, <2>1 DEF OthersWork, Idles, Continues
    <3>2. work[v].job \in Jobs /\ v # NoWorker
      BY <3>1, JobTypes, WorkerAssumption
    <3>3. QED
      BY <1>5, <2>1, <3>1, <3>2
  <2>2. QED
    BY <1>2, <2>1
<1>6. ASSUME NEW w \in Workers, NEW j \in Jobs, NEW next \in States, CommitStep(w, j, next)
      PROVE  CountInv'
  <2>0. PICK o : o = [version |-> job[j].version, kind |-> "moved"]
    OBVIOUS
  <2>1. o \in Outcome /\ o.kind # "failed"
    BY <2>0, JobTypes DEF Outcome
  <2>2. outcomes' = [outcomes EXCEPT ![j] = Append(@, o)]
    BY <1>6, <2>0 DEF CommitStep
  <2>3. \A k \in Jobs : Failures(k)' = Failures(k) /\ job'[k].attempts = job[k].attempts
    <3>1. \A k \in Jobs : k # j => Failures(k)' = Failures(k) /\ job'[k].attempts = job[k].attempts
      BY <1>6, <2>1, <2>2, AppendedFailures, ZenonT(60) DEF CommitStep, Elsewhere
    <3>2. Failures(j)' = Failures(j) /\ job'[j].attempts = job[j].attempts
      BY <1>6, <2>1, <2>2, AppendedFailures DEF CommitStep
    <3>3. QED
      BY <3>1, <3>2
  <2>4. FailuresCounted'
    BY <1>0, <2>3 DEF FailuresCounted, Failures
  <2>5. OthersWork(w) /\ work[w].at # "idle" /\ (Idles(w) \/ \E at : Continues(w, at))
    BY <1>6 DEF CommitStep
  <2>6. ClaimsCount'
    BY <1>5, <1>6, <2>5 DEF CommitStep, Elsewhere
  <2>7. QED
    BY <2>4, <2>6 DEF CountInv
<1>7. ASSUME NEW w \in Workers, NEW j \in Jobs, FailStep(w, j)
      PROVE  CountInv'
  <2>0. PICK o : o = [version |-> job[j].version, kind |-> "failed"]
    OBVIOUS
  <2>1. o \in Outcome /\ o.kind = "failed"
    BY <2>0, JobTypes DEF Outcome
  <2>2. outcomes' = [outcomes EXCEPT ![j] = Append(@, o)]
    BY <1>7, <2>0 DEF FailStep
  <2>3. work[w].attempts = job[j].attempts
    BY <1>0, <1>7 DEF FailStep, ClaimsCount
  <2>4. \A k \in Jobs : k # j => Failures(k)' = Failures(k) /\ job'[k].attempts = job[k].attempts
    BY <1>7, <2>1, <2>2, AppendedFailures DEF FailStep, Elsewhere
  <2>5. /\ Cardinality(Failures(j)') = Cardinality(Failures(j)) + 1
        /\ job'[j].attempts = job[j].attempts + 1
    BY <1>7, <2>1, <2>2, <2>3, AppendedFailures DEF FailStep
  <2>6. FailuresCounted'
    BY <1>0, <2>4, <2>5 DEF FailuresCounted, Failures
  <2>7. OthersWork(w) /\ work[w].at # "idle" /\ Idles(w)
    BY <1>7 DEF FailStep
  <2>8. ClaimsCount'
    BY <1>5, <1>7, <2>7 DEF FailStep, Elsewhere
  <2>9. QED
    BY <2>6, <2>8 DEF CountInv
<1>8. ASSUME NEW w \in Workers, NEW j \in Jobs, TakeStep(w, j)
      PROVE  CountInv'
  <2>1. FailuresCounted'
    BY <1>1, <1>8 DEF TakeStep, Elsewhere
  <2>2. ClaimsCount'
    <3> SUFFICES ASSUME NEW v \in Workers, work'[v].at # "idle",
                        job'[work'[v].job].owner = v, job'[work'[v].job].version = work'[v].version
                 PROVE  work'[v].attempts = job'[work'[v].job].attempts
      BY DEF ClaimsCount
    <3>1. CASE v = w
      BY <1>8, <3>1 DEF TakeStep
    <3>2. CASE v # w
      <4>1. work'[v] = work[v]
        BY <1>8, <3>2 DEF TakeStep, OthersWork
      <4>2. work[v].job \in Jobs
        BY <4>1, JobTypes
      <4>3. work[v].job # j
        BY <1>8, <3>2, <4>1 DEF TakeStep
      <4>4. job'[work[v].job] = job[work[v].job]
        BY <1>8, <4>2, <4>3 DEF TakeStep, Elsewhere
      <4>5. QED
        BY <1>0, <4>1, <4>4 DEF ClaimsCount
    <3>3. QED
      BY <3>1, <3>2
  <2>3. QED
    BY <2>1, <2>2 DEF CountInv
<1>9. ASSUME NEW j \in Jobs, \A k \in Jobs : k # j => job'[k] = job[k],
             job'[j].owner \in {NoWorker, job[j].owner}, job'[j].version = job[j].version,
             job'[j].attempts = job[j].attempts, UNCHANGED <<work, outcomes>>
      PROVE  CountInv'
  <2>1. ClaimsCount'
    BY <1>5, <1>9
  <2>2. FailuresCounted'
    BY <1>1, <1>9
  <2>3. QED
    BY <2>1, <2>2 DEF CountInv
<1>10. ASSUME NEW j \in Jobs, OperateStep(j) PROVE CountInv'
  BY <1>9, <1>10 DEF OperateStep, Elsewhere
<1>11. ASSUME NEW j \in Jobs, NEW i \in DOMAIN reviews[j], ReviewMove(j, i) PROVE CountInv'
  <2>1. CASE RowsStay
    BY <1>3, <1>11, <2>1 DEF ReviewMove
  <2>2. CASE ~RowsStay
    BY <1>9, <1>11, <2>2 DEF ReviewMove, Elsewhere
  <2>3. QED
    BY <2>1, <2>2
<1>12. ASSUME NEW e \in errands, WriteStep(e) \/ ClearStep(e) \/ DropStep(e) PROVE CountInv'
  <2>1. CASE WriteStep(e)
    <3>1. e.job \in Jobs
      BY JobTypes
    <3>2. QED
      BY <1>9, <2>1, <3>1 DEF WriteStep, Elsewhere
  <2>2. CASE ClearStep(e) \/ DropStep(e)
    BY <1>3, <2>2 DEF ClearStep, DropStep
  <2>3. QED
    BY <1>12, <2>1, <2>2
<1>13. QED
  BY <1>0, <1>3, <1>4, <1>6, <1>7, <1>8, <1>10, <1>11, <1>12 DEF JobStep, ClockStep

\* Nobody has failed at first.
LEMMA InitCount == Init => CountInv
<1> SUFFICES ASSUME Init PROVE CountInv
  OBVIOUS
<1>1. \A j \in Jobs : outcomes[j] = <<>> /\ job[j].attempts = 0
  BY DEF Init
<1>2. \A j \in Jobs : Failures(j) = {}
  BY <1>1 DEF Failures
<1>3. Cardinality({}) = 0
  BY FS_EmptySet
<1>4. FailuresCounted
  BY <1>1, <1>2, <1>3 DEF FailuresCounted, Failures
<1>5. QED
  BY <1>4 DEF CountInv, ClaimsCount, Init, NoClaim

\* handleFailure writes a count it read at the claim, and yet no failure is
\* forgotten or counted twice.
THEOREM FailuresAreCounted == Spec => []FailuresCounted
<1>1. TypeOK /\ CountInv /\ [Next]_vars => CountInv'
  BY NextCount
<1>2. CountInv => FailuresCounted
  BY DEF CountInv
<1>3. QED
  BY InitCount, <1>1, <1>2, TypeCorrect, PTL DEF Spec

-----------------------------------------------------------------------------
(* Completion is final.  Until some job is retried or sent back, a job has one *)
(* review at most, and workers are done with it by then; so who writes a       *)
(* completed job has to be a request, and none is left of one that was         *)
(* approved.                                                                   *)

FirstPass(j) ==
  /\ Len(reviews[j]) <= 1
  /\ reviews[j] # <<>> => job[j].state \notin Working /\ job[j].owner = NoWorker
  /\ job[j].state = "COMPLETED" => reviews[j] # <<>> /\ reviews[j][1].status = "APPROVED"
  /\ \A e \in errands : e.job = j =>
       /\ e.state # "DRAFTED"
       /\ e.state = "CANCELLED" => reviews[j] # <<>> /\ reviews[j][1].status = "REJECTED"

PassInv ==
  /\ reopenings <= MaxReopenings
  /\ reopenings = MaxReopenings => \A j \in Jobs : FirstPass(j)

\* A job is as far as it was when its row, reviews and requests are as before.
LEMMA SamePass ==
  ASSUME NEW j \in Jobs, FirstPass(j), reviews'[j] = reviews[j],
         job'[j].state = job[j].state, job'[j].owner = job[j].owner,
         \A e \in errands' : e \in errands \/ e.job # j \/ e.state = "none"
  PROVE  FirstPass(j)'
BY DEF FirstPass

\* So it is when its row only goes where no worker follows.
LEMMA ParkedPass ==
  ASSUME NEW j \in Jobs, FirstPass(j), reviews'[j] = reviews[j],
         job'[j].state \notin Working, job'[j].state # "COMPLETED",
         job'[j].owner = NoWorker \/ (reviews[j] # <<>> /\ job'[j].owner = job[j].owner),
         \A e \in errands' : e \in errands \/ e.job # j \/ e.state = "none"
  PROVE  FirstPass(j)'
BY DEF FirstPass

\* Which states workers claim, and where their stages lead.
LEMMA WorkingStates ==
  /\ \A state \in {"REVIEW_REQUIRED", "COMPLETED", "FAILED", "CANCELLED"} : state \notin Working
  /\ \A state \in Working : \A next : <<state, next>> \in Stages => next # "COMPLETED"
BY DEF Working, Stages

\* A worker's commit opens the first review, or keeps the job among workers.
LEMMA CommitPass ==
  ASSUME TypeOK, NEW w \in Workers, NEW j \in Jobs, NEW next, CommitStep(w, j, next), FirstPass(j)
  PROVE  FirstPass(j)'
<1>1. reviews[j] = <<>> /\ reviews \in [Jobs -> Seq(Review)]
  BY WorkerAssumption DEF CommitStep, FirstPass, TypeOK
<1>2. next # "COMPLETED" /\ job'[j].state = next /\ job'[j].owner = NoWorker
  BY DEF CommitStep, Stages
<1>3. errands' = errands
  BY DEF CommitStep
<1>4. CASE next = "REVIEW_REQUIRED"
  <2>1. PICK o : o = Opened
    OBVIOUS
  <2>2. reviews'[j] = Append(reviews[j], o)
    BY <1>1, <1>4, <2>1 DEF CommitStep
  <2>3. reviews'[j] = <<o>> /\ Len(reviews'[j]) = 1
    BY <1>1, <2>2
  <2>4. \A e \in errands : e.job = j => e.state \notin {"DRAFTED", "CANCELLED"}
    BY <1>1 DEF FirstPass
  <2>5. QED
    BY <1>2, <1>3, <1>4, <2>3, <2>4, WorkingStates DEF FirstPass
<1>5. CASE next # "REVIEW_REQUIRED"
  <2>1. reviews'[j] = reviews[j]
    BY <1>5 DEF CommitStep
  <2>2. QED
    BY <1>1, <1>2, <1>3, <2>1 DEF FirstPass
<1>6. QED
  BY <1>4, <1>5

\* A reviewer who does not send the job back ends its review, or leaves it open.
LEMMA ReviewPass ==
  ASSUME TypeOK, NEW j \in Jobs, NEW i \in DOMAIN reviews[j], ReviewMove(j, i),
         reopenings' = reopenings, FirstPass(j)
  PROVE  FirstPass(j)'
<1>1. /\ reviews[j] \in Seq(Review) /\ Len(reviews[j]) <= 1 /\ reopenings \in Nat
  BY JobTypes DEF FirstPass, TypeOK
<1>2. i = 1 /\ reviews[j] # <<>>
  BY <1>1
<1>0. reopenings' # reopenings - 1
  BY <1>1
<1>3. PICK r \in Review :
        /\ reviews[j][i].status \in {"PENDING", "CHANGES_REQUESTED"}
        /\ Rewrites(j, i, r)
        /\ \/ r.status = "REJECTED" /\ RowsStay
              /\ \E e \in Errand : /\ e.job = j /\ e.state = "CANCELLED"
                                   /\ e.cleanup = reviews[j][i].own
                                   /\ errands' = errands \cup {e}
           \/ r.status = "APPROVED" /\ job'[j].state = "COMPLETED" /\ job'[j].owner = job[j].owner
              /\ errands' = errands \cup IF reviews[j][i].own THEN {CleanUp(j)} ELSE {}
           \/ RowsStay /\ errands' = errands
           \/ RowsStay /\ errands' = errands \cup {CleanUp(j)}
  BY <1>0 DEF ReviewMove
<1>4. /\ job[j].state # "COMPLETED" /\ job[j].state \notin Working /\ job[j].owner = NoWorker
      /\ \A e \in errands : e.job = j => e.state \notin {"DRAFTED", "CANCELLED"}
  BY <1>2, <1>3 DEF FirstPass
<1>5. Len(reviews'[j]) <= 1 /\ reviews'[j] # <<>> /\ reviews'[j][1].status = r.status
  BY <1>1, <1>2, <1>3 DEF Rewrites
<1>6. CleanUp(j).state = "none"
  BY DEF CleanUp
<1>7. CASE r.status = "REJECTED" /\ RowsStay
           /\ \E e \in Errand : e.job = j /\ e.state = "CANCELLED" /\ errands' = errands \cup {e}
  <2>1. \A e \in errands' : e.job = j => e.state # "DRAFTED"
    BY <1>4, <1>7
  <2>2. job'[j].state = job[j].state /\ job'[j].owner = NoWorker
    BY <1>4, <1>7 DEF RowsStay, RowStays
  <2>3. QED
    BY <1>4, <1>5, <1>7, <2>1, <2>2 DEF FirstPass
<1>8. CASE errands' \in {errands, errands \cup {CleanUp(j)}}
  <2>1. \A e \in errands' : e.job = j => e.state \notin {"DRAFTED", "CANCELLED"}
    BY <1>4, <1>6, <1>8
  <2>2. CASE RowsStay
    <3>1. job'[j].state = job[j].state /\ job'[j].owner = NoWorker
      BY <1>4, <2>2 DEF RowsStay, RowStays
    <3>2. QED
      BY <1>4, <1>5, <2>1, <3>1 DEF FirstPass
  <2>3. CASE r.status = "APPROVED" /\ job'[j].state = "COMPLETED" /\ job'[j].owner = job[j].owner
    BY <1>4, <1>5, <2>1, <2>3, WorkingStates DEF FirstPass
  <2>4. CASE r.status = "REJECTED" /\ RowsStay
    BY <2>2, <2>4
  <2>5. QED
    BY <1>3, <2>2, <2>3
<1>9. QED
  BY <1>3, <1>7, <1>8

\* While nothing is reopened, every job stays on its first pass.
LEMMA JobPass ==
  ASSUME TypeOK, JobStep, reopenings' = reopenings, NEW k \in Jobs, FirstPass(k)
  PROVE  FirstPass(k)'
<1>0. /\ reopenings \in Nat /\ \A j \in Jobs : CleanUp(j).state = "none" /\ CleanUp(j).job = j
      /\ NoWorker \notin Workers
  BY WorkerAssumption DEF TypeOK, CleanUp
<1>1. CASE \E w \in Workers : TurnStep(w) \/ MakeStep(w) \/ UndoStep(w)
  <2>1. RowsStay /\ UNCHANGED <<reviews, errands>>
    BY <1>1 DEF TurnStep, MakeStep, UndoStep
  <2>2. QED
    BY <2>1, SamePass DEF RowsStay, RowStays
<1>2. CASE ClockStep
  BY <1>2, SamePass DEF ClockStep, RowsStay, RowStays
<1>3. ASSUME NEW w \in Workers, NEW j \in Jobs, FailStep(w, j)
      PROVE  FirstPass(k)'
  <2>1. CASE k # j
    BY <1>3, <2>1, SamePass DEF FailStep, Elsewhere
  <2>2. CASE k = j
    <3>1. reviews[k] = <<>> /\ job[k].state # "COMPLETED"
      BY <1>0, <1>3, <2>2 DEF FailStep, FirstPass
    <3>2. job'[k].state # "COMPLETED" /\ UNCHANGED <<reviews, errands>>
      BY <1>3, <2>2, <3>1 DEF FailStep
    <3>3. QED
      BY <3>1, <3>2 DEF FirstPass
  <2>3. QED
    BY <2>1, <2>2
<1>4. ASSUME NEW w \in Workers, NEW j \in Jobs, TakeStep(w, j)
      PROVE  FirstPass(k)'
  <2>1. CASE k # j
    BY <1>4, <2>1, SamePass DEF TakeStep, Elsewhere
  <2>2. CASE k = j
    <3>1. reviews[k] = <<>> /\ job'[k].state # "COMPLETED" /\ UNCHANGED <<reviews, errands>>
      BY <1>4, <2>2, WorkingStates DEF TakeStep, FirstPass
    <3>2. QED
      BY <3>1 DEF FirstPass
  <2>3. QED
    BY <2>1, <2>2
<1>5. ASSUME NEW w \in Workers, NEW j \in Jobs, NEW next \in States, CommitStep(w, j, next)
      PROVE  FirstPass(k)'
  <2>1. CASE k # j
    <3>1. reviews \in [Jobs -> Seq(Review)]
      BY DEF TypeOK
    <3>2. reviews'[k] = reviews[k] /\ job'[k] = job[k] /\ errands' = errands
      BY <1>5, <2>1, <3>1 DEF CommitStep, Elsewhere
    <3>3. QED
      BY <3>2, SamePass
  <2>2. QED
    BY <1>5, <2>1, CommitPass
<1>6. ASSUME NEW j \in Jobs, OperateStep(j)
      PROVE  FirstPass(k)'
  <2>1. CASE k # j
    BY <1>6, <2>1, SamePass DEF OperateStep, Elsewhere
  <2>2. CASE k = j
    <3>1. job'[k].state = "CANCELLED" /\ job'[k].owner = NoWorker /\ UNCHANGED <<reviews, errands>>
      BY <1>0, <1>6, <2>2 DEF OperateStep
    <3>2. /\ job'[k].state \notin Working /\ job'[k].state # "COMPLETED"
          /\ reviews'[k] = reviews[k] /\ \A e \in errands' : e \in errands
      BY <3>1, WorkingStates
    <3>3. QED
      BY <3>1, <3>2 DEF FirstPass
  <2>3. QED
    BY <2>1, <2>2
<1>7. ASSUME NEW j \in Jobs, NEW i \in DOMAIN reviews[j], ReviewMove(j, i)
      PROVE  FirstPass(k)'
  <2>1. CASE k # j
    <3>1. /\ reviews'[k] = reviews[k]
          /\ job'[k].state = job[k].state /\ job'[k].owner = job[k].owner
      BY <1>7, <2>1 DEF ReviewMove, Rewrites, RowsStay, RowStays, Elsewhere
    <3>2. \A e \in errands' : e \in errands \/ e.job # k
      BY <1>0, <1>7, <2>1 DEF ReviewMove
    <3>3. QED
      BY <3>1, <3>2, SamePass
  <2>2. QED
    BY <1>7, <2>1, ReviewPass
<1>8. ASSUME NEW e \in errands, WriteStep(e) PROVE FirstPass(k)'
  <2>1. e.job \in Jobs /\ e.state \in {"CANCELLED", "DRAFTED", "none"}
    BY JobTypes
  <2>2. \A f \in errands' : f \in errands \/ f.state = "none"
    BY <1>0, <1>8, <2>1 DEF WriteStep
  <2>3. CASE k # e.job
    BY <1>8, <2>2, <2>3, SamePass DEF WriteStep, Elsewhere
  <2>4. CASE k = e.job
    <3>1. reviews[k] # <<>> /\ job'[k].state = "CANCELLED" /\ job'[k].owner = job[k].owner
      BY <1>8, <2>1, <2>4 DEF WriteStep, FirstPass
    <3>2. reviews'[k] = reviews[k]
      BY <1>8 DEF WriteStep
    <3>3. QED
      BY <2>2, <3>1, <3>2, ParkedPass, WorkingStates
  <2>5. QED
    BY <2>3, <2>4
<1>9. ASSUME NEW e \in errands, ClearStep(e) \/ DropStep(e) PROVE FirstPass(k)'
  <2>1. RowsStay /\ errands' \subseteq errands /\ UNCHANGED reviews
    BY <1>9 DEF ClearStep, DropStep
  <2>2. QED
    BY <2>1, SamePass DEF RowsStay, RowStays
<1>10. QED
  BY <1>1, <1>2, <1>3, <1>4, <1>5, <1>6, <1>7, <1>8, <1>9 DEF JobStep

LEMMA NextPass ==
  ASSUME TypeOK, PassInv, [Next]_vars
  PROVE  PassInv'
<1>1. /\ reopenings \in Nat /\ MaxReopenings \in Nat /\ reopenings <= MaxReopenings
      /\ reopenings' = reopenings \/ reopenings' = reopenings - 1
  BY BoundSteps, BoundAssumption DEF TypeOK, PassInv
<1>2. reopenings' <= MaxReopenings
  BY <1>1
<1>3. ASSUME reopenings' = MaxReopenings, NEW k \in Jobs PROVE FirstPass(k)'
  <2>1. reopenings' = reopenings /\ FirstPass(k)
    BY <1>1, <1>3 DEF PassInv
  <2>2. QED
    BY <2>1, JobSteps, JobPass
<1>4. QED
  BY <1>2, <1>3 DEF PassInv

LEMMA InitPass == Init => PassInv
<1> SUFFICES ASSUME Init PROVE PassInv
  OBVIOUS
<1>1. reopenings <= MaxReopenings
  BY BoundAssumption DEF Init
<1>2. ASSUME NEW j \in Jobs
      PROVE  reviews[j] = <<>> /\ job[j].state = "RECEIVED" /\ errands = {}
  BY DEF Init
<1>3. \A j \in Jobs : FirstPass(j)
  BY <1>2 DEF FirstPass
<1>4. QED
  BY <1>1, <1>3 DEF PassInv

LEMMA KeepsCompleted ==
  ASSUME TypeOK, PassInv, [Next]_vars, NEW k \in Jobs,
         job[k].state = "COMPLETED", reopenings = MaxReopenings
  PROVE  job'[k].state = "COMPLETED"
<1>1. /\ reviews[k] # <<>> /\ reviews[k][1].status = "APPROVED" /\ job[k].owner = NoWorker
      /\ reviews[k] \in Seq(Review) /\ Len(reviews[k]) <= 1
      /\ \A e \in errands : e.job = k => e.state \notin {"CANCELLED", "DRAFTED"}
  BY JobTypes DEF PassInv, FirstPass
<1>2. \A i \in DOMAIN reviews[k] : reviews[k][i].status = "APPROVED"
  BY <1>1
<1>3. CASE \E w \in Workers : TurnStep(w) \/ MakeStep(w) \/ UndoStep(w)
  BY <1>3 DEF TurnStep, MakeStep, UndoStep, RowsStay, RowStays
<1>4. CASE ClockStep
  BY <1>4 DEF ClockStep, RowsStay, RowStays
<1>5. ASSUME NEW w \in Workers, NEW j \in Jobs,
             FailStep(w, j) \/ TakeStep(w, j) \/ \E next \in States : CommitStep(w, j, next)
      PROVE  job'[k].state = "COMPLETED"
  <2>1. j # k
    BY <1>1, <1>5, WorkerAssumption, WorkingStates DEF FailStep, TakeStep, CommitStep
  <2>2. QED
    BY <1>5, <2>1 DEF FailStep, TakeStep, CommitStep, Elsewhere
<1>6. ASSUME NEW j \in Jobs, OperateStep(j) PROVE job'[k].state = "COMPLETED"
  BY <1>6 DEF OperateStep, Elsewhere
<1>7. ASSUME NEW j \in Jobs, NEW i \in DOMAIN reviews[j], ReviewMove(j, i)
      PROVE  job'[k].state = "COMPLETED"
  <2>1. j # k
    BY <1>2, <1>7 DEF ReviewMove
  <2>2. QED
    BY <1>7, <2>1 DEF ReviewMove, RowsStay, RowStays, Elsewhere
<1>8. ASSUME NEW e \in errands, WriteStep(e) \/ ClearStep(e) \/ DropStep(e)
      PROVE  job'[k].state = "COMPLETED"
  <2>1. e.state \in {"CANCELLED", "DRAFTED", "none"}
    BY JobTypes
  <2>2. QED
    BY <1>1, <1>8, <2>1 DEF WriteStep, ClearStep, DropStep, RowsStay, RowStays, Elsewhere
<1>9. JobStep
  BY JobSteps
<1>10. QED
  BY <1>3, <1>4, <1>5, <1>6, <1>7, <1>8, <1>9 DEF JobStep

\* CompletedIsFinal: a completed job stays completed until some job is retried
\* or sent back for changes (decide, finalizePublication, and the updates of
\* ingest_jobs that name neither state, lease nor version).
THEOREM CompletionStands == Spec => CompletedIsFinal
<1>1. TypeOK /\ PassInv /\ [Next]_vars =>
        [\A j \in Jobs : job[j].state = "COMPLETED" /\ reopenings = MaxReopenings
                           => job'[j].state = "COMPLETED"]_vars
  BY KeepsCompleted
<1>2. TypeOK /\ PassInv /\ [Next]_vars => PassInv'
  BY NextPass
<1>3. QED
  BY <1>1, <1>2, InitPass, TypeCorrect, PTL DEF Spec, CompletedIsFinal

-----------------------------------------------------------------------------
(* Drafts.  A draft branch has one keeper at most: the worker that makes it or *)
(* undoes it, the stages it is under way in, the review it waits for, or the   *)
(* request that clears it away.  A keeper hands the branch on or lets go of    *)
(* it; only the exclusive creation of the branch makes a keeper out of         *)
(* nothing, and a branch that has one is not created.                          *)

Undecided(r) == r.own /\ r.status \in {"PENDING", "CHANGES_REQUESTED"}

Drafters(j) == {w \in Workers : work[w].at \in {"drafting", "cleaning"} /\ work[w].job = j}
UnderWay(j) == {k \in {j} : job[k].state \in {"DRAFTED", "VALIDATING"}}
Waiting(j) == {i \in DOMAIN reviews[j] : Undecided(reviews[j][i])}
Clearing(j) == {e \in errands : e.job = j /\ e.cleanup}

\* Of the workers, stages, reviews and requests of a job, one at most.
Alone(D, S, R, E) ==
  LET keepers == {<<"worker", d>> : d \in D} \cup {<<"stage", s>> : s \in S}
                   \cup {<<"review", r>> : r \in R} \cup {<<"request", e>> : e \in E}
  IN  \A x, y \in keepers : x = y

Kept(j) ==
  /\ Alone(Drafters(j), UnderWay(j), Waiting(j), Clearing(j))
  /\ j \notin branch =>
       Drafters(j) = {} /\ UnderWay(j) = {} /\ Waiting(j) = {} /\ Clearing(j) = {}

Unasked(j) == \A i \in DOMAIN reviews[j] : ~reviews[j][i].asked

\* A request that sends a job back to be drafted had asked for changes.
SentBackWasAsked == \A e \in errands : e.state = "DRAFTED" => ~Unasked(e.job)

DraftInv ==
  /\ SentBackWasAsked
  /\ "lost" \notin struck => \A j \in Jobs : Unasked(j) => Kept(j)

\* Who is alone excludes everyone else.
LEMMA AloneExcludes ==
  ASSUME NEW D, NEW S, NEW R, NEW E, Alone(D, S, R, E)
  PROVE  /\ \A d \in D : D = {d} /\ S = {} /\ R = {} /\ E = {}
         /\ \A s \in S : D = {} /\ S = {s} /\ R = {} /\ E = {}
         /\ \A r \in R : D = {} /\ S = {} /\ R = {r} /\ E = {}
         /\ \A e \in E : D = {} /\ S = {} /\ R = {} /\ E = {e}
<1>1. "worker" # "stage" /\ "worker" # "review" /\ "worker" # "request"
      /\ "stage" # "review" /\ "stage" # "request" /\ "review" # "request"
  OBVIOUS
<1>2. \A d1, d2 \in D : d1 = d2
  <2>1. \A d1, d2 \in D : <<"worker", d1>> = <<"worker", d2>>
    BY DEF Alone
  <2>2. QED
    BY <2>1
<1>3. \A s1, s2 \in S : s1 = s2
  <2>1. \A s1, s2 \in S : <<"stage", s1>> = <<"stage", s2>>
    BY DEF Alone
  <2>2. QED
    BY <2>1
<1>4. \A r1, r2 \in R : r1 = r2
  <2>1. \A r1, r2 \in R : <<"review", r1>> = <<"review", r2>>
    BY DEF Alone
  <2>2. QED
    BY <2>1
<1>5. \A e1, e2 \in E : e1 = e2
  <2>1. \A e1, e2 \in E : <<"request", e1>> = <<"request", e2>>
    BY DEF Alone
  <2>2. QED
    BY <2>1
<1>6. \A d \in D, s \in S : FALSE
  <2>1. \A d \in D, s \in S : <<"worker", d>> = <<"stage", s>>
    BY DEF Alone
  <2>2. QED
    BY <1>1, <2>1
<1>7. \A d \in D, r \in R : FALSE
  <2>1. \A d \in D, r \in R : <<"worker", d>> = <<"review", r>>
    BY DEF Alone
  <2>2. QED
    BY <1>1, <2>1
<1>8. \A d \in D, e \in E : FALSE
  <2>1. \A d \in D, e \in E : <<"worker", d>> = <<"request", e>>
    BY DEF Alone
  <2>2. QED
    BY <1>1, <2>1
<1>9. \A s \in S, r \in R : FALSE
  <2>1. \A s \in S, r \in R : <<"stage", s>> = <<"review", r>>
    BY DEF Alone
  <2>2. QED
    BY <1>1, <2>1
<1>10. \A s \in S, e \in E : FALSE
  <2>1. \A s \in S, e \in E : <<"stage", s>> = <<"request", e>>
    BY DEF Alone
  <2>2. QED
    BY <1>1, <2>1
<1>11. \A r \in R, e \in E : FALSE
  <2>1. \A r \in R, e \in E : <<"review", r>> = <<"request", e>>
    BY DEF Alone
  <2>2. QED
    BY <1>1, <2>1
<1>12. QED
  BY <1>2, <1>3, <1>4, <1>5, <1>6, <1>7, <1>8, <1>9, <1>10, <1>11

\* Of those who are alone, fewer are.
LEMMA FewerAreAlone ==
  ASSUME NEW D, NEW S, NEW R, NEW E, Alone(D, S, R, E),
         NEW d \in SUBSET D, NEW s \in SUBSET S, NEW r \in SUBSET R, NEW e \in SUBSET E
  PROVE  Alone(d, s, r, e)
BY DEF Alone

\* One keeper is alone.
LEMMA OneIsAlone ==
  ASSUME NEW x
  PROVE  /\ \A D \in SUBSET {x} : Alone(D, {}, {}, {})
         /\ \A S \in SUBSET {x} : Alone({}, S, {}, {})
         /\ \A R \in SUBSET {x} : Alone({}, {}, R, {})
         /\ \A E \in SUBSET {x} : Alone({}, {}, {}, E)
BY DEF Alone

\* A draft is kept if its keepers only get fewer.
LEMMA KeptFewer ==
  ASSUME NEW j \in Jobs, Kept(j),
         Drafters(j)' \subseteq Drafters(j), UnderWay(j)' \subseteq UnderWay(j),
         Waiting(j)' \subseteq Waiting(j), Clearing(j)' \subseteq Clearing(j),
         j \in branch => j \in branch'
  PROVE  Kept(j)'
<1>1. Alone(Drafters(j)', UnderWay(j)', Waiting(j)', Clearing(j)')
  BY FewerAreAlone DEF Kept
<1>2. j \notin branch' =>
        Drafters(j)' = {} /\ UnderWay(j)' = {} /\ Waiting(j)' = {} /\ Clearing(j)' = {}
  BY DEF Kept
<1>3. QED
  BY <1>1, <1>2 DEF Kept

\* It is kept if one keeper is left, of one kind, and its branch exists.
LEMMA KeptByOne ==
  ASSUME NEW j \in Jobs, NEW x, j \in branch',
         \/ Drafters(j)' \subseteq {x} /\ UnderWay(j)' = {} /\ Waiting(j)' = {} /\ Clearing(j)' = {}
         \/ Drafters(j)' = {} /\ UnderWay(j)' \subseteq {x} /\ Waiting(j)' = {} /\ Clearing(j)' = {}
         \/ Drafters(j)' = {} /\ UnderWay(j)' = {} /\ Waiting(j)' \subseteq {x} /\ Clearing(j)' = {}
         \/ Drafters(j)' = {} /\ UnderWay(j)' = {} /\ Waiting(j)' = {} /\ Clearing(j)' \subseteq {x}
  PROVE  Kept(j)'
<1>1. Alone(Drafters(j)', UnderWay(j)', Waiting(j)', Clearing(j)')
  BY OneIsAlone
<1>2. QED
  BY <1>1 DEF Kept

\* It is kept if nobody keeps it.
LEMMA KeptByNone ==
  ASSUME NEW j \in Jobs,
         Drafters(j)' = {}, UnderWay(j)' = {}, Waiting(j)' = {}, Clearing(j)' = {}
  PROVE  Kept(j)'
<1>1. Alone({}, {}, {}, {})
  BY OneIsAlone
<1>2. QED
  BY <1>1 DEF Kept

\* Who keeps a draft that is kept is its only keeper, and its branch exists.
LEMMA SoleKeeper ==
  ASSUME NEW j \in Jobs, Kept(j)
  PROVE  /\ \A d \in Drafters(j) : /\ Drafters(j) = {d} /\ UnderWay(j) = {} /\ Waiting(j) = {}
                                   /\ Clearing(j) = {} /\ j \in branch
         /\ \A s \in UnderWay(j) : /\ Drafters(j) = {} /\ UnderWay(j) = {s} /\ Waiting(j) = {}
                                   /\ Clearing(j) = {} /\ j \in branch
         /\ \A r \in Waiting(j) : /\ Drafters(j) = {} /\ UnderWay(j) = {} /\ Waiting(j) = {r}
                                  /\ Clearing(j) = {} /\ j \in branch
         /\ \A e \in Clearing(j) : /\ Drafters(j) = {} /\ UnderWay(j) = {} /\ Waiting(j) = {}
                                   /\ Clearing(j) = {e} /\ j \in branch
<1>1. Alone(Drafters(j), UnderWay(j), Waiting(j), Clearing(j))
  BY DEF Kept
<1>2. QED
  BY <1>1, AloneExcludes DEF Kept

\* Keepers that a step leaves as they are.
LEMMA SameKeepers ==
  ASSUME NEW j \in Jobs
  PROVE  /\ job'[j].state = job[j].state => UnderWay(j)' = UnderWay(j)
         /\ job'[j].state \notin {"DRAFTED", "VALIDATING"} => UnderWay(j)' = {}
         /\ reviews'[j] = reviews[j] => Waiting(j)' = Waiting(j)
         /\ errands' \subseteq errands => Clearing(j)' \subseteq Clearing(j)
         /\ work' = work => Drafters(j)' = Drafters(j)
         /\ \A w \in Workers : OthersWork(w) =>
              Drafters(j)' \subseteq Drafters(j) \cup {w}
         /\ \A w \in Workers :
              OthersWork(w) /\ ~(work'[w].at \in {"drafting", "cleaning"} /\ work'[w].job = j) =>
                Drafters(j)' \subseteq Drafters(j) \ {w}
<1>1. job'[j].state = job[j].state => UnderWay(j)' = UnderWay(j)
  BY DEF UnderWay
<1>2. job'[j].state \notin {"DRAFTED", "VALIDATING"} => UnderWay(j)' = {}
  BY DEF UnderWay
<1>3. reviews'[j] = reviews[j] => Waiting(j)' = Waiting(j)
  BY DEF Waiting, Undecided
<1>4. errands' \subseteq errands => Clearing(j)' \subseteq Clearing(j)
  BY DEF Clearing
<1>5. work' = work => Drafters(j)' = Drafters(j)
  BY DEF Drafters
<1>6. ASSUME NEW w \in Workers, OthersWork(w)
      PROVE  /\ Drafters(j)' \subseteq Drafters(j) \cup {w}
             /\ ~(work'[w].at \in {"drafting", "cleaning"} /\ work'[w].job = j) =>
                  Drafters(j)' \subseteq Drafters(j) \ {w}
  BY <1>6 DEF Drafters, OthersWork
<1>7. QED
  BY <1>1, <1>2, <1>3, <1>4, <1>5, <1>6

\* What workers do to a draft without a commit.
LEMMA WorkersKeep ==
  ASSUME NEW w \in Workers, NEW k \in Jobs, Kept(k),
         TurnStep(w) \/ MakeStep(w) \/ UndoStep(w)
  PROVE  Kept(k)'
<1>1. /\ UnderWay(k)' = UnderWay(k) /\ Waiting(k)' = Waiting(k)
      /\ Clearing(k)' \subseteq Clearing(k) /\ OthersWork(w)
  BY SameKeepers DEF TurnStep, MakeStep, UndoStep, RowsStay, RowStays
<1>2. CASE TurnStep(w)
  <2>1. Drafters(k)' \subseteq Drafters(k)
    BY <1>2 DEF TurnStep, Drafters, OthersWork, Idles, Continues
  <2>2. QED
    BY <1>1, <1>2, <2>1, KeptFewer DEF TurnStep
<1>3. CASE MakeStep(w) /\ work[w].job = k
  <2>1. k \notin branch /\ k \in branch'
    BY <1>3 DEF MakeStep
  <2>2. Drafters(k)' \subseteq {w} /\ UnderWay(k)' = {} /\ Waiting(k)' = {} /\ Clearing(k)' = {}
    BY <1>1, <2>1, SameKeepers DEF Kept
  <2>3. QED
    BY <2>1, <2>2, KeptByOne
<1>4. CASE MakeStep(w) /\ work[w].job # k
  <2>1. Drafters(k)' \subseteq Drafters(k) /\ (k \in branch => k \in branch')
    BY <1>1, <1>4, SameKeepers DEF MakeStep, Continues
  <2>2. QED
    BY <1>1, <2>1, KeptFewer
<1>5. CASE UndoStep(w) /\ work[w].job = k
  <2>1. w \in Drafters(k)
    BY <1>5 DEF UndoStep, Drafters
  <2>2. Drafters(k) = {w} /\ UnderWay(k) = {} /\ Waiting(k) = {} /\ Clearing(k) = {}
    BY <2>1, SoleKeeper
  <2>3. Drafters(k)' \subseteq Drafters(k) \ {w}
    BY <1>1, <1>5, SameKeepers DEF UndoStep, Continues
  <2>4. QED
    BY <1>1, <2>2, <2>3, KeptByNone
<1>6. CASE UndoStep(w) /\ work[w].job # k
  <2>1. Drafters(k)' \subseteq Drafters(k) /\ (k \in branch => k \in branch')
    BY <1>1, <1>6, SameKeepers DEF UndoStep, Continues
  <2>2. QED
    BY <1>1, <2>1, KeptFewer
<1>7. QED
  BY <1>2, <1>3, <1>4, <1>5, <1>6

\* A commit hands the draft on: to its stages, and from them to a review.
LEMMA CommitKeeps ==
  ASSUME TypeOK, NEW w \in Workers, NEW j \in Jobs, NEW next, CommitStep(w, j, next),
         "lost" \notin struck', NEW k \in Jobs, Kept(k)
  PROVE  Kept(k)'
<1>1. /\ OthersWork(w) /\ Idles(w) /\ UNCHANGED <<errands, branch>>
      /\ work[w].job = j /\ job[j].state = work[w].state /\ job'[j].state = next
      /\ Elsewhere(j) /\ reviews \in [Jobs -> Seq(Review)]
  BY DEF CommitStep, TypeOK
<1>2. Drafters(k)' \subseteq Drafters(k) \ {w} /\ Clearing(k)' \subseteq Clearing(k)
  BY <1>1, SameKeepers DEF Idles
<1>3. CASE k # j
  <2>1. reviews'[k] = reviews[k] /\ job'[k] = job[k]
    BY <1>1, <1>3 DEF CommitStep, Elsewhere
  <2>2. QED
    BY <1>1, <1>2, <2>1, SameKeepers, KeptFewer
<1>4. CASE k = j /\ next = "REVIEW_REQUIRED"
  <2>1. job[k].state = "VALIDATING"
    BY <1>1, <1>4 DEF CommitStep, Stages
  <2>2. k \in UnderWay(k)
    BY <2>1 DEF UnderWay
  <2>3. Drafters(k) = {} /\ Waiting(k) = {} /\ Clearing(k) = {} /\ k \in branch
    BY <2>2, SoleKeeper
  <2>4. PICK o : o = Opened
    OBVIOUS
  <2>5. reviews'[k] = Append(reviews[k], o)
    BY <1>1, <1>4, <2>4 DEF CommitStep
  <2>6. Waiting(k)' \subseteq Waiting(k) \cup {Len(reviews[k]) + 1}
    BY <1>1, <2>5 DEF Waiting, Undecided
  <2>7. UnderWay(k)' = {}
    BY <1>1, <1>4, SameKeepers
  <2>8. QED
    BY <1>1, <1>2, <2>3, <2>6, <2>7, KeptByOne
<1>5. CASE k = j /\ next # "REVIEW_REQUIRED" /\ work[w].at = "drafting"
  <2>1. w \in Drafters(k)
    BY <1>1, <1>5 DEF Drafters
  <2>2. Drafters(k) = {w} /\ Waiting(k) = {} /\ Clearing(k) = {} /\ k \in branch
    BY <2>1, SoleKeeper
  <2>3. Waiting(k)' = Waiting(k)
    BY <1>5, SameKeepers DEF CommitStep
  <2>4. UnderWay(k)' \subseteq {k}
    BY DEF UnderWay
  <2>5. QED
    BY <1>1, <1>2, <2>2, <2>3, <2>4, KeptByOne
<1>6. CASE k = j /\ next # "REVIEW_REQUIRED" /\ work[w].at = "claimed"
  <2>1. Waiting(k)' = Waiting(k)
    BY <1>6, SameKeepers DEF CommitStep
  <2>2. next \notin {"DRAFTED", "VALIDATING"} \/ (next = "VALIDATING" /\ job[k].state = "DRAFTED")
    BY <1>1, <1>6 DEF CommitStep, Stages
  <2>3. UnderWay(k)' \subseteq UnderWay(k)
    BY <1>1, <1>6, <2>2 DEF UnderWay
  <2>4. QED
    BY <1>1, <1>2, <2>1, <2>3, KeptFewer
<1>7. QED
  BY <1>3, <1>4, <1>5, <1>6 DEF CommitStep

\* What asks for nothing: no review has been, and none is now.
LEMMA AskedOnce ==
  ASSUME TypeOK, JobStep, NEW k \in Jobs, Unasked(k)'
  PROVE  Unasked(k)
<1>1. reviews \in [Jobs -> Seq(Review)]
  BY DEF TypeOK
<1>2. ASSUME DOMAIN reviews[k] \subseteq DOMAIN reviews'[k],
             \A i \in DOMAIN reviews[k] : reviews[k][i].asked => reviews'[k][i].asked
      PROVE  Unasked(k)
  BY <1>2 DEF Unasked
<1>3. CASE reviews'[k] = reviews[k]
  BY <1>2, <1>3
<1>4. ASSUME NEW w \in Workers, NEW j \in Jobs, NEW next \in States, CommitStep(w, j, next)
      PROVE  Unasked(k)
  <2>1. PICK o : o = Opened
    OBVIOUS
  <2>2. reviews'[k] \in {reviews[k], Append(reviews[k], o)}
    BY <1>1, <1>4, <2>1 DEF CommitStep
  <2>3. CASE reviews'[k] = Append(reviews[k], o)
    <3>1. /\ DOMAIN reviews[k] \subseteq DOMAIN reviews'[k]
          /\ \A i \in DOMAIN reviews[k] : reviews'[k][i] = reviews[k][i]
      BY <1>1, <2>3
    <3>2. QED
      BY <1>2, <3>1
  <2>4. QED
    BY <1>3, <2>2, <2>3
<1>5. ASSUME NEW j \in Jobs, NEW i \in DOMAIN reviews[j], ReviewMove(j, i)
      PROVE  Unasked(k)
  <2>1. PICK r \in Review : Rewrites(j, i, r) /\ (reviews[j][i].asked => r.asked)
    BY <1>5 DEF ReviewMove
  <2>2. CASE k # j
    BY <1>3, <2>1, <2>2 DEF Rewrites
  <2>3. CASE k = j
    BY <1>2, <2>1, <2>3 DEF Rewrites
  <2>4. QED
    BY <2>2, <2>3
<1>6. QED
  BY <1>3, <1>4, <1>5 DEF JobStep, TurnStep, MakeStep, UndoStep, FailStep, TakeStep, ClockStep,
       OperateStep, WriteStep, ClearStep, DropStep

\* A decision ends the review and leaves its draft to a request, or keeps it.
LEMMA ReviewKeeps ==
  ASSUME TypeOK, NEW j \in Jobs, NEW i \in DOMAIN reviews[j], ReviewMove(j, i),
         NEW k \in Jobs, Kept(k), Unasked(k)'
  PROVE  Kept(k)'
<1>1. Drafters(k)' = Drafters(k) /\ UNCHANGED branch
  BY SameKeepers DEF ReviewMove
<1>2. CleanUp(j).job = j /\ CleanUp(j).cleanup
  BY DEF CleanUp
<1>3. CASE k # j
  <2>1. /\ reviews'[k] = reviews[k] /\ job'[k].state = job[k].state
        /\ \A e \in errands' : e \in errands \/ e.job # k
    BY <1>2, <1>3 DEF ReviewMove, Rewrites, RowsStay, RowStays, Elsewhere
  <2>2. Clearing(k)' \subseteq Clearing(k)
    BY <2>1 DEF Clearing
  <2>3. QED
    BY <1>1, <2>1, <2>2, SameKeepers, KeptFewer
<1>4. CASE k = j
  <2>1. PICK r \in Review :
          /\ reviews[j][i].status \in {"PENDING", "CHANGES_REQUESTED"}
          /\ Rewrites(j, i, r)
          /\ \/ r.asked
             \/ /\ r.status = "REJECTED" /\ RowsStay
                /\ \E e \in Errand : /\ e.job = j /\ e.state = "CANCELLED"
                                     /\ e.cleanup = reviews[j][i].own
                                     /\ errands' = errands \cup {e}
             \/ /\ r.status = "APPROVED" /\ job'[j].state = "COMPLETED"
                /\ errands' = errands \cup IF reviews[j][i].own THEN {CleanUp(j)} ELSE {}
             \/ r.own = reviews[j][i].own /\ errands' = errands /\ RowsStay
             \/ reviews[j][i].own /\ ~r.own /\ errands' = errands \cup {CleanUp(j)} /\ RowsStay
    BY DEF ReviewMove
  <2>2. i \in DOMAIN reviews'[j] /\ reviews'[j][i] = r /\ DOMAIN reviews'[j] = DOMAIN reviews[j]
        /\ \A n \in DOMAIN reviews[j] : n # i => reviews'[j][n] = reviews[j][n]
    BY <2>1 DEF Rewrites
  <2>3. ~r.asked
    BY <1>4, <2>2 DEF Unasked
  <2>4. UnderWay(k)' \subseteq UnderWay(k)
    BY <1>4, <2>1, <2>3, SameKeepers DEF RowsStay, RowStays
  <2>5. CASE reviews[j][i].own /\ ~Undecided(r)
             /\ \E e : e.job = j /\ errands' = errands \cup {e}
    <3>1. PICK e : e.job = j /\ errands' = errands \cup {e}
      BY <2>5
    <3>2. i \in Waiting(k)
      BY <1>4, <2>1, <2>5 DEF Waiting, Undecided
    <3>3. /\ Drafters(k) = {} /\ UnderWay(k) = {} /\ Waiting(k) = {i} /\ Clearing(k) = {}
          /\ k \in branch
      BY <3>2, SoleKeeper
    <3>4. Waiting(k)' \subseteq Waiting(k) \ {i}
      BY <1>4, <2>2, <2>5 DEF Waiting
    <3>5. Clearing(k)' \subseteq Clearing(k) \cup {e}
      BY <3>1 DEF Clearing
    <3>6. QED
      BY <1>1, <2>4, <3>3, <3>4, <3>5, KeptByOne
  <2>6. CASE (Undecided(r) => Undecided(reviews[j][i])) /\ \A e \in errands' : e \in errands \/ ~e.cleanup
    <3>1. Waiting(k)' \subseteq Waiting(k)
      BY <1>4, <2>2, <2>6 DEF Waiting
    <3>2. Clearing(k)' \subseteq Clearing(k)
      BY <2>6 DEF Clearing
    <3>3. QED
      BY <1>1, <2>4, <3>1, <3>2, KeptFewer
  <2>7. CASE r.status = "REJECTED"
             /\ \E e \in Errand : /\ e.job = j /\ e.state = "CANCELLED"
                                  /\ e.cleanup = reviews[j][i].own
                                  /\ errands' = errands \cup {e}
    <3>1. ~Undecided(r)
      BY <2>7 DEF Undecided
    <3>2. CASE reviews[j][i].own
      BY <2>5, <2>7, <3>1, <3>2
    <3>3. CASE ~reviews[j][i].own
      BY <2>6, <2>7, <3>1, <3>3
    <3>4. QED
      BY <3>2, <3>3
  <2>8. CASE r.status = "APPROVED"
             /\ errands' = errands \cup IF reviews[j][i].own THEN {CleanUp(j)} ELSE {}
    <3>1. ~Undecided(r)
      BY <2>8 DEF Undecided
    <3>2. CASE reviews[j][i].own
      BY <1>2, <2>5, <2>8, <3>1, <3>2
    <3>3. CASE ~reviews[j][i].own
      BY <2>6, <2>8, <3>1, <3>3
    <3>4. QED
      BY <3>2, <3>3
  <2>9. CASE r.own = reviews[j][i].own /\ errands' = errands
    <3>1. Undecided(r) => Undecided(reviews[j][i])
      BY <2>1, <2>9 DEF Undecided
    <3>2. QED
      BY <2>6, <2>9, <3>1
  <2>10. CASE reviews[j][i].own /\ ~r.own /\ errands' = errands \cup {CleanUp(j)}
    <3>1. ~Undecided(r)
      BY <2>10 DEF Undecided
    <3>2. QED
      BY <1>2, <2>5, <2>10, <3>1
  <2>11. QED
    BY <2>1, <2>3, <2>7, <2>8, <2>9, <2>10
<1>5. QED
  BY <1>3, <1>4

\* A request passes the draft on to its own cleanup, which ends it.
LEMMA RequestKeeps ==
  ASSUME TypeOK, SentBackWasAsked, NEW e \in errands, WriteStep(e) \/ ClearStep(e) \/ DropStep(e),
         NEW k \in Jobs, Kept(k), Unasked(k)
  PROVE  Kept(k)'
<1>1. /\ Drafters(k)' = Drafters(k) /\ Waiting(k)' = Waiting(k)
      /\ e.job \in Jobs /\ e.state \in {"CANCELLED", "DRAFTED", "none"}
  BY SameKeepers, JobTypes DEF WriteStep, ClearStep, DropStep
<1>2. CleanUp(e.job).job = e.job /\ CleanUp(e.job).cleanup
  BY DEF CleanUp
<1>3. CASE e.job # k
  <2>1. job'[k].state = job[k].state /\ (k \in branch => k \in branch')
    BY <1>3 DEF WriteStep, ClearStep, DropStep, Elsewhere, RowsStay, RowStays
  <2>2. Clearing(k)' \subseteq Clearing(k)
    BY <1>2, <1>3 DEF WriteStep, ClearStep, DropStep, Clearing
  <2>3. QED
    BY <1>1, <2>1, <2>2, SameKeepers, KeptFewer
<1>4. CASE e.job = k /\ WriteStep(e)
  <2>1. e.state = "CANCELLED" /\ job'[k].state = "CANCELLED"
    BY <1>1, <1>4 DEF WriteStep, SentBackWasAsked
  <2>2. UnderWay(k)' = {} /\ UNCHANGED branch
    BY <1>4, <2>1, SameKeepers DEF WriteStep
  <2>3. CASE e.cleanup
    <3>1. e \in Clearing(k)
      BY <1>4, <2>3 DEF Clearing
    <3>2. Drafters(k) = {} /\ Waiting(k) = {} /\ Clearing(k) = {e} /\ k \in branch
      BY <3>1, SoleKeeper
    <3>3. Clearing(k)' \subseteq (Clearing(k) \ {e}) \cup {CleanUp(k)}
      BY <1>4 DEF WriteStep, Clearing
    <3>4. QED
      BY <1>1, <2>2, <3>2, <3>3, KeptByOne
  <2>4. CASE ~e.cleanup
    <3>1. errands' \subseteq errands
      BY <1>4, <2>4 DEF WriteStep
    <3>2. QED
      BY <1>1, <2>2, <3>1, SameKeepers, KeptFewer
  <2>5. QED
    BY <2>3, <2>4
<1>5. CASE e.job = k /\ ClearStep(e)
  <2>1. e \in Clearing(k)
    BY <1>2, <1>5 DEF ClearStep, Clearing
  <2>2. Drafters(k) = {} /\ UnderWay(k) = {} /\ Waiting(k) = {} /\ Clearing(k) = {e}
    BY <2>1, SoleKeeper
  <2>3. Clearing(k)' \subseteq Clearing(k) \ {e}
    BY <1>5 DEF ClearStep, Clearing
  <2>4. UnderWay(k)' = UnderWay(k)
    BY <1>5, SameKeepers DEF ClearStep, RowsStay, RowStays
  <2>5. QED
    BY <1>1, <2>2, <2>3, <2>4, KeptByNone
<1>6. CASE DropStep(e)
  BY <1>1, <1>6, SameKeepers, KeptFewer DEF DropStep, RowsStay, RowStays
<1>7. QED
  BY <1>3, <1>4, <1>5, <1>6

LEMMA JobKeeps ==
  ASSUME TypeOK, JobStep, SentBackWasAsked, "lost" \notin struck', NEW k \in Jobs, Kept(k),
         Unasked(k), Unasked(k)'
  PROVE  Kept(k)'
<1>1. ASSUME NEW w \in Workers, NEW j \in Jobs, FailStep(w, j) \/ TakeStep(w, j)
      PROVE  Kept(k)'
  <2>1. /\ OthersWork(w) /\ ~(work'[w].at \in {"drafting", "cleaning"})
        /\ UNCHANGED <<reviews, errands, branch>>
        /\ \/ job'[k].state = job[k].state
           \/ job'[k].state = "FAILED"
    BY <1>1 DEF FailStep, TakeStep, Elsewhere, Idles
  <2>2. UnderWay(k)' \subseteq UnderWay(k)
    BY <2>1, SameKeepers
  <2>3. QED
    BY <2>1, <2>2, SameKeepers, KeptFewer
<1>2. CASE ClockStep
  BY <1>2, SameKeepers, KeptFewer DEF ClockStep, RowsStay, RowStays
<1>3. ASSUME NEW j \in Jobs, OperateStep(j)
      PROVE  Kept(k)'
  <2>1. job'[k].state = job[k].state \/ job'[k].state \in {"CANCELLED", "RECEIVED"}
    BY <1>3 DEF OperateStep, Elsewhere
  <2>2. UnderWay(k)' \subseteq UnderWay(k)
    BY <2>1, SameKeepers
  <2>3. QED
    BY <1>3, <2>2, SameKeepers, KeptFewer DEF OperateStep
<1>4. QED
  BY <1>1, <1>2, <1>3, WorkersKeep, CommitKeeps, ReviewKeeps, RequestKeeps DEF JobStep

\* Only a reviewer who asks for changes sends a job back.
LEMMA NextAsked ==
  ASSUME TypeOK, JobStep, SentBackWasAsked
  PROVE  SentBackWasAsked'
<1> SUFFICES ASSUME NEW f \in errands', f.state = "DRAFTED", Unasked(f.job)' PROVE FALSE
  BY DEF SentBackWasAsked
<1>1. ASSUME f \in errands PROVE FALSE
  <2>1. f.job \in Jobs /\ ~Unasked(f.job)
    BY <1>1, JobTypes DEF SentBackWasAsked
  <2>2. QED
    BY <2>1, AskedOnce
<1>2. \A j \in Jobs : CleanUp(j).state = "none"
  BY DEF CleanUp
<1>3. ASSUME NEW j \in Jobs, NEW i \in DOMAIN reviews[j], ReviewMove(j, i)
      PROVE  f \in errands
  <2>1. PICK r \in Review :
          /\ Rewrites(j, i, r)
          /\ \/ r.asked /\ \E e \in Errand : e.job = j /\ errands' = errands \cup {e}
             \/ \A e \in errands' : e \in errands \/ e.state \in {"CANCELLED", "none"}
    <3>1. PICK r \in Review :
            /\ Rewrites(j, i, r)
            /\ \/ r.asked /\ \E e \in Errand : /\ e.job = j /\ e.state = "DRAFTED"
                                               /\ e.cleanup = FALSE
                                               /\ errands' = errands \cup {e}
               \/ \E e \in Errand : /\ e.job = j /\ e.state = "CANCELLED"
                                    /\ e.cleanup = reviews[j][i].own
                                    /\ errands' = errands \cup {e}
               \/ errands' = errands \cup IF reviews[j][i].own THEN {CleanUp(j)} ELSE {}
               \/ errands' = errands
               \/ errands' = errands \cup {CleanUp(j)}
      BY <1>3 DEF ReviewMove
    <3>2. QED
      BY <1>2, <3>1
  <2>2. CASE r.asked /\ \E e \in Errand : e.job = j /\ errands' = errands \cup {e}
    <3>1. reviews'[j][i].asked /\ i \in DOMAIN reviews'[j]
      BY <2>1, <2>2 DEF Rewrites
    <3>2. ~Unasked(j)'
      BY <3>1 DEF Unasked
    <3>3. QED
      BY <2>2, <3>2
  <2>3. QED
    BY <2>1, <2>2
<1>4. ASSUME NEW e \in errands, WriteStep(e) \/ ClearStep(e) \/ DropStep(e)
      PROVE  f \in errands
  <2>1. e.job \in Jobs
    BY JobTypes
  <2>2. QED
    BY <1>2, <1>4, <2>1 DEF WriteStep, ClearStep, DropStep
<1>5. f \in errands
  <2>1. ASSUME NEW w \in Workers, TurnStep(w) \/ MakeStep(w) \/ UndoStep(w)
        PROVE  errands' = errands
    BY <2>1 DEF TurnStep, MakeStep, UndoStep
  <2>2. ASSUME NEW w \in Workers, NEW j \in Jobs,
               FailStep(w, j) \/ TakeStep(w, j) \/ \E next \in States : CommitStep(w, j, next)
        PROVE  errands' = errands
    BY <2>2 DEF FailStep, TakeStep, CommitStep
  <2>3. ASSUME NEW j \in Jobs, OperateStep(j)
        PROVE  errands' = errands
    BY <2>3 DEF OperateStep
  <2>4. ClockStep => errands' = errands
    BY DEF ClockStep
  <2>5. QED
    BY <1>3, <1>4, <2>1, <2>2, <2>3, <2>4 DEF JobStep
<1>6. QED
  BY <1>1, <1>5

LEMMA NextDraft ==
  ASSUME TypeOK, DraftInv, [Next]_vars
  PROVE  DraftInv'
<1>1. JobStep /\ struck \subseteq struck' /\ SentBackWasAsked
  BY JobSteps, BoundSteps DEF DraftInv
<1>2. SentBackWasAsked'
  BY <1>1, NextAsked
<1>3. ASSUME "lost" \notin struck', NEW k \in Jobs, Unasked(k)' PROVE Kept(k)'
  <2>1. Unasked(k)
    BY <1>1, <1>3, AskedOnce
  <2>2. Kept(k)
    BY <1>1, <1>3, <2>1 DEF DraftInv
  <2>3. QED
    BY <1>1, <1>3, <2>1, <2>2, JobKeeps
<1>4. QED
  BY <1>2, <1>3 DEF DraftInv

LEMMA InitDraft == Init => DraftInv
<1> SUFFICES ASSUME Init PROVE DraftInv
  OBVIOUS
<1>1. SentBackWasAsked
  BY DEF Init, SentBackWasAsked
<1>2. ASSUME NEW j \in Jobs PROVE Kept(j)
  <2>1. job[j].state = "RECEIVED" /\ reviews[j] = <<>>
    BY DEF Init
  <2>2. \A w \in Workers : work[w].at = "idle"
    BY DEF Init, NoClaim
  <2>3. Drafters(j) = {} /\ UnderWay(j) = {} /\ Waiting(j) = {} /\ Clearing(j) = {}
    BY <2>1, <2>2 DEF Drafters, UnderWay, Waiting, Clearing, Init
  <2>4. Alone({}, {}, {}, {})
    BY OneIsAlone
  <2>5. QED
    BY <2>3, <2>4 DEF Kept
<1>3. QED
  BY <1>1, <1>2 DEF DraftInv

\* A draft that is kept can be read, and waits for one review at most.
LEMMA KeptIsOwned ==
  ASSUME NEW j \in Jobs, Kept(j)
  PROVE  ReviewHasDraft(j) /\ IsolatedReviews(j)
<1>1. job[j].state \in {"DRAFTED", "VALIDATING"} => j \in branch
  <2>1. job[j].state \in {"DRAFTED", "VALIDATING"} => j \in UnderWay(j)
    BY DEF UnderWay
  <2>2. QED
    BY <2>1, SoleKeeper
<1>2. \A i \in DOMAIN reviews[j] : Undecided(reviews[j][i]) => Waiting(j) = {i} /\ j \in branch
  <2>1. \A i \in DOMAIN reviews[j] : Undecided(reviews[j][i]) => i \in Waiting(j)
    BY DEF Waiting
  <2>2. QED
    BY <2>1, SoleKeeper
<1>3. ReviewHasDraft(j)
  BY <1>1, <1>2 DEF ReviewHasDraft, Undecided
<1>4. \A m, n \in DOMAIN reviews[j] :
        Undecided(reviews[j][m]) /\ Undecided(reviews[j][n]) => m = n
  BY <1>2
<1>5. IsolatedReviews(j)
  BY <1>4 DEF IsolatedReviews, Undecided
<1>6. QED
  BY <1>3, <1>5

\* JobsAgree: until a reply is lost, a job that was never sent back for changes
\* has the branch its stages and its reviewers read, and at most one undecided
\* review uses it (worker.ts PLANNED, cleanupDraft, reviews.ts, ADR 0002).
THEOREM DraftsHaveOneKeeper == Spec => []JobsAgree
<1>1. DraftInv => DraftsAreOwned
  BY KeptIsOwned DEF DraftInv, DraftsAreOwned, Unasked
<1>2. TypeOK /\ DraftInv /\ [Next]_vars => DraftInv'
  BY NextDraft
<1>3. TypeOK /\ DraftInv => JobsAgree
  BY <1>1 DEF JobsAgree
<1>4. QED
  BY <1>2, <1>3, InitDraft, TypeCorrect, PTL DEF Spec
=============================================================================
