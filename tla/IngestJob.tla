------------------------------ MODULE IngestJob ------------------------------
(***************************************************************************)
(* Ingest jobs (apps/worker/src/worker.ts, ingest-transition.ts,           *)
(* packages/postgres/src/index.ts) and the API requests that write the     *)
(* same rows (apps/api/src/routes/ingest.ts and reviews.ts).               *)
(*                                                                         *)
(* A worker claims a job for one stage: it leases the row, computes, and   *)
(* commits the stage's effects with the transition, fenced by the version  *)
(* its claim wrote.  PLANNED also creates the job's draft branch in Git,   *)
(* which no transaction covers.  Operators cancel and retry jobs, and      *)
(* reviewers' decisions write back into them, without holding a lease.     *)
(*                                                                         *)
(* What a stage computes is left out: each may succeed or throw.  A        *)
(* review's approval is one action here; ReviewPublication has its steps.  *)
(***************************************************************************)
EXTENDS Naturals, Sequences, FiniteSets

CONSTANTS
  Jobs, Workers,
  NoWorker,           \* lease_owner is null
  Decisions,          \* what reviewers may decide
  MaxAttempts,        \* ingest_jobs.max_attempts
  MaxReviews,         \* bound: reviews of a job
  MaxReopenings,      \* bound: retries and requests for changes
  Faults,             \* the kinds of fault that may strike
  MaxFaults           \* bound: faults in a behaviour

\* crash: a worker dies.  stall: a lease expires under a live worker.
\* lost: a transition commits but its reply does not arrive.
\* drop: a decision request dies between its statements.
FaultKinds == {"crash", "stall", "lost", "drop"}

ASSUME WorkerAssumption == NoWorker \notin Workers
ASSUME DecisionAssumption == Decisions \subseteq {"APPROVE", "REJECT", "REQUEST_CHANGES"}
ASSUME BoundAssumption ==
  /\ MaxAttempts \in Nat \ {0} /\ MaxReviews \in Nat /\ MaxReopenings \in Nat
  /\ Faults \subseteq FaultKinds /\ MaxFaults \in Nat

\* What processJob may make of each state; a worker claims these states only.
Stages == {<<"RECEIVED", "HASHED">>, <<"HASHED", "STORED">>, <<"STORED", "NORMALIZING">>,
           <<"NORMALIZING", "ANALYZING">>, <<"ANALYZING", "NO_MATERIAL">>,
           <<"ANALYZING", "PLANNED">>, <<"PLANNED", "DRAFTED">>,
           <<"DRAFTED", "VALIDATING">>, <<"VALIDATING", "REVIEW_REQUIRED">>}
Working == {stage[1] : stage \in Stages}
States == Working \cup {"NO_MATERIAL", "REVIEW_REQUIRED", "COMPLETED", "FAILED", "CANCELLED"}

\* ingest_jobs.  due: next_attempt_at has passed.  lapsed: the lease has expired.
JobRow == [state: States, owner: Workers \cup {NoWorker}, lapsed: BOOLEAN, version: Nat,
           attempts: Nat, due: BOOLEAN, cancelled: BOOLEAN]

\* The row a worker holds in memory, as its claim returned it.
Phases == {"claimed", "asserted", "drafting", "cleaning", "failing"}
Claim == [at: Phases, job: Jobs, state: Working, version: Nat, attempts: Nat]
NoClaim == [at |-> "idle"]

\* Rows of ingest_job_events that a claim wrote.
Outcome == [version: Nat, kind: {"moved", "failed"}]

\* own: the review still uses the branch the job drafted.
\* asked: history, a reviewer has asked for changes.
Review == [status: {"PENDING", "CHANGES_REQUESTED", "REJECTED", "APPROVED"}, own: BOOLEAN,
           asked: BOOLEAN]

\* What a review request has still to do once its first statement committed.
Errand == [job: Jobs, state: {"CANCELLED", "DRAFTED", "none"}, cleanup: BOOLEAN]
CleanUp(j) == [job |-> j, state |-> "none", cleanup |-> TRUE]

VARIABLES
  job,        \* ingest_jobs
  outcomes,   \* ingest_job_events written by claims, in order
  reviews,    \* the reviews opened for each job, in order
  branch,     \* the jobs whose draft branch exists
  worktree,   \* the jobs whose draft worktree exists
  work,       \* what each worker is doing
  errands,    \* review requests in flight
  revoked,    \* history: claims taken away before they had an outcome
  reopenings, \* retries and requests for changes left
  budget,     \* faults left
  struck      \* history: the kinds of fault that have struck

gitVars == <<branch, worktree>>
bounds == <<reopenings, budget, struck>>
vars == <<job, outcomes, reviews, gitVars, work, errands, revoked, bounds>>

Init ==
  /\ job = [j \in Jobs |-> [state |-> "RECEIVED", owner |-> NoWorker, lapsed |-> FALSE,
                            version |-> 0, attempts |-> 0, due |-> TRUE, cancelled |-> FALSE]]
  /\ outcomes = [j \in Jobs |-> <<>>]
  /\ reviews = [j \in Jobs |-> <<>>]
  /\ branch = {} /\ worktree = {}
  /\ work = [w \in Workers |-> NoClaim]
  /\ errands = {}
  /\ revoked = [j \in Jobs |-> {}]
  /\ reopenings = MaxReopenings
  /\ budget = MaxFaults /\ struck = {}

Spend(kind) ==
  /\ kind \in Faults /\ budget > 0
  /\ budget' = budget - 1 /\ struck' = struck \cup {kind}
  /\ UNCHANGED reopenings
Reopen == reopenings > 0 /\ reopenings' = reopenings - 1 /\ UNCHANGED <<budget, struck>>

\* The claim that holds j, if any, is taken away.
Revoke(j) == IF job[j].owner = NoWorker THEN UNCHANGED revoked
             ELSE revoked' = [revoked EXCEPT ![j] = @ \cup {job[j].version}]

-----------------------------------------------------------------------------
(* Claims.                                                                   *)

\* Mutation: a lease is for ever.
ClaimableOnce(j) ==
  /\ job[j].state \in Working /\ ~job[j].cancelled /\ job[j].due
  /\ job[j].owner = NoWorker

Claimable(j) ==
  /\ job[j].state \in Working
  /\ ~job[j].cancelled
  /\ job[j].due
  /\ job[j].owner = NoWorker \/ job[j].lapsed

claimNextIngestJob(w, j) ==
  /\ work[w].at = "idle"
  /\ Claimable(j)
  /\ job' = [job EXCEPT ![j].owner = w, ![j].lapsed = FALSE, ![j].version = @ + 1]
  /\ work' = [work EXCEPT ![w] = [at |-> "claimed", job |-> j, state |-> job[j].state,
                                  version |-> job[j].version + 1,
                                  attempts |-> job[j].attempts]]
  /\ Revoke(j)
  /\ UNCHANGED <<outcomes, reviews, gitVars, errands, bounds>>

\* Mutation: only a cancellation stops a worker.
OwnsUntilCancelled(w) == ~job[work[w].job].cancelled

\* The fence of every statement a worker runs on the row.
OwnsLease(w) ==
  LET row == job[work[w].job]
  IN  row.owner = w /\ row.version = work[w].version /\ ~row.cancelled

\* Mutation: the transition does not ask who holds the lease.
HoldsByVersion(w) == LET row == job[work[w].job]
                     IN  /\ row.state = work[w].state /\ ~row.cancelled
                         /\ row.version = work[w].version

\* The fence of the transition looks at the state too.
Holds(w) == OwnsLease(w) /\ job[work[w].job].state = work[w].state

\* startLeaseHeartbeat: a beat that finds the lease lost changes nothing.
heartbeat(w) ==
  /\ work[w].at # "idle"
  /\ OwnsLease(w)
  /\ job[work[w].job].lapsed
  /\ job' = [job EXCEPT ![work[w].job].lapsed = FALSE]
  /\ UNCHANGED <<outcomes, reviews, gitVars, work, errands, revoked, bounds>>

-----------------------------------------------------------------------------
(* Stages.  A stage ends in its transition, or in handleFailure.             *)

MoveTo(w, at) == work' = [work EXCEPT ![w].at = at]
Record(w, kind) ==
  outcomes' = [outcomes EXCEPT ![work[w].job] =
                 Append(@, [version |-> work[w].version, kind |-> kind])]

\* The commit of transitionClaimedIngestJob.  VALIDATING opens the review.
Commit(w, next) ==
  LET j == work[w].job
  IN  /\ job' = [job EXCEPT ![j].state = next, ![j].owner = NoWorker, ![j].lapsed = FALSE]
      /\ Record(w, "moved")
      /\ IF next = "REVIEW_REQUIRED"
         THEN /\ Len(reviews[j]) < MaxReviews
              /\ reviews' = [reviews EXCEPT ![j] =
                               Append(@, [status |-> "PENDING", own |-> TRUE, asked |-> FALSE])]
         ELSE UNCHANGED reviews
      /\ UNCHANGED <<gitVars, errands, revoked>>

\* It commits and the stage is done, it commits and the worker sees an error,
\* or it finds JOB_LEASE_LOST_OR_CANCELLED; an error leads to the catch branch.
transitionClaimedIngestJob(w, next, catch) ==
  \/ Holds(w) /\ Commit(w, next) /\ work' = [work EXCEPT ![w] = NoClaim] /\ UNCHANGED bounds
  \/ Holds(w) /\ Commit(w, next) /\ MoveTo(w, catch) /\ Spend("lost")
  \/ /\ ~Holds(w)
     /\ MoveTo(w, catch)
     /\ UNCHANGED <<job, outcomes, reviews, gitVars, errands, revoked, bounds>>

\* Every stage but PLANNED: compute, then move on.
processStage(w) ==
  /\ work[w].at = "claimed"
  /\ work[w].state # "PLANNED"
  /\ \E stage \in Stages :
       stage[1] = work[w].state /\ transitionClaimedIngestJob(w, stage[2], "failing")

\* A stage's own work throws; so may ensureRepository and the draft's files.
stageThrows(w) ==
  /\ \/ work[w].at \in {"claimed", "asserted"} /\ MoveTo(w, "failing")
     \/ work[w].at = "drafting" /\ MoveTo(w, "cleaning")
  /\ UNCHANGED <<job, outcomes, reviews, gitVars, errands, revoked, bounds>>

assertClaimedIngestJob(w) ==
  /\ work[w].at = "claimed"
  /\ work[w].state = "PLANNED"
  /\ MoveTo(w, IF Holds(w) THEN "asserted" ELSE "failing")
  /\ UNCHANGED <<job, outcomes, reviews, gitVars, errands, revoked, bounds>>

\* Mutation: git worktree add -B.
createDraftBranchAnew(w) ==
  /\ work[w].at = "asserted"
  /\ worktree' = worktree \cup {work[w].job}
  /\ branch' = branch \cup {work[w].job}
  /\ MoveTo(w, "drafting")
  /\ UNCHANGED <<job, outcomes, reviews, errands, revoked, bounds>>

\* git worktree add -b, after clearing the worktree's path.  A branch left
\* behind makes it throw, before there is anything to compensate.
createDraftBranch(w) ==
  /\ work[w].at = "asserted"
  /\ IF work[w].job \in branch
     THEN worktree' = worktree \ {work[w].job} /\ MoveTo(w, "failing") /\ UNCHANGED branch
     ELSE /\ worktree' = worktree \cup {work[w].job}
          /\ branch' = branch \cup {work[w].job}
          /\ MoveTo(w, "drafting")
  /\ UNCHANGED <<job, outcomes, reviews, errands, revoked, bounds>>

\* commitAll needs the worktree; then the transition.
commitDraft(w) ==
  /\ work[w].at = "drafting"
  /\ work[w].job \in worktree
  /\ transitionClaimedIngestJob(w, "DRAFTED", "cleaning")

\* The catch branch of PLANNED; a cleanup that throws leaves the draft behind.
cleanupDraft(w) ==
  /\ work[w].at = "cleaning"
  /\ MoveTo(w, "failing")
  /\ \/ worktree' = worktree \ {work[w].job} /\ branch' = branch \ {work[w].job}
     \/ UNCHANGED gitVars
  /\ UNCHANGED <<job, outcomes, reviews, errands, revoked, bounds>>

\* Mutation: failures do not count.
handleFailureUncounted(w) ==
  /\ work[w].at = "failing"
  /\ IF OwnsLease(w)
     THEN /\ job' = [job EXCEPT ![work[w].job].due = FALSE, ![work[w].job].owner = NoWorker,
                                ![work[w].job].lapsed = FALSE]
          /\ Record(w, "failed")
     ELSE UNCHANGED <<job, outcomes>>
  /\ work' = [work EXCEPT ![w] = NoClaim]
  /\ UNCHANGED <<reviews, gitVars, errands, revoked, bounds>>

\* The row read at the claim decides what the failure writes.
handleFailure(w) ==
  /\ work[w].at = "failing"
  /\ LET j == work[w].job
         attempts == work[w].attempts + 1
     IN  IF OwnsLease(w)
         THEN /\ job' = [job EXCEPT ![j].state = IF attempts >= MaxAttempts THEN "FAILED" ELSE @,
                                    ![j].attempts = attempts, ![j].due = FALSE,
                                    ![j].owner = NoWorker, ![j].lapsed = FALSE]
              /\ Record(w, "failed")
         ELSE UNCHANGED <<job, outcomes>>
  /\ work' = [work EXCEPT ![w] = NoClaim]
  /\ UNCHANGED <<reviews, gitVars, errands, revoked, bounds>>

Crash(w) ==
  /\ work[w].at # "idle"
  /\ Spend("crash")
  /\ work' = [work EXCEPT ![w] = NoClaim]
  /\ UNCHANGED <<job, outcomes, reviews, gitVars, errands, revoked>>

-----------------------------------------------------------------------------
(* Operators, reviewers and the clock.                                       *)

cancel(j) ==
  /\ job[j].state \notin {"COMPLETED", "CANCELLED"}
  /\ job' = [job EXCEPT ![j].state = "CANCELLED", ![j].cancelled = TRUE,
                        ![j].owner = NoWorker, ![j].lapsed = FALSE]
  /\ Revoke(j)
  /\ UNCHANGED <<outcomes, reviews, gitVars, work, errands, bounds>>

\* Attempts, stage outputs and the draft branch stay as they are.
retry(j) ==
  /\ job[j].state \in {"FAILED", "CANCELLED"}
  /\ Reopen
  /\ job' = [job EXCEPT ![j].state = "RECEIVED", ![j].due = TRUE, ![j].cancelled = FALSE,
                        ![j].owner = NoWorker, ![j].lapsed = FALSE]
  /\ Revoke(j)
  /\ UNCHANGED <<outcomes, reviews, gitVars, work, errands>>

Decide(j, i, status) ==
  /\ reviews[j][i].status \in {"PENDING", "CHANGES_REQUESTED"}
  /\ reviews' = [reviews EXCEPT ![j][i].status = status,
                                ![j][i].asked = @ \/ status = "CHANGES_REQUESTED"]

\* A decision's first statement; the job is written by a later one.
requestChanges(j, i) ==
  /\ "REQUEST_CHANGES" \in Decisions
  /\ Reopen
  /\ Decide(j, i, "CHANGES_REQUESTED")
  /\ errands' = errands \cup {[job |-> j, state |-> "DRAFTED", cleanup |-> FALSE]}
  /\ UNCHANGED <<job, outcomes, gitVars, work, revoked>>

reject(j, i) ==
  /\ "REJECT" \in Decisions
  /\ Decide(j, i, "REJECTED")
  /\ errands' = errands \cup 
               {[job |-> j, state |-> "CANCELLED", cleanup |-> reviews[j][i].own]}
  /\ UNCHANGED <<job, outcomes, gitVars, work, revoked, bounds>>

\* The update names neither state, lease nor version.  A rejection goes on to
\* clean up the draft.
writeDecision(errand) ==
  /\ errand.state # "none"
  /\ job' = [job EXCEPT ![errand.job].state = errand.state]
  /\ errands' = (errands \ {errand}) \cup IF errand.cleanup THEN {CleanUp(errand.job)} ELSE {}
  /\ UNCHANGED <<outcomes, reviews, gitVars, work, revoked, bounds>>

cleanupReviewed(errand) ==
  /\ errand = CleanUp(errand.job)
  /\ \/ worktree' = worktree \ {errand.job} /\ branch' = branch \ {errand.job}
     \/ UNCHANGED gitVars
  /\ errands' = errands \ {errand}
  /\ UNCHANGED <<job, outcomes, reviews, work, revoked, bounds>>

RequestDies(errand) ==
  /\ Spend("drop")
  /\ errands' = errands \ {errand}
  /\ UNCHANGED <<job, outcomes, reviews, gitVars, work, revoked>>

\* The finalizing transaction of a publication, which writes review and job.
finalizePublication(j, i) ==
  /\ "APPROVE" \in Decisions
  /\ reviews[j][i].status = "PENDING"
  /\ reviews[j][i].own => j \in branch
  /\ reviews' = [reviews EXCEPT ![j][i].status = "APPROVED"]
  /\ job' = [job EXCEPT ![j].state = "COMPLETED"]
  /\ errands' = errands \cup IF reviews[j][i].own THEN {CleanUp(j)} ELSE {}
  /\ UNCHANGED <<outcomes, gitVars, work, revoked, bounds>>

\* A publication that was compensated leaves the job alone.
compensatePublication(j, i) ==
  /\ "APPROVE" \in Decisions
  /\ reviews[j][i].status = "PENDING"
  /\ reviews' = [reviews EXCEPT ![j][i].status = "CHANGES_REQUESTED"]
  /\ UNCHANGED <<job, outcomes, gitVars, work, errands, revoked, bounds>>

\* The author answers feedback: the review moves to a branch of its own, and
\* the one it leaves is cleaned up.
revise(j, i) ==
  /\ reviews[j][i].status = "CHANGES_REQUESTED"
  /\ reviews[j][i].own
  /\ reviews' = [reviews EXCEPT ![j][i].own = FALSE]
  /\ errands' = errands \cup {CleanUp(j)}
  /\ UNCHANGED <<job, outcomes, gitVars, work, revoked, bounds>>

submit(j, i) ==
  /\ reviews[j][i].status = "CHANGES_REQUESTED"
  /\ reviews' = [reviews EXCEPT ![j][i].status = "PENDING"]
  /\ UNCHANGED <<job, outcomes, gitVars, work, errands, revoked, bounds>>

\* A crashed worker's lease runs out; a live worker's heartbeat must stall.
LeaseLapses(j) ==
  /\ job[j].owner # NoWorker /\ ~job[j].lapsed
  /\ job' = [job EXCEPT ![j].lapsed = TRUE]
  /\ IF \E w \in Workers : work[w].at # "idle" /\ work[w].job = j /\ OwnsLease(w)
     THEN Spend("stall")
     ELSE UNCHANGED bounds
  /\ UNCHANGED <<outcomes, reviews, gitVars, work, errands, revoked>>

\* The clock, or the ExtractionRequested handler, ends a backoff.
BackoffElapses(j) ==
  /\ ~job[j].due
  /\ job' = [job EXCEPT ![j].due = TRUE]
  /\ UNCHANGED <<outcomes, reviews, gitVars, work, errands, revoked, bounds>>

StageStep(w) ==
  \/ processStage(w) \/ stageThrows(w) \/ assertClaimedIngestJob(w) \/ createDraftBranch(w)
  \/ commitDraft(w) \/ cleanupDraft(w) \/ handleFailure(w)

ReviewStep(j) ==
  \E i \in DOMAIN reviews[j] :
    requestChanges(j, i) \/ reject(j, i) \/ finalizePublication(j, i)
    \/ compensatePublication(j, i) \/ revise(j, i) \/ submit(j, i)

Next ==
  \/ \E w \in Workers : StageStep(w) \/ heartbeat(w) \/ Crash(w)
  \/ \E w \in Workers, j \in Jobs : claimNextIngestJob(w, j)
  \/ \E j \in Jobs : cancel(j) \/ retry(j) \/ ReviewStep(j) \/ LeaseLapses(j) \/ BackoffElapses(j)
  \/ \E errand \in errands : writeDecision(errand) \/ cleanupReviewed(errand) \/ RequestDies(errand)

Spec == Init /\ [][Next]_vars

\* Workers loop, stages return or throw, and leases and backoffs run out.
FairSpec ==
  /\ Spec
  /\ \A w \in Workers : WF_vars(StageStep(w))
  /\ \A j \in Jobs : WF_vars(\E w \in Workers : claimNextIngestJob(w, j))
  /\ \A j \in Jobs : WF_vars(LeaseLapses(j)) /\ WF_vars(BackoffElapses(j))

-----------------------------------------------------------------------------
(* Properties.                                                               *)

TypeOK ==
  /\ job \in [Jobs -> JobRow]
  /\ outcomes \in [Jobs -> Seq(Outcome)]
  /\ reviews \in [Jobs -> Seq(Review)]
  /\ branch \subseteq Jobs /\ worktree \subseteq Jobs
  /\ work \in [Workers -> Claim \cup {NoClaim}]
  /\ errands \subseteq Errand
  /\ revoked \in [Jobs -> SUBSET Nat]
  /\ reopenings \in Nat /\ budget \in Nat /\ struck \subseteq FaultKinds

\* A claim has one outcome at most, and none after it was taken away: neither
\* a cancellation, a retry nor another worker's claim is ever overrun by a
\* worker that stalled, lost a reply or missed all of it.
OneOutcomePerClaim ==
  \A j \in Jobs :
    /\ \A m, n \in DOMAIN outcomes[j] :
         m < n => outcomes[j][m].version < outcomes[j][n].version
    /\ \A n \in DOMAIN outcomes[j] : outcomes[j][n].version \notin revoked[j]

\* No failure is forgotten or counted twice, though handleFailure computes the
\* new count from the row its claim read: the count is the failures journalled.
FailuresCounted ==
  \A j \in Jobs :
    Cardinality({n \in DOMAIN outcomes[j] : outcomes[j][n].kind = "failed"}) = job[j].attempts

\* What waits for a reviewer can be read and published: a draft under way and
\* a pending review have their branch (worker.ts PLANNED, cleanupDraft).
ReviewHasDraft(j) ==
  /\ job[j].state \in {"DRAFTED", "VALIDATING"} => j \in branch
  /\ \A i \in DOMAIN reviews[j] :
       reviews[j][i].status = "PENDING" /\ reviews[j][i].own => j \in branch

\* A draft branch belongs to one undecided review (ADR 0002), however often its
\* job is cancelled, retried or reclaimed.
IsolatedReviews(j) ==
  \A m, n \in DOMAIN reviews[j] :
    /\ reviews[j][m].own /\ reviews[j][m].status \in {"PENDING", "CHANGES_REQUESTED"}
    /\ reviews[j][n].own /\ reviews[j][n].status \in {"PENDING", "CHANGES_REQUESTED"}
    => m = n

\* A draft that is under way or under review exists and is one review's alone,
\* unless a transition's reply was lost, which cleans up after a stage that had
\* succeeded, or a request for changes sent the job back to be drafted again
\* (README, section 4).
DraftsAreOwned ==
  "lost" \notin struck =>
    \A j \in Jobs : (\A i \in DOMAIN reviews[j] : ~reviews[j][i].asked)
                      => ReviewHasDraft(j) /\ IsolatedReviews(j)

\* Jobs, reviews, branches and requests agree.
JobsAgree == TypeOK /\ DraftsAreOwned

\* A completed job stays completed (transitions of packages/domain), unless it
\* was retried or sent back for changes: then its review and its worker race.
CompletedIsFinal ==
  [][\A j \in Jobs : job[j].state = "COMPLETED" /\ reopenings = MaxReopenings
                        => job'[j].state = "COMPLETED"]_vars

\* A job does not stay with the workers for ever: it reaches a reviewer or an
\* operator, or ends, whatever crashes, stalls and losses meet it.  A reviewer
\* may send a cancelled job back, where no worker will claim it (README).
IngestSettles ==
  \A j \in Jobs : job[j].state \in Working ~> job[j].state \notin Working \/ job[j].cancelled
=============================================================================
