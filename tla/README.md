# A TLA+ model of the Architecture Knowledge Platform

The platform keeps reviewed knowledge as Markdown in a managed Git repository,
its runtime state in PostgreSQL, and everything a reader queries in projections
that are rebuilt from the two. No transaction spans Git and PostgreSQL, and the
projections are maintained by workers that poll, crash and race. This directory
models the parts where that is hard to get right, checks them with TLC on small
instances, and proves what matters most with TLAPS for every instance.

## 1. The system

| Component | State it keeps | Operations | What is hard |
|---|---|---|---|
| Event outbox (`packages/postgres/src/outbox.ts`, migrations 014 and 018) | events, consumers, deliveries, attempt history, quarantine | append in the business transaction, fan-out trigger, register, claim, heartbeat, acknowledge, fail, requeue | leases and fencing, causal order, at-least-once delivery |
| Event worker (`apps/worker/src/event-worker.ts`) | the claim in hand | poll, handle, settle | lost replies, stalls, crashes |
| Review and publication (`apps/api/src/routes/reviews.ts`, `review-policy.ts`, `review-draft.ts`) | reviews, approvals, publication lock, vault revision | propose, revise, submit, decide, publish, compensate, reconcile, roll back | Git and PostgreSQL fail separately; a lock that expires |
| Managed Git (`packages/git-store/src/index.ts`) | main, its working tree and index, draft branches | draft, squash merge, revert, cleanup | two commands where one is needed |
| Event handlers and projections (`apps/worker/src/event-handlers.ts`, `packages/indexing`) | documents, sections, graph, index markers | incremental index, invalidation | events that are skipped because main moved on |
| Ingest jobs (`apps/worker/src/worker.ts`, `ingest-transition.ts`, `lifecycle.ts`) | job state, lease, version | claim, stage, transition, retry, cancel | fencing against the reviewer's direct updates of the job |
| Workspace coordination (`packages/postgres/src/workspace-coordination.ts`, `team-context-fabric.ts`) | sessions, claims with fencing tokens, journal of events, offline drafts | claim, heartbeat, release, hand off, append a fenced event, queue and apply a draft | leases judged by the time a transaction began; rows locked in two orders |
| Temporal truth (`packages/postgres/src/temporal-truth.ts`, `apps/worker/src/truth-maintenance.ts`, `apps/api/src/routes/search.ts`) | revision heads, facts and their supersessions, sources, dependencies of derived items, vectors | record, supersede, withdraw, derive, invalidate, clean up, query strictly | answers for the past; removing what is invalid only; one moment for many heads |
| Assurance runs (`packages/postgres/src/assurance.ts`, `apps/worker/src/assurance-worker.ts`) | runs with lease, token and cursor, findings, their journal | submit, claim, scan a page, keep its findings, renew, complete, fail, cancel, judge | pages of a changing query; a lease renewed between pages only |
| Source connectors (`packages/postgres/src/source-connectors.ts`) | registration, inbox, checkpoint, objects, runs asked for | append, select, apply, refuse, register, disable | order, duplicates and gaps; locks in two orders |
| Worker drain (`apps/worker/src/drain.ts`) | where its loop stands | run four queues until nothing is left or the deadline | quiescence read in four statements beside another worker |
| Embedding generations (`packages/indexing/src/embedding-index.ts`, `embedding-generation.ts`, migrations 019, 020) | generations with a status, their vectors, the marker of what is searched | request, build, repair, activate, fail | two builders without exclusion; what is searched must stay searchable |
| Decision workflow, profile governance, API idempotency | rows with versions or leases | activate, supersede, replay | not modelled yet, see section 6 |
| Federated graph, context revisions | edges, revision sets | resolve, pin | algorithms over data |
| Retrieval (but for the strict query of `search.ts`, in `TemporalTruth`), compiler, validation, evaluation, importer, extractor, clients | little or none | read, parse, render | out of scope, see section 7 |

How they interact. A proposal creates a draft branch and a review. The approval
that completes the quorum takes the publication lock, records `PUBLISHING`,
merges the draft onto main and, in one transaction, records `APPROVED` and
appends a causal chain of events to the outbox. The event worker hands the
chain to the handlers, which rebuild the projections of the new revision. The
ingest worker produces reviews from sources through the same drafts; decisions
on those reviews write back into the ingest job. A revision of the truth that
withdraws or supersedes something appends an event whose handlers recompute
what rested on it and remove its vectors; a query compares the heads before and
after. An applied connector event asks for an assurance run in its own
transaction. The drain takes turns on the four queues: events, connector
events, assurance runs, ingest jobs.

The hazards, each with its line, are in `PROJECT.json`.

## 2. Modules

* `Outbox` is the outbox and its worker. Its variables are the tables
  (`stage` for `event_outbox`, `registered` for `event_consumers`, `delivery`,
  `history`, `quarantine`), what each worker is doing (`job`), and a history
  variable (`completed`). A registration is two steps, as its transaction is two
  READ COMMITTED statements: `registering` has the events its backfill reads,
  and the consumer and its rows become visible at the commit, between which
  events are inserted and commit unseen. Actions have the names of the functions they model;
  the actions of a worker are the steps of `runOnce`, and an acknowledgement
  whose reply is lost is an action of its own. Timestamps become the flags
  `due` and `lapsed`, which flip at any moment.
* `DeliveryContract` says what the outbox promises without leases, attempts or
  workers: an offered delivery is completed or given up, never before its
  cause, and given up is left only by reopening.
* `OutboxContract` maps the outbox to it: `PENDING`, `CLAIMED` and `RETRY` are
  one abstract state, and a delivery exists once its event has committed.
* `OutboxProofs` holds the theorems about the outbox.
* `ReviewPublication` is review, publication and managed Git. Every request
  (approve, roll back, reconcile) is a process in `req` whose phases are the
  awaits of its handler: one action per transaction and per Git command. Its
  `catch` and `finally` branches are actions too (`compensateGit`,
  `compensateReview`, `requireRecovery`, `releaseLock`; `reviseThrows` is the one of
  a revision, which deletes the new branch whatever failed). Git is a sequence of
  commits, each the set of drafts in effect, an index, and the draft branches.
* `IngestJob` is the ingest pipeline. Its variables are the rows of
  `ingest_jobs` (`job`), the journal entries that claims wrote (`outcomes`), the
  reviews opened for each job, its draft branch and worktree in Git, what each
  worker holds in memory (`work`: the row as its claim returned it), the review
  requests between their first statement and their last (`errands`), and the
  claims that were taken away (`revoked`, history). A stage is a claim, its
  work, and a fenced transition; `PLANNED` is several steps, as it writes Git.
  A review's approval is one action here, the whole of it in
  `ReviewPublication`.
* `IngestJobProofs` holds the theorems about ingest jobs.
* `Projection` is what `CorpusRevisionPublished` sets in motion. A revision is
  the position of a commit on main. The steps of a worker are the statements
  and transactions of `rebuildPublishedCorpus` and `indexManagedIncrement`, in
  order, each with the documents it read before; the operator's `index.rebuild`
  is a process beside them. Publication is its three moves of main and of the
  outbox: merge, finalize with an event, compensate without one.
* `WorkspaceCoordination` is one session with its claims and one offline draft.
  A request (`work`) is a transaction of several statements: it locks the
  session and then a claim's row (`lockSession`, `claimWorkspaceWork`), or a
  claim's row and then the session (`updateClaim`, `appendCoordinationEvent`),
  and writes when it commits. The lock variables name the request that holds
  each row. `DeadlockDetected` is PostgreSQL ending one of two transactions that
  wait for each other. Every comparison with a lease uses `start`, the time the
  transaction began, as `now()` does. `workspaceScopesOverlap` is the code's
  prefix algebra on paths.
* `TemporalTruth` is one vault's facts, sources and derived items, the heads of
  the other vaults of a query, the worker and one strict query. `HeldAt(s, t)` is
  what is supported at revision `s` and valid time `t`, computed as the code's
  recursive query computes it, as the least fixed point over support groups. A
  cleanup is two steps, since it judges the items under its lock on the head and
  then deletes; a query reads each head in a step of its own.
* `AssuranceRun` is the runs, the findings and what the detectors would return
  (`wrong`), which changes at any time. A worker claims, scans a page by its
  offset, locks the run, looks at a finding, writes it, commits, renews. `wrote`
  is what an open transaction has written, `HeldKeys` and `RunFree` are the row
  locks.
* `SourceConnector` is the inbox of one connector. `lockRegistration` and
  `appendSourceConnectorEvent` are an append's two locks, `selectEvent`,
  `lockCheckpoint` and `applySourceConnectorEvent` those of an apply, including
  the one that a foreign key takes. `Refuse` is what remains of an apply that
  failed: its savepoint is undone and the attempt is counted.
* `ConnectorContract` is what the inbox promises: events are accepted once for
  each number and take effect in the order of the numbers, once, without a gap.
* `WorkerDrain` is the drain's loop. The four queues are one table `item`, whose
  rows carry a status, the time they are due, an owner and attempts; `pc` is the
  position in the loop, and each of the four summaries is a step. A second
  worker and requests change the rows between any two steps. Time is a counter.
* `EmbeddingIndex` is the vector index of one vault. The worker and an operator
  each build generations (`work`), one action per statement of
  `buildEmbeddingIndex`, of its callers `incrementalIndex` and
  `rebuildSpaceProjections`, and of the triggers behind them; the statements that
  `Projection` has one by one are one step here. The hash of a unit is the
  revision that wrote it. `Forget` clears what a builder holds and no later
  statement reads. `touched` (generations whose units changed since they were
  complete), `crossed` (a builder wrote what another had overtaken) and `struck`
  are history.
* `ReviewProofs`, `AssuranceProofs`, `WorkspaceProofs`, `TruthProofs` and
  `EmbeddingProofs` hold the theorems about them, `WorkerProofs` those about
  `WorkerDrain`, `Projection` and `SourceConnector`. The names of the first two
  carry a prefix (`DrainSpec`, `IndexSpec`), so that the three can stand in one
  module.
* The `MC...` modules give the constants values for TLC.

Operators whose comment begins with "Mutation:" are not part of the model. Each
is a mistake one could make in the operator it precedes; a run must find it.

## 3. Runs

| Run | Instance | Shows |
|---|---|---|
| `outbox_safety` | 2 workers of 1 consumer, a tree of 3 events in 2 transactions, 2 attempts, 1 requeue, 1 fault | causal order; deliveries, history and quarantine agree (`BooksAgree`) through retries, takeovers, stale workers, lost replies and a requeue; a settlement is final; only an event that is inserted before a registration commits, and commits after its backfill has read, is left without its delivery (`FanOutGap`); every step is a step of the contract, and with fair workers nothing that is due stays open for ever (`KeepsContract`) |
| `review_faults` | 2 reviews, 1 reviewer, 2 requests, 1 draft, 1 round, 1 fault: a crash, though not between squash and commit, or a transaction or Git command that throws | reviews compete for main (`RowsAndGitAgree`): `APPROVED` content is on main, content on main is decided, one draft per publication, one writer at a time, one lifecycle per publication; every `PUBLISHING` intent is settled (`IntentSettles`) |
| `review_any_fault` | 1 review, 2 reviewers, 2 requests, 2 drafts, 2 rounds, 1 fault of any of the five kinds, torn merges, late failures and expired locks included | approvals against revisions, a new round and a profile activation that lowers the quorum: an intent has its quorum (`QuorumBacksIntent`); a review is announced once, by row and lifecycle as the same merged commit (`AnnouncedAsMerged`); decisions are final |
| `ingest_job` | 2 workers, 1 job, 1 attempt, 2 reviews, 1 reopening, 1 fault, all decisions | whatever is cancelled, retried, decided, stalled or lost, no claim acts twice or after it was taken away; failures are counted exactly; a draft is owned by one undecided review and does not disappear under it (`JobsAgree`); completion is final; every job leaves the workers |
| `projection_index` | 2 documents of 1 vault, 3 publications, 1 worker, 1 disturbance | what was indexed is served and completed runs are (`IndexAgrees`), the marker advances, the head of main is served in the end |
| `workspace` | 2 overlapping work keys, 2 participants, 2 requests, 2 ticks of the clock, 1 draft | granted claims never overlap by themselves, fences are never used twice, a draft is applied once, no request waits for ever |
| `truth` | 2 facts, 2 sources, 1 item, 2 vaults, 3 revisions, 2 valid times | answers for a past revision never change, an invalidation misses nothing, a cleanup removes only what is invalid, a strict answer is of one moment |
| `assurance` | 2 workers, 2 runs of 1 detector with 2 pages, 2 attempts, 1 fault, 1 change, 1 verdict | a completed run has kept what was wrong throughout, findings agree with their journal, only the latest lease writes and never behind its cursor (`LatestLeaseWrites`), runs end |
| `connector` | 4 events with 3 numbers of 2 objects, 2 senders, 2 workers, 2 attempts, 2 faults, disabled twice | the inbox is an ordered log applied exactly once (`ImplementsContract`), at most one event is applied after a disable, the log ends at what is rejected, the next event settles |
| `drain` | 5 items of all four kinds, a gap, a job that feeds an event that feeds a run, 1 fault, deadline 2 | `QUIESCENT` leaves nothing behind but ingest jobs that failed for good, the drain neither oversleeps nor spins without cause, and it ends |
| `embedding` | 2 units of which publications edit 1, 2 revisions, 1 change of a document's status, 1 rebuild, 1 fault | what may be searched has exactly its units' vectors, one generation is searched, a consistent marker is served (`VectorsAgree`); what is searched stays searchable; a pending build has an owner |
| `review_stale_row` | 1 review, 2 requests, no fault | a counterexample to `MainIsReviewed`, see section 4 |

Bounds. Two workers suffice for a stale and a current holder, and two attempts
for a retry followed by quarantine; one requeue brings the attempt numbers back
to one, which is where history rows could collide. The constraint
`BackfillsSomething` leaves out a repeated registration that has nothing to
backfill, which changes nothing. `MaxFaults` bounds the
faults in a behaviour, never their place; a crash of a review's author is not
counted, as its drafts bound it, while a statement of its request that throws is.
Two requests are one holder of the lock and one that takes it over; two reviews
are one publication and one that competes for its base; two drafts and two
rounds are one change of each. What one review can get wrong alone needs those,
every kind of fault and two reviewers; what two get wrong together needs
neither, so the two runs divide it. Requests and reviewers are symmetric in the
first, which has no liveness. Two constraints of `review_any_fault` leave out
what its properties cannot tell apart: a profile is activated only while the
review is open, the only time its handlers read it (`ActivatedWhenRead`), and a
rollback is asked only of a review published in its first round, since nothing
after a publication reads the round (`FirstRoundRollsBack`). `IntentSettles` also holds of one review under all
five kinds of fault, with one round; the run has it where reviews compete.
Jobs share nothing but workers, which any number of claims of one job already
keeps apart, so one job is enough; `MaxReopenings` bounds operators' retries and
requests for changes, `MaxReviews` the reviews a job opens (its last transition
waits at the bound, so the run has one more than its reopenings).
`MaxDisturbances` bounds crashes, failures and rebuilds together. Three
publications are one that is served, one that is cloned over it and one that
overtakes; every publication may be compensated, which adds a commit.
In `workspace` a prefix and an exact key below it are the smallest overlap, the
lease is as long as the clock, and the prefix may be claimed and given up while
`MaxToken` lets the exact key be claimed once. In `truth` an item rests on a fact
that rests on another or on a source, which is a chain through a fact and an
alternative; three revisions are a fact, one that builds on it, and what takes
the first away. The constraint `QueriesApart` keeps the strict query, which reads
heads only, from being multiplied with everything that is recorded and derived:
it runs while heads move in either vault and sources are withdrawn, with nothing
recorded. In `assurance` one finding per page makes an offset shift by a page.
In `connector` the events are an object that is written and deleted, another
one, and an impostor with a number already used; two faults exhaust the attempts
of an event. In `embedding` one unit is edited and one is copied from revision to
revision, which a build treats differently; the event of the first revision is still
open, so that an overtaken one is acknowledged and a builder may be late for it.
In `drain` the deadline is two ticks, one retry and one lease; a run
has a single attempt, so that an exhausted one occurs.

Deadlock is checked for the outbox only. Reviews and jobs end in final states,
jobs also wait there for a person, projections rest once everything that
`MaxPublications` allows is published, and the clocks, revisions, runs and
events of the others are used up; that requests and workers get there is
what `IntentSettles`, `IngestSettles`, `HeadIsServed`, `RequestsEnd`, `RunsEnd`,
`NextEventSettles` and `DrainEnds` check.

Fairness. `FairSpec` of `Outbox` assumes that workers poll, handlers return or
throw, and leases and backoffs elapse: `run` loops until stopped and the rest is
the clock. It does not assume heartbeats, commits, registrations or requeues.
`FairSpec` of `ReviewPublication` assumes that requests run to their reply, that
locks expire, and that the operator reconciles what stays `PUBLISHING`, which
ADR 0002 makes the operator's task. It does not assume reviews, revisions or
rollbacks. `FairSpec` of `IngestJob` assumes that the worker loops, that stages
return or throw, and that leases and backoffs run out; it assumes neither
heartbeats, operators nor reviewers. `IndexFairSpec` of `Projection` assumes that
workers poll, that their statements return, and that a merge is finalized or
compensated. `WorkspaceCoordination` assumes that a request whose lock keeps
becoming free gets it, since row locks queue, and that PostgreSQL finds
deadlocks; clients and the clock owe nothing. `AssuranceRun` assumes that workers
poll and go on, that the lease of a run nobody works on runs out, and that
backoffs do. `SourceConnector` assumes that appends end, workers poll, deadlocks
are found, backoffs run out, and, strongly, that an apply gets the registration
in its turn however many appends follow; nobody has to send or to register a
connector again. `WorkerDrain` assumes that the drain and the clock go on, and
nothing of the peer. `TemporalTruth` has no liveness: whoever derives, embeds or
asks is outside it. Neither has `EmbeddingIndex`, whose builds are finite chains of
statements: `PendingIsOwned` says instead that whatever is reported to be pending
has a builder or an event that will bring one. Faults are bounded in all of them, so fairness cannot hide an
endless crash loop and does not exclude any finite one.

What the properties exempt. `FailuresCounted` compares the row with the journal,
never with `MaxAttempts`: a retry keeps the attempts, so a retried job has one
attempt left, and the code has it so. `CompletedIsFinal` exempts a job that was
retried or sent back for changes: its worker and its open review then race, and
either may overwrite the other (drop the conjunct on `reopenings` to see it).
`DraftsAreOwned` exempts jobs that lost a reply and reviews for which changes
were asked, `IngestSettles` cancelled jobs that a reviewer sent back.
`SelectedIsWhole` exempts generations that are `touched`, as their units changed
after they were complete, until they are built again. `ConsistentIsServed` and
`SearchStays` exempt what follows `crossed`: a builder wrote a revision to keep
that was no longer searched, or moved the marker after another had. `SearchStays`
also exempts the repair of a touched generation and `markIndexRequestComplete`,
`PendingIsOwned` an operator's request that died.
`IndexedIsServed`, `CompletedIsServed`, `MarkerAdvances` and `HeadIsServed`
exempt what follows an operator's rebuild, for the reason given in section 4.
`OverlapNeedsLateRenewal` exempts claims that were prolonged after they had run
out. `InvalidatedIsAffected` and `RemovedIsInvalid` speak of the dependencies that
exist: one registered for a revision after that revision was cleaned up is judged
by queries, not by the cleanup, and what is derived again while a cleanup holds
the head may lose its vector. `CompletedKeptAll` exempts detectors that had
something put right since the run was submitted. `RunsEnd` has fewer faults than
attempts. `LoopsForWork` exempts an exhausted run under a lapsed lease.
`QuiescentLeftNothing` promises nothing about items that arrive during the
reading, nor about ingest jobs that failed for good, which the drain cannot tell
from finished ones. `RowsAndGitAgree` holds under crashes outside squash and
commit and under steps that throw, one of them at most; its run and its theorem
say so. `CompletedIsFinal` and `JobsAgree` do not speak of decisions that overrun a
worker's state, for which `OneOutcomePerClaim` keeps the fence only. The reason for each is in section 4.

## 4. Where the code and its documents disagree

This one has a run, which finds the counterexample:

* `review_stale_row`: the decision handler reads the row, then the approval and
  the claim lock and check the current row, but the merge uses the branch of
  the first read. A revision in between publishes the superseded draft.

These are reached by the models with other constants, or are what an exemption
of the runs above keeps out:

* An audit row that cannot be written after the finalizing commit
  (`reviews.ts:1709`) sends the handler into the branch that reverts Git; the
  review stays `APPROVED`, which ADR 0002 excludes. `Faults = {"late"}` in
  `MCReviewFaults.cfg` violates `ApprovedIsCanonical`, part of `RowsAndGitAgree`.
* Requesting changes on an ingest review (`reviews.ts:1934`) sends its job back
  to `DRAFTED`, which workers claim: they validate the unchanged plan and open
  a second review on the branch the first one is still being revised on. Drop
  `asked` from `DraftsAreOwned` to see it in `ingest_job`.
* An event handled after main moved on is acknowledged unseen
  (`event-handlers.ts:257`), trusting the newer commit's event. That event has
  the paths of its own publication only, may belong to another vault, or not
  exist if the newer commit was compensated. The skipped path is then indexed by
  nothing. With `Paths = {p1, p2, q1}`, `Vaults = {v1, v2}`,
  `VaultOf <- TwoVaults`, two publications and no disturbance,
  `MCProjection.cfg` violates `NothingIsLost`.
* A merge that stops between `git merge --squash` and `git commit` leaves its
  draft staged, and the next review with the same base publishes both, as Git
  takes such a fast-forward over staged paths. `Faults = {"torn"}` in
  `MCReviewFaults.cfg` violates `OneDraftPerPublication`, part of
  `RowsAndGitAgree`.
* A request that outlives its lock has a second writer beside it, and after the
  Git commit it reverts that commit while a reconciliation finalizes it.
  `Faults = {"stall"}` in `MCReviewFaults.cfg` violates `OneWriter`, and without
  that part of `RowsAndGitAgree`, `ApprovedIsCanonical`.
* A crash of one rollback followed by a failure of a second one that had read
  the row before also ends with `APPROVED` and no content, as the rollback's
  catch branch takes "I did not revert" for "nobody did". `review_faults`
  therefore allows one fault.
* A revision whose audit row cannot be written (`reviews.ts:1201`) runs the catch
  branch (`reviews.ts:1229`), which deletes the new branch although the row names
  it by then. The review can no longer be published, and an approval that
  completes its quorum ends in compensation. `reviseThrows` has it, as a
  `"late"` fault in `review_any_fault`.
* A registration leaves a gap of its own: an event inserted before it commits,
  and committed after its backfill has read, has no delivery row for the consumer
  (`outbox.ts:514-538`), and what that event causes waits for it, until the
  consumer registers again. `FanOutGap` says that there are no other gaps.
* An ingest job that uses up its attempts is `FAILED` (`worker.ts:834`), but the
  drain counts the jobs in `QUARANTINED` (`drain.ts:163`), a state no code writes,
  and `FAILED` is no work either: the drain ends `QUIESCENT`, with exit status 0,
  over a job that failed for good, where it ends with an error over a delivery, a
  connector event or an assurance run that did. The comments of `drain.ts` promise
  that work is gone and that quarantine fails closed, which this does not
  contradict, so it is no run of its own. Drop the second disjunct of `DoneWith` to see it.
* A worker that loses the reply of the transition to `DRAFTED` deletes the
  draft of a job that is `DRAFTED`. Drop the exemption of `"lost"` from
  `DraftsAreOwned` to see it.
* `index.rebuild` advertises the head of main for documents that have not been
  synchronized with it. A worker that runs into it finds the marker at its
  own revision, takes the structure for complete and settles its event without
  reading the commit. Drop `~rebuilt` from `IndexedIsServed` to see it.
* Nothing orders the markers of two workers: with two `Indexers` in
  `MCProjection.cfg`, one that checked main before it moved takes the marker back
  (`MarkerAdvances` is violated, and with it `CompletedIsServed`).
  `docker-compose.team-node.yml` deploys one.
* `now()` is the time a transaction began, so a heartbeat or handoff that waits
  for the session's row commits a renewal after the lease has run out and
  another, overlapping claim was granted. `docs/guides/coordination-plane.md`
  says that "B cannot take an overlapping compiler claim". Drop the conclusion of `OverlapNeedsLateRenewal` (read
  it as "no two live claims overlap") to see it.
* Pages of a detector are offsets into a query that is run again for each page
  (`assurance-worker.ts:2318`): a row that is put right moves those behind it to
  an earlier page, over the cursor, and the run completes without them. Drop
  `shifted` from `CompletedKeptAll` to see it.
* A run whose last attempt crashes, or loses its lease, stays `RUNNING`: no
  claim takes it and nothing fails it (`assurance.ts:192`), although
  `docs/guides/assurance-connectors.md` says that runs resume from their durable
  cursor after an interruption. `MaxAttempts = 1` in `MCAssurance.cfg` violates
  `RunsEnd`.
* The drain's summary counts such a run as claimable, and no claim takes it, so
  the drain goes round without sleeping until its deadline, although every wake-up
  is said to be derived from durable state (`drain.ts:226-230`).
  Drop the last disjunct of `LoopsForWork` to see it.
* An event selected before its connector is disabled is applied after it: nothing
  looks at the state again (`source-connectors.ts:284`), where
  `docs/guides/assurance-connectors.md` says "Revoking or disabling a connector
  prevents further trusted application of its events". One event at most
  (`AtMostOneLate`).
* An append and an apply that wait for each other cost the event an attempt when
  PostgreSQL aborts the apply; with `MaxAttempts = 1` that rejects it without any
  fault. What is rejected, like what never arrives, blocks the connector for
  good (`RejectedBlocks`): its number is neither applied nor free again.

* The handler of `VectorIndexUpdateRequested` advertises the vectors of the corpus
  revision whatever was built (`event-handlers.ts:81-106`), also after a failed
  build, whereas the indexer keeps the prior revision then (`index.ts:1106-1109`)
  and `incremental-vector-retry.test.ts` requires that it "keeps the prior vector
  revision when replacement construction fails". Search then finds no generation
  for the marker. Drop the last exemption of `SearchStays` to see it.
* "A slower build for R1 must never retire R2 after the structural marker has
  already advanced to R2" (`embedding-index.ts:144-146`). The activation compares
  its revision with the marker, but the marker is written unconditionally
  (`index.ts:841`), also by a worker or an operator that had read the head
  earlier: it goes back to R1, and then R2 is retired. Drop `crossed'` from `SearchStays` to see this and the next one.
* A worker that fails after another builder has activated a generation, or after
  it has itself (`index.ts:1094-1117`), advertises the revision it preserved,
  which is retired by then. A mark that comes late also clears the warning of a
  rebuild that is pending (drop `~crossed` from `ConsistentIsServed`).
* An operator's request that is aborted, or whose community index fails between the
  marker and the build (`projections.ts:303`), leaves `VECTOR_BUILD_PENDING` behind, which
  nothing but the next publication or rebuild removes. Drop the exemption of
  `"abort"` from `PendingIsOwned` to see it.

## 5. Proofs

`OutboxProofs` proves, for all finite or infinite sets of events, consumers,
workers and transactions and all bounds:

* `TypeCorrect`: `Spec => []TypeOK`. Inductive as it stands; one lemma per
  operator that builds a row (`ClaimType`, `RecordType`, `SettleType`...).
* `CausalDelivery`: `Spec => []CausalOrder`. That a started delivery has a
  succeeded cause is not inductive: a claim looks at the cause's row only while
  the cause is committed, so one must know that causes are written before their
  effects (`CausesComeFirst`), that rows of uncommitted events have never been
  claimed (`HiddenRowsAreFresh`), and that every row beyond `PENDING` carries a
  fencing version (`StartedRowsAreFenced`). `CausalInv` is their conjunction.
* `FinalSettlement`: `Spec => SettlementIsFinal`, from the type invariant and
  the lemma that every step changes a committed row in one of a few ways
  (`RowSteps`).
* `OutboxImplementsContract`: `Spec => ImplementsContract`. Each step changes
  the promise of one delivery at most, or offers the rows of one transaction or
  the backfill of one registration together; `CausalOrder` discharges the contract's guards.
* `BooksAreKept`: `Spec => []BooksAgree`. The journal is written by workers whose
  claims may be long gone, so one must know that what it says of a delivery is
  never ahead of the row (`PastIsBehind`: fences, generations, and the attempts of
  the present generation), that the claim a row is under is not settled in it
  (`OpenIsUnsettled`), and that a worker knows the row's numbers exactly as long as
  its fence is the row's (`ClaimsAreKnown`). A lemma says of each kind of step what
  it does to rows and journal, and the five parts follow from the kinds.
* `GapsAreOverlaps`: `Spec => FanOutGap`. A row that was written stays as long as its
  event does, and what a registration has read when it begins is committed and
  stays so until it commits (`BackfillLeavesNone`). So the trigger and the backfill
  between them miss an event only if it was inserted before the registration
  committed and committed after the backfill had read.

`IngestJobProofs` proves, for all jobs and workers, any number of reviews, faults
and reopenings:

* `TypeCorrect`: `Spec => []TypeOK`, inductive as it stands.
* `FencedOutcomes`: `Spec => []OneOutcomePerClaim`. That outcomes have growing
  versions, none of them revoked, is not inductive: an outcome is recorded under
  the version in the row, so one must know that nothing in the journal or in the
  history of revocations is younger than the row, and that a held row's version
  has neither an outcome nor a revocation (`Fenced`). The lemma `EffectKeepsFence`
  shows that four kinds of step keep this: those that leave the lease alone,
  claim it anew, release it or settle it. The lemmas `...Effect` show that every
  action of the system is of one of the four kinds for every job. Reviewers'
  write-backs are of the first: they overrun a worker's state, never its fence.
* `FailuresAreCounted`: `Spec => []FailuresCounted`. A worker writes a count it read
  at its claim. Every step that changes the count ends the claim, so as long as the
  fence fits, what the worker read is what the row has (`ClaimsCount`).
* `CompletionStands`: `Spec => CompletedIsFinal`. Before any reopening a job has one
  review at most, workers are done with it when it has one, and a completed job's
  review is approved, so that no request that would write the job is left
  (`FirstPass`).
* `DraftsHaveOneKeeper`: `Spec => []JobsAgree`. A draft branch has one keeper: the
  worker that makes or undoes it, the stage it is under way in, the undecided review,
  or the request that clears it away (`Kept`). A keeper hands the branch on or lets
  go; only its exclusive creation makes a keeper out of nothing. The two exemptions
  of `DraftsAreOwned`, a lost reply and a review for which changes were asked, are
  the two places where this fails, so the induction needs them too, and needs that
  whoever sends a job back has asked for changes (`SentBackWasAsked`).

`ReviewProofs` proves, for all finite sets of reviewers, any number of reviews,
requests, drafts and rounds, and all quorums, first what holds under every fault:

* `RowsAreTyped`: `Spec => []TypeInv`: `TypeOK`, and that every revision that a row
  or a request holds is a commit of main (`Positions`), without which the types are
  not inductive.
* `DecisionsAreFinal`: `Spec => DecisionIsFinal`, from a lemma that lists the ways a
  step may move a row.
* `IntentsRestOnQuorums`: `Spec => []QuorumBacksIntent`. The approvals counted by the
  transaction that records an intent are never taken back, and draft, round and
  policy of the row do not move until the intent is gone. That approvals only grow
  bounds their number from below because reviewers are finitely many.
* `LifecyclesAreAnnouncedOnce`: `Spec => []PublishedOnce`, with the outbox a sequence
  whose length is not bounded.
* `PublicationsNameTheirMerge`: `Spec => []AnnouncedAsMerged`. Main only grows
  (`MainOnlyGrows`), and whoever is on the way to finalize has in hand a commit that
  merged a draft of its review: it made it, or it recognised it on main
  (`WayToFinalize`, `Remembers`). So a handler whose lock ran out and the
  reconciliation beside it may race, but neither announces what was not merged.

What relates rows to Git holds under some faults only. The theorems name them, and
TLC finds each violated without (section 4):

* `MainHasOneWriter`, without `"stall"`: whoever works on main owns the lock, which has
  not expired (`LockHeld`).
* `PublicationsAreExact`, without `"stall"` and `"torn"`: the index is what main holds,
  and what is being merged, while it is (`IndexSettled`), and the subject of a commit
  tells its change (`SubjectsTell`).
* `MainHoldsDecisions`, for `"crash"` and `"fail"`, any number of them - a crash anywhere but
  between squash and commit, and a transaction or Git command that throws: content on main
  is of a decided review and is the draft that its row's commit put there
  (`Standing`), and each request in flight knows how far main is (`Duty`): an
  approve request between commit and finalization has the head in hand and nobody
  else can move its intent; a base that main has left behind is never taken for a
  merge that did not happen. `GitInv` is the conjunction.
* `RowsAgreeWithGit`: `Spec => []RowsAndGitAgree`, for the same two kinds and one
  fault at most. It claims nothing under `"torn"`, `"late"` and `"stall"`, which the code
  does not survive. `APPROVED` content is on main because a rollback that hands the row
  back has taken nothing off (`RollbackHolds`), and while no fault has struck whoever
  has taken something off answers for it (`OneFaultInv`). With two faults it is false,
  for the reason given in section 4: the bound is the code's, not the proof's.

`AssuranceProofs` proves, for all workers, runs, detectors, pages, faults and changes:

* `RecordsAreTyped`: `Spec => []TypeInv`: `TypeOK`, and what a worker has of a page at
  each place. It rests on lemmas about ranks: a page holds what has its ranks, and the
  pages up to one that is not full hold everything.
* `TakeoversUndoNothing`: `Spec => LatestLeaseWrites`. Two workers never have one lease,
  whoever has locked a run's row has its latest, and the latest works at the row's
  cursor (`LeaseOf`).
* `JournalsTellStatus`: `Spec => []FindingsAgree`. What a worker has read of a finding
  stays so until it writes, and what it wrote without an event is what the finding
  said, because it holds the row (`LockInv`).
* `CompletedRunsKeptAll`: `Spec => []CompletedKeptAll`. What a run still owes is ahead of
  its cursor (`RunAhead`) or in the hands of its latest worker: on its page, written,
  or on a page to come (`InHand`). A lease that ran out costs a page's work, never
  the debt, as the row's cursor moves with the commit. Where something was put right
  ranks fall and the offset passes over others, so those detectors are exempt.

`WorkerProofs` proves in three parts what the worker's queues are worth. Of the
drain, for all finite sets of items, any order between them, and any faults,
requests and deadlines:

* `DrainInvHolds`: `DrainSpec => []DrainInv`. The drain reads its four queues one
  after the other while a peer and requests change them, so nothing it knows is
  true of one moment, except of what has not moved since it began to read. That this
  can be told from two looks needs an order: a row only moves forward (`Onward`: to a
  later time, from a lease to pending, to an end), so one that looks as it did has
  stood still (`OnwardAntisymmetric`, `MovedStaysMoved`). `Heard` says for each
  summary read so far what it still tells of work, of times and of what is claimable,
  and each step of anybody keeps it (`HeardStays`).
* `QuiescentHolds`: `DrainSpec => []QuiescentLeftNothing`. Each summary without work
  and failures makes its queue's rows done for good, if they were there when the
  reading began; that of ingest jobs, which counts no failure, makes them done or
  failed.
* `NeverOversleepsHolds`: `DrainSpec => []NeverOversleeps`, since the times the
  summaries gave bound the sleep from above (`SleepsInTime`).
* `LoopsForWorkHolds`: `DrainSpec => LoopsForWork`: a summary that found something
  claimable names a row that a claim would take, unless it moved or is an exhausted
  run.

Of projections, for all paths and vaults and any number of publications and
disturbances, where `Started`, `Clean` and the like are said of revisions:

* `IndexTypeHolds`: `IndexSpec => []IndexTypeOK`, for any number of workers and with
  operators. It is not inductive: revisions stay in range because the merges still
  allowed leave room for a compensation each (`RoomToPublish`), and the events'
  operations agree with the commits (`EventsOfCommits`).
* `IndexAgreesHolds`: `IndexSpec => []IndexAgrees`, if the deployment has one worker
  (`OneIndexer`). `IndexInv` says what is right before the events are settled. A
  revision is clean if it was the last change of its path that anybody started to
  index, and is completed or served. Of a clean path documents and relations
  are right, and so are its units in the snapshot that is served and, where there are
  any, in later snapshots (`CleanIsServed`): the next revision clones from the one,
  and may find the other left over from a run that failed. A worker starts what it has
  found to be the head of main, and skips what is older, so nothing newer has been
  started (`NewestIsIndexed`) and nobody but it disturbs what it has seen. What it
  counts on is said phase by phase (`Progress`): before it marks, the snapshot holds
  all that is clean in its vault (`SnapshotHolds`).
* `MarkerAdvancesHolds`: `IndexSpec => MarkerAdvances`, under the same hypothesis.

The hypothesis is the deployment's (`docker-compose.team-node.yml` has one worker);
with two workers both are false, as section 4 says. After an operator's rebuild the
properties claim nothing, and neither does the proof.

Of source connectors, for all events, objects, senders and workers and any
number of faults and switches:

* `CheckpointIsTrue`: `Spec => []InboxAgrees`. That at most one event is applied
  after a disable is about an event already in a worker's hands, so one must know
  that one worker at most has an event, which is the next and pending
  (`OneAtATime`), and that nobody has one once a late one was applied
  (`LateIsOver`); that a rejected event ends the log, that statuses and the
  checkpoint agree (`CheckpointAgrees`). `InboxInv`
  is their conjunction.
* `InboxImplementsLog`: `Spec => ImplementsContract`. The guards of the contract
  need besides that rows have their events (`RowsHaveEvents`) and that no object
  is ahead of the checkpoint (`ObjectsBehind`), so that the code's "newer wins" is
  always the new one.

`WorkspaceProofs` proves, for all work keys, participants, requests and clocks:

* `DraftsApplyOnce`: `Spec => []RowsAgree`. A request that is about to apply the
  draft holds its lock and the draft is not applied (`RequestOK`), and two requests
  do not hold one lock.
* `FencesOnlyAdvance`: `Spec => FencesAdvance`. A request carries the row it is
  going to write past other requests' steps; its fence is still the row's because
  it holds the row's lock since it read it (`RequestOK`), and the journal is not
  ahead of the row (`JournalBehind`).
* `OverlapsAreLateRenewals`: `Spec => []OverlapNeedsLateRenewal`. A claim that has found
  no conflict finds none until it commits (`GrantOK`): it holds the session, and no
  grant is written without it; what the others may write to a row they hold renews
  or ends a claim that was there already. A renewal that comes late says so in the row.

`TruthProofs` proves, for all finite sets of facts and any sources, items, vaults,
supports and windows:

* `StrictAnswers`: `Spec => []StrictAnswerIsOneCut`. The snapshot lies below the
  cut and the cut below the heads (`QueryInv`); heads only advance, so one that is
  equal to the snapshot when it is read again was equal at the cut.
* `ThePastIsStable`: `Spec => PastIsStable`. New facts and withdrawals carry the
  next revision, so what is recorded, replaced and standing up to the head is the
  same set before and after; support is a function of it.
* `RemovalsAreJustified`: `Spec => RemovedIsInvalid`. While a cleanup holds the
  head nobody publishes, so its verdicts stay true of everything that is not
  derived again (`CleanupInv`).
* `InvalidationsReachAll`: `Spec => []SupportsAgree`. What is supported is a least fixed
  point over support groups, and what an invalidation affects is another, over the
  dependencies; both are computed by rounds, as many as there are facts. The proof
  shows that rounds exist (`Recursion`, `Unrolled`), that so many reach the fixed
  point (`RoundsReach`, by counting what is new), that the fixed point is the least
  closed set (`HeldReach`), and that whatever is outside the second and lost its
  support at a revision would have kept it (`LostIsReached`). The induction over
  rounds is over sets of numbers (`UpTo`), which needs no operator as a parameter.
  That every withdrawal and supersession has its event is `AskedInv`.

`EmbeddingProofs` proves, for all finite sets of units and any number of revisions,
changes, rebuilds and faults:

* `TypeCorrect`: `Spec => []TypeOK`, one lemma per group of statements.
* `SelectedVectors`: `Spec => [](SelectedIsWhole /\ OneActive)`. With the types it is
  inductive: what changes units or documents is remembered in `touched`
  (`TouchKeeps`), vectors are written for generations under construction only, and a
  status becomes selectable only for what is complete (`StatusKeeps`).
* `IndexAgrees`: `Spec => []VectorsAgree`. That a marker without a warning is served
  rests on what builders know (`ServedInv`): while one builds what the marker names
  and nobody has moved the marker under it, there is a warning; what the worker is
  about to advertise is searched; and an operator that is building and a worker that
  has activated cannot both be unaware of the other.
* `PendingIsAlwaysOwned`: `Spec => []PendingIsOwned`. While a build is reported pending,
  the operator is at a place from which it ends with a mark of its own (`Settles`), or
  the event of main's head is open and the worker is not yet past the mark that it
  would make for it (`EventBrings`).
* `SearchNeverStops`: `Spec => SearchStays`. What the worker preserves is searched
  unless it was overtaken (`KeptIsSearched`), and a builder stales what it found only
  if the units it saw are not the generation's (`FoundIsWhole`). The second
  needs `touched` to remember that a unit changed after a builder looked at a
  generation that was complete already: `markReady` takes a generation out of it only
  with the step from `BUILDING` to `READY`.

The assumptions are those the modules name: causes, transactions and consumers
are functions into their sets, the null values are not members, the fault kinds
and decisions are the known ones, `MaxAttempts` is positive, facts are finitely many and not
sources, reviewers, units and a drain's items are finitely many, the two builders differ, events have numbers and
objects, the home vault is not another one, nobody (`none`) is neither a claimant nor a verdict, and the operator is
not a worker. `OneIndexer` is a hypothesis of two theorems only, and named there.

Only model-checked is liveness. Liveness (`KeepsContract`,
`IntentSettles`, `IngestSettles`, `HeadIsServed`, `RequestsEnd`, `RunsEnd`,
`NextEventSettles`, `DrainEnds`) cannot be stated to the prover; what the theorems say
of `KeepsContract` is its safety part, `ImplementsContract`. `MainIsReviewed` is false,
and its run shows it. Every other property that a run checks is a theorem;
`RowsAndGitAgree` is one under the faults its run has, `IndexAgrees` and
`MarkerAdvances` are with the one worker that theirs has.

## 6. Plan

1. `Projection` with several workers: what the marker would have to compare for
   `MarkerAdvances` to hold, and the operator's rebuild with the check of the head
   that it lacks.
2. `Idempotency`, `DecisionWorkflow`, `ProfileActivation`:
   each guards a resource by a version or a lease.
3. One abstract specification of a fenced resource, implemented by the outbox,
   ingest jobs, assurance runs and claims, so that the shared argument is stated
   once.
4. `Projection` extended by context packets and their invalidation; its abstract specification is a served revision that advances
   along main.
5. The edge resolution of the federated graph as operators against a reference
   definition.

## 7. What is not modelled

Consumers that are disabled (`event_consumers.enabled`, which claims and the trigger
look at and no code clears), the legacy policy of a review without a pinned one
(`review-policy.ts:197`), and the moment at which a rejected review's branch is
cleaned up, after which nothing asks for it. Row locks of `for update skip locked` (an empty poll is retried), the order in
which claims pick rows, heartbeat intervals, wording of errors, audit rows and
Error Book entries. Reviews touch disjoint paths, so that a revert conflicts
only when its changes are no longer in effect. Draft branches do not move once
committed. A stage of an ingest job may succeed or throw; its data, the provider
task journal and the reuse of stage outputs are left out. A publication of
`Projection` changes one path; the vector channel is in `EmbeddingIndex`; renames,
identity conflicts, communities, context packets, the marks of downstream staleness, and the vault
revision in the composite revision are left out. Who may act is an input: authentication, roles and path scopes choose
the members of `Reviewers`. Retrieval ranking, compilation, validation,
evaluation, importing and extraction are text and data processing; the clients
(command line, MCP, web) hold no state of their own.

Workspaces: joining and participants, changes of the work context, presence and
snapshots are left out, and so is the import of a handoff into another session,
whose check and append are not under one lock, so that two imports may both
append (`workspace-coordination.ts:1274`). How a context revision set is computed
is abstracted to "changed or not", at the moment an operation compares it.
Temporal truth: disputes count as supported, as in the code's evaluation; their
records, listings and the history of a support set are left out. Assurance: what
a detector looks for is the set `wrong`, and requested actions are left out; a page is
kept in one transaction, although three saturated grounding queries
(`assurance-worker.ts:2292-2308`) exceed the batch of one. A retry of an ingest job
that failed is, for the drain, a new item.
Embeddings: the provider's descriptor does not change and vectors are enabled;
what a vector contains and the retirement by a governance request are left out. The
transactions of documents and of units are one step here and several in `Projection`;
each statement of a build is a step, so that a vector inserted under
`markReady`'s own snapshot, while its trigger counts, is not seen.
Connectors: signatures and the shape of an event are checked before the inbox
sees it. The drain: the queues have the rows and the claims of their modules
reduced to what the drain reads; `SourceConnector`, `AssuranceRun`, `IngestJob` and
`Outbox` have the rest.

Known hazards that no property covers: a review left in `ROLLING_BACK` by a crash,
which reconciliation does not accept (`reviews.ts:2030`); the vault revision that
a failed rollback writes (`reviews.ts:2145`); a branch left behind by a revise
request that died, whose name the next one needs (`reviews.ts:1146`), which the
model has and which only blocks that review; row locks that `for update skip
locked` takes on joined rows (`outbox.ts:573`); attempts that a retried job keeps
(`worker.ts:825`); a context packet stored after its invalidation
(`event-handlers.ts:114`); a context revision compared before the transaction
that relies on it (`context-revision-set.ts:379`).
