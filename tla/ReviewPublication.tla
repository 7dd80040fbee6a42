-------------------------- MODULE ReviewPublication --------------------------
(***************************************************************************)
(* Review and publication (apps/api/src/routes/reviews.ts and              *)
(* review-policy.ts) over managed Git (packages/git-store/src/index.ts).   *)
(*                                                                         *)
(* A review holds a draft branch.  Reviewers approve it; the request that  *)
(* completes the quorum takes the repository's publication lock, records   *)
(* a PUBLISHING intent, squash-merges the draft onto main and finalizes    *)
(* review and outbox in one transaction.  Git and PostgreSQL share no      *)
(* transaction, so every step may fail and is compensated or reconciled.   *)
(*                                                                         *)
(* Each request handler is a process whose steps are its transactions and  *)
(* its Git commands.  A commit's content is the set of drafts in effect    *)
(* (reviews touch disjoint paths), its subject the draft it publishes, if  *)
(* any; commit i is the parent of commit i + 1.                            *)
(***************************************************************************)
EXTENDS Naturals, Sequences, FiniteSets

CONSTANTS
  Reviews, Reviewers,
  Requests,           \* requests the API serves at a time
  NoRequest,          \* nobody holds the publication lock
  MinimumApprovals,   \* minimumApprovals of each profile revision
  MaxDrafts,          \* bound: drafts of a review
  MaxRounds,          \* bound: review rounds
  Faults,             \* the kinds of fault that may strike
  MaxFaults           \* bound: faults that strike requests in a behaviour

\* crash: the API process dies.  fail: a transaction or a Git command throws.
\* stall: the 10 minute lock expires under a live request.  torn: mergeDraft
\* stops between its two Git commands.  late: what follows a commit throws.
FaultKinds == {"crash", "fail", "stall", "torn", "late"}
Profiles == DOMAIN MinimumApprovals

ASSUME RequestAssumption == NoRequest \notin Requests
ASSUME ReviewerAssumption == IsFiniteSet(Reviewers)
ASSUME ProfileAssumption ==
  MinimumApprovals \in Seq(Nat \ {0}) /\ MinimumApprovals # <<>>
ASSUME BoundAssumption ==
  /\ MaxDrafts \in Nat \ {0} /\ MaxRounds \in Nat \ {0}
  /\ Faults \subseteq FaultKinds /\ MaxFaults \in Nat

VARIABLES
  main,       \* commits of the managed main branch
  index,      \* content staged in the main working tree
  drafts,     \* draft branches: where they start, whether they still exist
  review,     \* rows of reviews
  approvals,  \* rows of review_approvals
  profile,    \* the active knowledge profile
  lock,       \* the row of repository_publication_locks
  authority,  \* vaults.current_revision
  outbox,     \* publication lifecycles appended to the outbox
  author,     \* what the author's revise request is doing
  req,        \* what each approve, rollback or reconcile request is doing
  budget      \* bound: faults left

gitVars == <<main, index, drafts>>
rowVars == <<review, approvals, profile, authority, outbox>>
vars == <<main, index, drafts, review, approvals, profile, lock, authority,
          outbox, author, req, budget>>

Heads == Reviews \X (1..MaxDrafts)
Open == {"PENDING", "CHANGES_REQUESTED"}
Statuses == Open \cup {"NONE", "PUBLISHING", "APPROVED", "REJECTED", "ROLLING_BACK",
                       "ROLLED_BACK", "PUBLICATION_RECOVERY_REQUIRED",
                       "ROLLBACK_RECOVERY_REQUIRED"}
HeadOf(r) == <<r, review[r].draft>>

Idle == [at |-> "idle"]
Free == [owner |-> NoRequest, expired |-> FALSE]
\* Phases in which a request has been granted the publication lock.
Locked == {"locked", "claimed", "git", "squashed", "committed", "finalize", "audit",
           "catch", "compensate", "ambiguous", "exact", "inexact", "cleanup", "release"}

Init ==
  /\ main = <<[tree |-> {}, subject |-> {}]>>
  /\ index = {}
  /\ drafts = [h \in Heads |-> [base |-> 0, exists |-> FALSE]]
  /\ review = [r \in Reviews |-> [status |-> "NONE", draft |-> 1, base |-> 1,
                                  round |-> 1, policy |-> 1, merged |-> 0]]
  /\ approvals = {}
  /\ profile = 1
  /\ lock = Free
  /\ authority = 1
  /\ outbox = <<>>
  /\ author = [r \in Reviews |-> Idle]
  /\ req = [p \in Requests |-> Idle]
  /\ budget = MaxFaults

Spend(kind) == kind \in Faults /\ budget > 0 /\ budget' = budget - 1

-----------------------------------------------------------------------------
(* Managed Git.                                                             *)

HEAD == Len(main)
Tree(i) == main[i].tree
Clean == index = Tree(HEAD)

\* A draft rewrites the paths of its own review and no others.
Apply(tree, h) == {g \in tree : g[1] # h[1]} \cup {h}
DraftTree(h) == Apply(Tree(drafts[h].base), h)

Commit(tree, subject) ==
  main' = Append(main, [tree |-> tree, subject |-> subject]) /\ index' = tree

Added(i) == Tree(i) \ Tree(i - 1)
Removed(i) == Tree(i - 1) \ Tree(i)

\* git revert refuses a dirty index, and has nothing to commit when the
\* changes of commit i are no longer in effect.
CanRevert(i) ==
  /\ Clean
  /\ Added(i) \subseteq Tree(HEAD)
  /\ Removed(i) \cap Tree(HEAD) = {}
  /\ Added(i) \cup Removed(i) # {}

rollbackMain(i) == Commit((Tree(HEAD) \ Added(i)) \cup Removed(i), {})

createDraftBranch(h, base) ==
  /\ ~drafts[h].exists
  /\ drafts' = [drafts EXCEPT ![h] = [base |-> base, exists |-> TRUE]]

cleanupDraft(h) == drafts' = [drafts EXCEPT ![h].exists = FALSE]

\* The callers of cleanupDraft record its failure and go on.
TryCleanupDraft(h) == cleanupDraft(h) \/ UNCHANGED drafts

-----------------------------------------------------------------------------
(* The author's requests, and decisions that are one statement.             *)

createReviewDraft(r) ==
  /\ review[r].status = "NONE"
  /\ createDraftBranch(<<r, 1>>, HEAD)
  /\ review' = [review EXCEPT ![r].status = "PENDING", ![r].base = HEAD,
                              ![r].policy = profile]
  /\ UNCHANGED <<main, index, approvals, profile, lock, authority, outbox, author,
                 req, budget>>

submit(r) ==
  /\ review[r].status \in Open
  /\ review' = [review EXCEPT ![r].status = "PENDING"]
  /\ UNCHANGED <<gitVars, approvals, profile, lock, authority, outbox, author, req, budget>>

\* revise: read the row and write the next draft on a branch of its own.
reviseDraft(r) ==
  /\ author[r].at = "idle"
  /\ review[r].status = "CHANGES_REQUESTED"
  /\ review[r].draft < MaxDrafts
  /\ createDraftBranch(<<r, review[r].draft + 1>>, review[r].base)
  /\ author' = [author EXCEPT ![r] = [at |-> "drafted", old |-> review[r].draft,
                                      policy |-> profile]]
  /\ UNCHANGED <<main, index, rowVars, lock, req, budget>>

\* revise: the guarded update, or 409 REVIEW_REVISION_CONFLICT.
reviseUpdate(r) ==
  /\ author[r].at = "drafted"
  /\ LET old == author[r].old
     IN  IF review[r].status = "CHANGES_REQUESTED" /\ review[r].draft = old
         THEN /\ review' = [review EXCEPT ![r].draft = old + 1,
                                          ![r].policy = author[r].policy]
              /\ author' = [author EXCEPT ![r].at = "superseded"]
              /\ UNCHANGED drafts
         ELSE /\ TryCleanupDraft(<<r, old + 1>>)
              /\ author' = [author EXCEPT ![r] = Idle]
              /\ UNCHANGED review
  /\ UNCHANGED <<main, index, approvals, profile, lock, authority, outbox, req, budget>>

cleanupSuperseded(r) ==
  /\ author[r].at = "superseded"
  /\ TryCleanupDraft(<<r, author[r].old>>)
  /\ author' = [author EXCEPT ![r] = Idle]
  /\ UNCHANGED <<main, index, rowVars, lock, req, budget>>

\* A crash of a revise request, which leaves its branch.  It needs no budget:
\* the branches bound it.
AuthorCrash(r) ==
  /\ author[r].at # "idle" /\ "crash" \in Faults
  /\ author' = [author EXCEPT ![r] = Idle]
  /\ UNCHANGED <<gitVars, rowVars, lock, req, budget>>

\* The catch branch of revise deletes the new branch, also when it is the audit
\* row that could not be written, after the update that made the row name it.
reviseThrows(r) ==
  /\ \/ author[r].at = "drafted" /\ Spend("fail")
     \/ author[r].at = "superseded" /\ Spend("late")
  /\ TryCleanupDraft(<<r, author[r].old + 1>>)
  /\ author' = [author EXCEPT ![r] = Idle]
  /\ UNCHANGED <<main, index, rowVars, lock, req>>

requestChanges(r) ==
  /\ review[r].status \in Open
  /\ review[r].round < MaxRounds
  /\ review' = [review EXCEPT ![r].status = "CHANGES_REQUESTED", ![r].round = @ + 1]
  /\ UNCHANGED <<gitVars, approvals, profile, lock, authority, outbox, author, req, budget>>

\* The branch to clean up is that of the handler's first read, which may be of an
\* earlier draft.  Nothing asks for a rejected review's branches, so that the
\* cleanup comes later makes no difference.
reject(r) ==
  /\ review[r].status \in Open
  /\ review' = [review EXCEPT ![r].status = "REJECTED"]
  /\ \E d \in 1..review[r].draft : TryCleanupDraft(<<r, d>>)
  /\ UNCHANGED <<main, index, approvals, profile, lock, authority, outbox, author,
                 req, budget>>

activateProfile ==
  /\ profile + 1 \in Profiles
  /\ profile' = profile + 1
  /\ UNCHANGED <<gitVars, review, approvals, lock, authority, outbox, author, req, budget>>

-----------------------------------------------------------------------------
(* Steps every publication request shares.                                  *)

At(p, op, phase) == req[p].at = phase /\ req[p].op = op
Goto(p, phase) == req' = [req EXCEPT ![p].at = phase]
End(p) == req' = [req EXCEPT ![p] = Idle]

\* Mutation: never takes over an expired lock.
acquireLockPatient(p) ==
  /\ req[p].at = "ready"
  /\ IF lock = Free
     THEN lock' = [owner |-> p, expired |-> FALSE] /\ Goto(p, "locked")
     ELSE UNCHANGED lock /\ End(p)
  /\ UNCHANGED <<gitVars, rowVars, author, budget>>

\* Insert the lock row, or take over one that has expired; else 409.
acquireLock(p) ==
  /\ req[p].at = "ready"
  /\ IF lock = Free \/ lock.expired
     THEN lock' = [owner |-> p, expired |-> FALSE] /\ Goto(p, "locked")
     ELSE UNCHANGED lock /\ End(p)
  /\ UNCHANGED <<gitVars, rowVars, author, budget>>

\* Before touching Git and before finalizing.
renewPublicationLock(p) ==
  /\ req[p].at \in {"claimed", "committed"}
  /\ Goto(p, IF lock # [owner |-> p, expired |-> FALSE] THEN "catch"
             ELSE IF req[p].at = "claimed" THEN "git" ELSE "finalize")
  /\ UNCHANGED <<gitVars, rowVars, lock, author, budget>>

\* finally: delete the lock row if it is still ours.
releaseLock(p) ==
  /\ req[p].at = "release"
  /\ lock' = IF lock.owner = p THEN Free ELSE lock
  /\ End(p)
  /\ UNCHANGED <<gitVars, rowVars, author, budget>>

\* A transaction or a Git command throws and leaves nothing behind.
StepFails(p) ==
  /\ Spend("fail")
  /\ \/ /\ req[p].at \in {"locked", "claimed", "git", "committed", "finalize"}
        /\ Goto(p, IF req[p].op = "reconcile" THEN "release" ELSE "catch")
     \/ /\ req[p].at \in {"catch", "compensate"}
        /\ Goto(p, "ambiguous")
     \/ /\ req[p].at \in {"exact", "inexact", "ambiguous"}
        /\ Goto(p, "release")
  /\ UNCHANGED <<gitVars, rowVars, lock, author>>

\* The audit row cannot be written, or the reply of the commit was lost: the
\* handler takes its catch branch after the transaction has committed.
LateFailure(p) ==
  /\ req[p].at = "audit"
  /\ Spend("late")
  /\ Goto(p, "catch")
  /\ UNCHANGED <<gitVars, rowVars, lock, author>>

Crash(p) ==
  /\ req[p].at \in Locked
  /\ Spend(IF req[p].at = "squashed" THEN "torn" ELSE "crash")
  /\ End(p)
  /\ UNCHANGED <<gitVars, rowVars, lock, author>>

\* The lock of a request that is gone expires by itself.
LockExpires ==
  /\ lock # Free /\ ~lock.expired
  /\ IF req[lock.owner].at \in Locked THEN Spend("stall") ELSE UNCHANGED budget
  /\ lock' = [lock EXCEPT !.expired = TRUE]
  /\ UNCHANGED <<gitVars, rowVars, author, req>>

-----------------------------------------------------------------------------
(* APPROVE: POST /v1/reviews/:id/decision.                                  *)

\* The handler reads the row; the merge below still uses this copy.
readReview(p, r, a) ==
  /\ req[p].at = "idle"
  /\ review[r].status \in Open
  /\ req' = [req EXCEPT ![p] =
               [op |-> "approve", at |-> "read", review |-> r, reviewer |-> a,
                draft |-> review[r].draft, base |-> review[r].base,
                approved |-> [draft |-> 0, round |-> 0, policy |-> 0],
                revision |-> 0]]
  /\ UNCHANGED <<gitVars, rowVars, lock, author, budget>>

ApprovalContext(r) ==
  [draft |-> review[r].draft, round |-> review[r].round, policy |-> review[r].policy]

\* Distinct reviewers who approved review r in context c.
ApprovalCount(rows, r, c) ==
  Cardinality({a \in Reviewers : [review |-> r, reviewer |-> a, context |-> c] \in rows})

QuorumReached(rows, r, c) == ApprovalCount(rows, r, c) >= MinimumApprovals[c.policy]

\* One approval per reviewer and context, under the policy pinned in the row,
\* which must still be the active one.  It reads the row again.
recordReviewApproval(p) ==
  /\ At(p, "approve", "read")
  /\ LET r == req[p].review
         c == ApprovalContext(r)
         rows == approvals \cup {[review |-> r, reviewer |-> req[p].reviewer,
                                  context |-> c]}
     IN  IF review[r].status \in Open /\ review[r].policy = profile
         THEN /\ approvals' = rows
              /\ IF QuorumReached(rows, r, c)
                 THEN req' = [req EXCEPT ![p].at = "ready", ![p].approved = c]
                 ELSE End(p)
         ELSE UNCHANGED approvals /\ End(p)
  /\ UNCHANGED <<gitVars, review, profile, lock, authority, outbox, author, budget>>

\* Mutation: counts the approvals of the context the request remembers.
ApprovalStandsForOldContext(r, c) == QuorumReached(approvals, r, c)

\* The row is still what was approved, under the policy that is still active.
ApprovalStands(r, c) ==
  /\ ApprovalContext(r) = c
  /\ c.policy = profile
  /\ QuorumReached(approvals, r, c)

\* A quorum that still stands turns the row into the intent to publish.
claimReviewForPublication(p) ==
  /\ At(p, "approve", "locked")
  /\ LET r == req[p].review
     IN  IF review[r].status \in Open /\ ApprovalStands(r, req[p].approved)
         THEN /\ review' = [review EXCEPT ![r].status = "PUBLISHING"]
              /\ Goto(p, "claimed")
         ELSE UNCHANGED review /\ Goto(p, "release")
  /\ UNCHANGED <<gitVars, approvals, profile, lock, authority, outbox, author, budget>>

\* mergeDraft checks the draft branch and the base.  git merge --squash takes
\* a fast-forward over foreign staged paths, and refuses any other merge
\* while the index is dirty.
CanSquash(h, base) ==
  /\ drafts[h].exists
  /\ HEAD = base
  /\ \/ Clean
     \/ /\ drafts[h].base = HEAD
        /\ \A g \in index \ Tree(HEAD) : g[1] = h[1] => g = h

\* mergeDraft up to git merge --squash.
squashDraft(p) ==
  /\ At(p, "approve", "git")
  /\ LET h == <<req[p].review, req[p].draft>>
     IN  IF CanSquash(h, req[p].base)
         THEN index' = Apply(index, h) /\ Goto(p, "squashed")
         ELSE UNCHANGED index /\ Goto(p, "catch")
  /\ UNCHANGED <<main, drafts, rowVars, lock, author, budget>>

\* mergeDraft, git commit: commits whatever is staged.
commitDraft(p) ==
  /\ At(p, "approve", "squashed")
  /\ IF Clean
     THEN UNCHANGED <<main, index>> /\ Goto(p, "catch")
     ELSE /\ Commit(index, {<<req[p].review, req[p].draft>>})
          /\ req' = [req EXCEPT ![p].at = "committed", ![p].revision = HEAD + 1]
  /\ UNCHANGED <<drafts, rowVars, lock, author, budget>>

\* git commit fails and leaves the squashed draft staged.
CommitTorn(p) ==
  /\ At(p, "approve", "squashed")
  /\ Spend("torn")
  /\ Goto(p, "catch")
  /\ UNCHANGED <<gitVars, rowVars, lock, author>>

\* Mutation: finalizes whatever the row has become.
finalizeUnfenced(r, revision) ==
  /\ review' = [review EXCEPT ![r].status = "APPROVED", ![r].merged = revision]
  /\ outbox' = Append(outbox, [review |-> r, kind |-> "publish", revision |-> revision])

\* One transaction: APPROVED, merged_commit and the publication lifecycle.
finalizePublicationTransaction(r, revision) ==
  /\ review[r].status = "PUBLISHING"
  /\ review' = [review EXCEPT ![r].status = "APPROVED", ![r].merged = revision]
  /\ outbox' = Append(outbox, [review |-> r, kind |-> "publish", revision |-> revision])

finalizeApproval(p) ==
  /\ At(p, "approve", "finalize")
  /\ LET r == req[p].review
     IN  \/ finalizePublicationTransaction(r, req[p].revision) /\ Goto(p, "audit")
         \/ /\ review[r].status # "PUBLISHING"
            /\ UNCHANGED <<review, outbox>> /\ Goto(p, "catch")
  /\ UNCHANGED <<gitVars, approvals, profile, lock, authority, author, budget>>

auditDecision(p) ==
  /\ req[p].at = "audit"
  /\ Goto(p, IF req[p].op = "approve" THEN "cleanup" ELSE "release")
  /\ UNCHANGED <<gitVars, rowVars, lock, author, budget>>

cleanupPublished(p) ==
  /\ req[p].at = "cleanup"
  /\ TryCleanupDraft(<<req[p].review, req[p].draft>>)
  /\ Goto(p, "release")
  /\ UNCHANGED <<main, index, rowVars, lock, author, budget>>

\* The catch branch: revert what was merged, or see whether main still is
\* where the draft expected it.
compensateGit(p) ==
  /\ At(p, "approve", "catch")
  /\ LET merged == req[p].revision
     IN  \/ /\ merged # 0 /\ CanRevert(merged)
            /\ rollbackMain(merged)
            /\ req' = [req EXCEPT ![p].at = "compensate", ![p].revision = HEAD + 1]
         \/ /\ merged = 0 /\ HEAD = req[p].base
            /\ UNCHANGED <<main, index>>
            /\ req' = [req EXCEPT ![p].at = "compensate", ![p].revision = HEAD]
         \/ /\ IF merged # 0 THEN ~CanRevert(merged) ELSE HEAD # req[p].base
            /\ UNCHANGED <<main, index>> /\ Goto(p, "ambiguous")
  /\ UNCHANGED <<drafts, rowVars, lock, author, budget>>

\* The compensated revision becomes the review's new base and the vault's
\* revision; the approvals of the round stay.
compensateReview(p) ==
  /\ At(p, "approve", "compensate")
  /\ LET r == req[p].review
     IN  IF review[r].status = "PUBLISHING"
         THEN /\ review' = [review EXCEPT ![r].status = "CHANGES_REQUESTED",
                              ![r].merged = 0, ![r].base = req[p].revision]
              /\ authority' = req[p].revision
              /\ Goto(p, "release")
         ELSE UNCHANGED <<review, authority>> /\ Goto(p, "ambiguous")
  /\ UNCHANGED <<gitVars, approvals, profile, lock, outbox, author, budget>>

\* Mutation: overwrites a decision another request has made.
FailClosedUnfenced(r, from, to) == review' = [review EXCEPT ![r].status = to]

\* Neither finalized nor compensated: an intent still open fails closed.
FailClosed(r, from, to) ==
  review' = IF review[r].status = from THEN [review EXCEPT ![r].status = to] ELSE review

requireRecovery(p) ==
  /\ req[p].at = "ambiguous"
  /\ IF req[p].op = "approve"
     THEN FailClosed(req[p].review, "PUBLISHING", "PUBLICATION_RECOVERY_REQUIRED")
     ELSE FailClosed(req[p].review, "ROLLING_BACK", "ROLLBACK_RECOVERY_REQUIRED")
  /\ Goto(p, "release")
  /\ UNCHANGED <<gitVars, approvals, profile, lock, authority, outbox, author, budget>>

-----------------------------------------------------------------------------
(* Rollback: POST /v1/reviews/:id/rollback.                                 *)

readRollback(p, r) ==
  /\ req[p].at = "idle"
  /\ review[r].status = "APPROVED"
  /\ req' = [req EXCEPT ![p] =
               [op |-> "rollback", at |-> "ready", review |-> r,
                merged |-> review[r].merged, revision |-> 0]]
  /\ UNCHANGED <<gitVars, rowVars, lock, author, budget>>

claimRollback(p) ==
  /\ At(p, "rollback", "locked")
  /\ LET r == req[p].review
     IN  IF review[r].status = "APPROVED"
         THEN review' = [review EXCEPT ![r].status = "ROLLING_BACK"] /\ Goto(p, "claimed")
         ELSE UNCHANGED review /\ Goto(p, "release")
  /\ UNCHANGED <<gitVars, approvals, profile, lock, authority, outbox, author, budget>>

revertPublication(p) ==
  /\ At(p, "rollback", "git")
  /\ IF CanRevert(req[p].merged)
     THEN /\ rollbackMain(req[p].merged)
          /\ req' = [req EXCEPT ![p].at = "committed", ![p].revision = HEAD + 1]
     ELSE UNCHANGED <<main, index>> /\ Goto(p, "catch")
  /\ UNCHANGED <<drafts, rowVars, lock, author, budget>>

\* One transaction: ROLLED_BACK, the vault's revision and a new lifecycle.
finalizeRollback(p) ==
  /\ At(p, "rollback", "finalize")
  /\ LET r == req[p].review
     IN  IF review[r].status = "ROLLING_BACK"
         THEN /\ review' = [review EXCEPT ![r].status = "ROLLED_BACK"]
              /\ authority' = req[p].revision
              /\ outbox' = Append(outbox, [review |-> r, kind |-> "rollback",
                                           revision |-> req[p].revision])
              /\ Goto(p, "audit")
         ELSE UNCHANGED <<review, authority, outbox>> /\ Goto(p, "catch")
  /\ UNCHANGED <<gitVars, approvals, profile, lock, author, budget>>

\* The catch branch: revert the revert; without one Git was not touched.
restoreGit(p) ==
  /\ At(p, "rollback", "catch")
  /\ LET reverted == req[p].revision
     IN  \/ /\ reverted # 0 /\ CanRevert(reverted)
            /\ rollbackMain(reverted)
            /\ req' = [req EXCEPT ![p].at = "compensate", ![p].revision = HEAD + 1]
         \/ /\ reverted = 0
            /\ UNCHANGED <<main, index>>
            /\ req' = [req EXCEPT ![p].at = "compensate", ![p].revision = req[p].merged]
         \/ /\ reverted # 0 /\ ~CanRevert(reverted)
            /\ UNCHANGED <<main, index>> /\ Goto(p, "ambiguous")
  /\ UNCHANGED <<drafts, rowVars, lock, author, budget>>

restoreReview(p) ==
  /\ At(p, "rollback", "compensate")
  /\ LET r == req[p].review
     IN  IF review[r].status = "ROLLING_BACK"
         THEN /\ review' = [review EXCEPT ![r].status = "APPROVED"]
              /\ authority' = req[p].revision
              /\ Goto(p, "release")
         ELSE UNCHANGED <<review, authority>> /\ Goto(p, "ambiguous")
  /\ UNCHANGED <<gitVars, approvals, profile, lock, outbox, author, budget>>

-----------------------------------------------------------------------------
(* reconcilePublishingReview, run by an operator.                           *)

readIntent(p, r) ==
  /\ req[p].at = "idle"
  /\ review[r].status = "PUBLISHING"
  /\ req' = [req EXCEPT ![p] = [op |-> "reconcile", at |-> "ready", review |-> r,
                                draft |-> 1, revision |-> 0]]
  /\ UNCHANGED <<gitVars, rowVars, lock, author, budget>>

\* Mutation: takes any child of the recorded base for the publication.
IsChildOfBase(r) == HEAD = review[r].base + 1

\* main is this review's publication and nothing else: its only parent is the
\* recorded base, its tree the draft's, its subject the publication's.
IsExactPublication(r) ==
  /\ HEAD = review[r].base + 1
  /\ Tree(HEAD) = DraftTree(HeadOf(r))
  /\ main[HEAD].subject = {HeadOf(r)}

attributeMain(p) ==
  /\ At(p, "reconcile", "locked")
  /\ LET r == req[p].review
     IN  IF review[r].status # "PUBLISHING"
         THEN Goto(p, "release")
         ELSE req' = [req EXCEPT ![p].at = IF IsExactPublication(r) THEN "exact"
                                                                    ELSE "inexact",
                                 ![p].draft = review[r].draft, ![p].revision = HEAD]
  /\ UNCHANGED <<gitVars, rowVars, lock, author, budget>>

recoverPublication(p) ==
  /\ At(p, "reconcile", "exact")
  /\ LET r == req[p].review
     IN  \/ finalizePublicationTransaction(r, req[p].revision) /\ Goto(p, "cleanup")
         \/ /\ review[r].status # "PUBLISHING"
            /\ UNCHANGED <<review, outbox>> /\ Goto(p, "release")
  /\ UNCHANGED <<gitVars, approvals, profile, lock, authority, author, budget>>

refuseRecovery(p) ==
  /\ At(p, "reconcile", "inexact")
  /\ FailClosed(req[p].review, "PUBLISHING", "PUBLICATION_RECOVERY_REQUIRED")
  /\ Goto(p, "release")
  /\ UNCHANGED <<gitVars, approvals, profile, lock, authority, outbox, author, budget>>

-----------------------------------------------------------------------------
ApproveStep(p) ==
  \/ recordReviewApproval(p) \/ claimReviewForPublication(p)
  \/ squashDraft(p) \/ commitDraft(p) \/ finalizeApproval(p)
  \/ compensateGit(p) \/ compensateReview(p)

RollbackStep(p) ==
  \/ claimRollback(p) \/ revertPublication(p) \/ finalizeRollback(p)
  \/ restoreGit(p) \/ restoreReview(p)

ReconcileStep(p) == attributeMain(p) \/ recoverPublication(p) \/ refuseRecovery(p)

SharedStep(p) ==
  \/ acquireLock(p) \/ renewPublicationLock(p) \/ auditDecision(p)
  \/ cleanupPublished(p) \/ requireRecovery(p) \/ releaseLock(p)

RequestStep(p) == ApproveStep(p) \/ RollbackStep(p) \/ ReconcileStep(p) \/ SharedStep(p)

Fault(p) == StepFails(p) \/ LateFailure(p) \/ CommitTorn(p) \/ Crash(p)

AuthorStep(r) ==
  \/ createReviewDraft(r) \/ submit(r)
  \/ reviseDraft(r) \/ reviseUpdate(r) \/ cleanupSuperseded(r) \/ AuthorCrash(r)
  \/ reviseThrows(r)

Next ==
  \/ \E r \in Reviews : AuthorStep(r) \/ requestChanges(r) \/ reject(r)
  \/ \E p \in Requests, r \in Reviews :
       readRollback(p, r) \/ readIntent(p, r) \/ \E a \in Reviewers : readReview(p, r, a)
  \/ \E p \in Requests : RequestStep(p) \/ Fault(p)
  \/ activateProfile
  \/ LockExpires

Spec == Init /\ [][Next]_vars

\* Requests run to their reply, locks expire, and the operator reconciles what
\* is left PUBLISHING.  Nobody is obliged to review, revise or roll back.
Fairness ==
  /\ \A p \in Requests : WF_vars(RequestStep(p))
  /\ \A r \in Reviews : WF_vars(\E p \in Requests : readIntent(p, r))
  /\ WF_vars(LockExpires)

FairSpec == Spec /\ Fairness

-----------------------------------------------------------------------------
(* Properties.                                                              *)

Phases == Locked \cup {"read", "ready"}
Context == [draft: Nat, round: Nat, policy: Nat]
Trees == SUBSET Heads
ApproveRequest ==
  [op: {"approve"}, at: Phases, review: Reviews, reviewer: Reviewers, draft: 1..MaxDrafts,
   base: Nat, approved: Context, revision: Nat]
RollbackRequest == [op: {"rollback"}, at: Phases, review: Reviews, merged: Nat, revision: Nat]
ReconcileRequest ==
  [op: {"reconcile"}, at: Phases, review: Reviews, draft: 1..MaxDrafts, revision: Nat]
RequestState == {Idle} \cup ApproveRequest \cup RollbackRequest \cup ReconcileRequest
Revision == [at: {"drafted", "superseded"}, old: 1..MaxDrafts, policy: Profiles]

TypeOK ==
  /\ main \in Seq([tree: Trees, subject: SUBSET Heads])
  /\ index \in Trees
  /\ drafts \in [Heads -> [base: Nat, exists: BOOLEAN]]
  /\ review \in [Reviews -> [status: Statuses, draft: 1..MaxDrafts, base: Nat,
                             round: 1..MaxRounds, policy: Profiles, merged: Nat]]
  /\ approvals \subseteq [review: Reviews, reviewer: Reviewers, context: Context]
  /\ profile \in Profiles
  /\ lock \in [owner: Requests \cup {NoRequest}, expired: BOOLEAN]
  /\ authority \in DOMAIN main
  /\ outbox \in Seq([review: Reviews, kind: {"publish", "rollback"}, revision: Nat])
  /\ author \in [Reviews -> Revision \cup {Idle}]
  /\ req \in [Requests -> RequestState]
  /\ budget \in 0..MaxFaults

Published == {"APPROVED", "ROLLING_BACK", "ROLLED_BACK", "ROLLBACK_RECOVERY_REQUIRED"}

\* The idempotency fence (comment of reconcilePublishingReview): whoever races,
\* crashes or retries, a review has appended one publication lifecycle exactly
\* when it is published, and one rollback lifecycle exactly when rolled back.
PublishedOnce ==
  \A r \in Reviews :
    LET Lifecycles(kind) ==
          {i \in DOMAIN outbox : outbox[i].review = r /\ outbox[i].kind = kind}
    IN  /\ Cardinality(Lifecycles("publish")) =
              IF review[r].status \in Published THEN 1 ELSE 0
        /\ Cardinality(Lifecycles("rollback")) =
              IF review[r].status = "ROLLED_BACK" THEN 1 ELSE 0

\* And whoever finalizes, the handler, or a reconciliation beside a handler whose
\* lock ran out, under every fault: the row and its lifecycle name the same commit
\* of main, which merged a draft of this review.
AnnouncedAsMerged ==
  /\ PublishedOnce
  /\ \A i \in DOMAIN outbox :
       outbox[i].kind = "publish"
         => /\ review[outbox[i].review].merged = outbox[i].revision
            /\ outbox[i].revision \in DOMAIN main
            /\ \E h \in main[outbox[i].revision].subject : h[1] = outbox[i].review

\* recordReviewApproval and claimReviewForPublication: a review is PUBLISHING
\* or published only on a quorum of distinct reviewers for the very draft,
\* round and policy its row holds, however revisions, rounds and profile
\* activations raced with the approvals.
QuorumBacksIntent ==
  \A r \in Reviews :
    review[r].status \in Published \cup {"PUBLISHING"}
      => QuorumReached(approvals, r, ApprovalContext(r))

\* What Git publishes was approved: every draft in effect on main had a quorum
\* ("squash merge exact reviewed head onto expected base").
MainIsReviewed ==
  \A h \in Tree(HEAD) :
    \E round \in 1..MaxRounds, policy \in Profiles :
      QuorumReached(approvals, h[1], [draft |-> h[2], round |-> round, policy |-> policy])

\* mergeDraft "squash-merges exactly that branch": a publication changes main
\* by its own draft only.
OneDraftPerPublication ==
  \A i \in DOMAIN main :
    \A h \in main[i].subject : Tree(i) = Apply(Tree(i - 1), h)

\* The business commit point: an APPROVED review's content is on main.
ApprovedIsCanonical ==
  \A r \in Reviews :
    review[r].status = "APPROVED" => \E h \in Tree(HEAD) : h[1] = r

\* And main holds no content whose review is back in discussion, rejected or
\* rolled back: compensation and rollback reach Git before the row.
CanonicalIsDecided ==
  \A h \in Tree(HEAD) :
    review[h[1]].status \in {"PUBLISHING", "APPROVED", "ROLLING_BACK",
                             "PUBLICATION_RECOVERY_REQUIRED",
                             "ROLLBACK_RECOVERY_REQUIRED"}

\* repository_publication_locks: one request at a time works on main.
OneWriter ==
  \A p, q \in Requests : (req[p].at \in Locked /\ req[q].at \in Locked) => p = q

\* Rows and Git agree at every moment if one request at most crashes, or one of its
\* transactions or Git commands throws, anywhere but between the squash and the
\* commit.  A torn merge, a failure after the finalizing commit and a lock that
\* expires under a live request are other faults, and break it.
RowsAndGitAgree ==
  /\ TypeOK
  /\ OneDraftPerPublication
  /\ ApprovedIsCanonical
  /\ CanonicalIsDecided
  /\ OneWriter
  /\ PublishedOnce

\* Decisions are final: a rejected, rolled back or unrecovered review never
\* moves again, an intent is not revised while it is pending, and a published
\* review keeps the commit that published it.
DecisionIsFinal ==
  [][\A r \in Reviews :
       /\ review[r].status \in {"REJECTED", "ROLLED_BACK", "PUBLICATION_RECOVERY_REQUIRED",
                                "ROLLBACK_RECOVERY_REQUIRED"}
            => review'[r] = review[r]
       /\ review[r].status = "PUBLISHING"
            => ApprovalContext(r)' = ApprovalContext(r)
       /\ review[r].status \in Published
            => review'[r].status \in Published /\ review'[r].merged = review[r].merged]_vars

\* A PUBLISHING intent is finalized, compensated or declared unrecoverable in
\* the end, by its request or, when that has crashed or failed, by a reconciliation.
IntentSettles ==
  \A r \in Reviews : review[r].status = "PUBLISHING" ~> review[r].status # "PUBLISHING"
=============================================================================
