---------------------------- MODULE ReviewProofs ----------------------------
(* Machine-checked theorems about review publication, for every value of its    *)
(* constants.                                                                   *)
EXTENDS ReviewPublication, FiniteSetTheorems, TLAPS

-----------------------------------------------------------------------------
(* Typing.                                                                      *)

Begun == {"read", "ready", "locked", "claimed", "git", "squashed"}
Compensated == {"claimed", "git", "committed", "finalize", "audit", "catch", "compensate",
                "ambiguous"}

\* The revision a request remembers is a commit of main, and no root commit
\* when it may revert it.
RequestFits(s) ==
  /\ s.at \in Begun => s.revision = 0
  /\ s.at \in {"committed", "finalize", "audit", "exact"} => s.revision \in 2..HEAD
  /\ s.at = "catch" => s.revision = 0 \/ s.revision \in 2..HEAD
  /\ s.at = "compensate" => s.revision \in 1..HEAD
  /\ s.op = "rollback" => s.merged \in 2..HEAD
  /\ s.at \in {"exact", "inexact"} => s.op = "reconcile"
  /\ s.at \in Compensated => s.op # "reconcile"
  /\ s.at = "squashed" => s.op = "approve"

\* And so are those a row holds; a revise request has a draft left.
RowFits(r) ==
  /\ review[r].base \in 1..HEAD
  /\ review[r].status \in Published => review[r].merged \in 2..HEAD
  /\ author[r].at # "idle" => author[r].old < MaxDrafts

Positions ==
  /\ \A r \in Reviews : RowFits(r)
  /\ \A p \in Requests : req[p].at # "idle" => RequestFits(req[p])

TypeInv == TypeOK /\ Positions

Active == ApproveRequest \cup RollbackRequest \cup ReconcileRequest
CommitOf == [tree: Trees, subject: SUBSET Heads]
Row == [status: Statuses, draft: 1..MaxDrafts, base: Nat, round: 1..MaxRounds,
        policy: Profiles, merged: Nat]

-----------------------------------------------------------------------------
(* What a step does to the record it moves.                                     *)

\* A request that does something has the fields of its operation.
LEMMA RequestOf ==
  ASSUME TypeOK, NEW p \in Requests, req[p].at # "idle"
  PROVE  /\ req[p] \in Active
         /\ req[p].review \in Reviews /\ req[p].revision \in Nat
         /\ req[p].op \in {"approve", "rollback", "reconcile"}
         /\ req[p].op = "approve" => req[p] \in ApproveRequest
         /\ req[p].op = "rollback" => req[p] \in RollbackRequest
         /\ req[p].op = "reconcile" => req[p] \in ReconcileRequest
<1>1. req[p] \in RequestState /\ req[p] # Idle
  BY DEF TypeOK, Idle
<1>2. req[p] \in Active
  BY <1>1 DEF RequestState, Active
<1>3. CASE req[p] \in ApproveRequest
  BY <1>2, <1>3 DEF ApproveRequest
<1>4. CASE req[p] \in RollbackRequest
  BY <1>2, <1>4 DEF RollbackRequest
<1>5. CASE req[p] \in ReconcileRequest
  BY <1>2, <1>5 DEF ReconcileRequest
<1> QED BY <1>2, <1>3, <1>4, <1>5 DEF Active

\* s is t, but for where it is and the revision it remembers.
Resumes(s, t) ==
  /\ s.op = t.op /\ s.review = t.review
  /\ t.op = "approve" => /\ s.draft = t.draft /\ s.base = t.base
                         /\ s.approved = t.approved /\ s.reviewer = t.reviewer
  /\ t.op = "rollback" => s.merged = t.merged

\* Moving on changes the phase.
LEMMA Moved ==
  ASSUME NEW s \in Active, NEW x \in Phases
  PROVE  LET t == [s EXCEPT !.at = x]
         IN  /\ t \in Active /\ t \in RequestState
             /\ t.at = x /\ t.revision = s.revision /\ Resumes(t, s)
<1>1. CASE s \in ApproveRequest
  BY <1>1 DEF ApproveRequest, Active, RequestState, Resumes
<1>2. CASE s \in RollbackRequest
  BY <1>2 DEF RollbackRequest, Active, RequestState, Resumes
<1>3. CASE s \in ReconcileRequest
  BY <1>3 DEF ReconcileRequest, Active, RequestState, Resumes
<1> QED BY <1>1, <1>2, <1>3 DEF Active

\* Goto moves one request.
LEMMA GotoFacts ==
  ASSUME TypeOK, NEW p \in Requests, req[p].at # "idle",
         NEW x \in Phases, Goto(p, x)
  PROVE  /\ req' \in [Requests -> RequestState]
         /\ \A q \in Requests : q # p => req'[q] = req[q]
         /\ req'[p] \in Active
         /\ req'[p].at = x /\ req'[p].revision = req[p].revision
         /\ Resumes(req'[p], req[p])
<1>1. req[p] \in Active
  BY RequestOf
<1>2. req'[p] = [req[p] EXCEPT !.at = x]
  BY DEF Goto, TypeOK
<1>3. req'[p] \in Active /\ req'[p] \in RequestState /\ req'[p].at = x
      /\ req'[p].revision = req[p].revision /\ Resumes(req'[p], req[p])
  BY <1>1, <1>2, Moved
<1> QED BY <1>3 DEF Goto, TypeOK

\* Some actions also give it a revision.
GotoWith(p, x, n) == req' = [req EXCEPT ![p].at = x, ![p].revision = n]

LEMMA GotoWithFacts ==
  ASSUME TypeOK, NEW p \in Requests, req[p].at # "idle",
         NEW x \in Phases, NEW n \in Nat, GotoWith(p, x, n)
  PROVE  /\ req' \in [Requests -> RequestState]
         /\ \A q \in Requests : q # p => req'[q] = req[q]
         /\ req'[p] \in Active
         /\ req'[p].at = x /\ req'[p].revision = n
         /\ Resumes(req'[p], req[p])
<1>1. req[p] \in Active
  BY RequestOf
<1>2. PICK t : t = [req[p] EXCEPT !.at = x, !.revision = n]
  OBVIOUS
<1>3. t \in Active /\ t \in RequestState /\ t.at = x /\ t.revision = n /\ Resumes(t, req[p])
  <2>1. CASE req[p] \in ApproveRequest
    BY <1>1, <1>2, <2>1 DEF ApproveRequest, Active, RequestState, Resumes
  <2>2. CASE req[p] \in RollbackRequest
    BY <1>1, <1>2, <2>2 DEF RollbackRequest, Active, RequestState, Resumes
  <2>3. CASE req[p] \in ReconcileRequest
    BY <1>1, <1>2, <2>3 DEF ReconcileRequest, Active, RequestState, Resumes
  <2> QED BY <1>1, <2>1, <2>2, <2>3 DEF Active
<1>4. req \in [Requests -> RequestState]
  BY DEF TypeOK
<1>5. req' = [req EXCEPT ![p] = t]
  BY <1>2, <1>4 DEF GotoWith
<1> QED BY <1>3, <1>4, <1>5

\* End forgets it.
LEMMA EndFacts ==
  ASSUME TypeOK, NEW p \in Requests, End(p)
  PROVE  /\ req' \in [Requests -> RequestState]
         /\ \A q \in Requests : q # p => req'[q] = req[q]
         /\ req'[p].at = "idle"
<1>1. Idle \in RequestState /\ Idle.at = "idle"
  BY DEF RequestState, Idle
<1>2. req \in [Requests -> RequestState]
  BY DEF TypeOK
<1> QED BY <1>1, <1>2 DEF End

\* A commit makes main one longer and keeps what was there.
LEMMA CommitFacts ==
  ASSUME TypeOK, NEW tree \in Trees, NEW subject \in SUBSET Heads, Commit(tree, subject)
  PROVE  /\ main' \in Seq(CommitOf) /\ index' \in Trees
         /\ HEAD \in Nat /\ HEAD' = HEAD + 1
         /\ \A i \in 1..HEAD : main'[i] = main[i]
         /\ main'[HEAD'].tree = tree /\ main'[HEAD'].subject = subject /\ index' = tree
<1>1. PICK c \in CommitOf : c = [tree |-> tree, subject |-> subject]
  BY DEF CommitOf
<1>2. main \in Seq(CommitOf) /\ main' = Append(main, c) /\ index' = tree
  BY <1>1 DEF Commit, TypeOK, CommitOf
<1>3. c.tree = tree /\ c.subject = subject
  BY <1>1
<1> QED BY <1>2, <1>3 DEF HEAD

LEMMA HeadIsPositive ==
  ASSUME TypeOK
  PROVE  HEAD \in Nat \ {0} /\ DOMAIN main = 1..HEAD /\ \A i \in 1..HEAD : Tree(i) \in Trees
<1>1. main \in Seq(CommitOf) /\ authority \in DOMAIN main
  BY DEF TypeOK, CommitOf
<1>2. HEAD \in Nat /\ DOMAIN main = 1..HEAD /\ HEAD # 0
  BY <1>1 DEF HEAD
<1>3. ASSUME NEW i \in 1..HEAD PROVE main[i] \in CommitOf
  BY <1>1, <1>2
<1> QED BY <1>2, <1>3 DEF Tree, CommitOf

\* A revert is a commit on top.
LEMMA RevertFacts ==
  ASSUME TypeOK, NEW i \in 2..HEAD, rollbackMain(i)
  PROVE  /\ main' \in Seq(CommitOf) /\ index' \in Trees
         /\ HEAD' = HEAD + 1
         /\ \A k \in 1..HEAD : main'[k] = main[k]
         /\ main'[HEAD'].tree = (Tree(HEAD) \ Added(i)) \cup Removed(i)
         /\ main'[HEAD'].subject = {}
         /\ index' = (Tree(HEAD) \ Added(i)) \cup Removed(i)
<1>1. HEAD \in 1..HEAD /\ i - 1 \in 1..HEAD /\ i \in 1..HEAD
  BY HeadIsPositive
<1>2. Tree(HEAD) \subseteq Heads /\ Tree(i) \subseteq Heads /\ Tree(i - 1) \subseteq Heads
  BY <1>1, HeadIsPositive DEF Trees
<1>3. (Tree(HEAD) \ Added(i)) \cup Removed(i) \in Trees
  BY <1>2 DEF Added, Removed, Trees
<1>4. {} \in SUBSET Heads
  OBVIOUS
<1> QED BY <1>3, <1>4, CommitFacts DEF rollbackMain

\* main only grows, so what fits still does.
LEMMA FitsLater ==
  ASSUME TypeOK, HEAD' \in Nat, HEAD' >= HEAD
  PROVE  /\ \A s : RequestFits(s) => RequestFits(s)'
         /\ \A p \in Requests : RequestFits(req[p]) /\ req'[p] = req[p] => RequestFits(req[p])'
         /\ \A r \in Reviews : RowFits(r) /\ review'[r] = review[r] /\ author'[r] = author[r]
              => RowFits(r)'
BY HeadIsPositive DEF RequestFits, RowFits

-----------------------------------------------------------------------------
(* Every step keeps the types.                                                  *)

BranchTypes == drafts \in [Heads -> [base: Nat, exists: BOOLEAN]]
RowTypes ==
  /\ review \in [Reviews -> Row]
  /\ approvals \subseteq [review: Reviews, reviewer: Reviewers, context: Context]
  /\ profile \in Profiles
  /\ author \in [Reviews -> Revision \cup {Idle}]

LEMMA PartsOfTypes ==
  ASSUME TypeOK
  PROVE  /\ BranchTypes /\ RowTypes /\ main \in Seq(CommitOf)
         /\ \A r \in Reviews : review[r] \in Row
BY DEF TypeOK, BranchTypes, RowTypes, Row, CommitOf

\* What the author, a reviewer's single statement or an activation may change.
LEMMA RowsKeepTypes ==
  ASSUME TypeInv, UNCHANGED <<main, index, lock, authority, outbox, req>>,
         UNCHANGED budget \/ (budget > 0 /\ budget' = budget - 1),
         BranchTypes', RowTypes', \A r \in Reviews : RowFits(r)'
  PROVE  TypeInv'
<1>0. budget' \in 0..MaxFaults
  BY BoundAssumption DEF TypeInv, TypeOK
<1>1. TypeOK'
  BY <1>0 DEF TypeInv, TypeOK, BranchTypes, RowTypes, Row
<1>2. HEAD' = HEAD
  BY DEF HEAD
<1>3. Positions'
  BY <1>2, HeadIsPositive, FitsLater DEF TypeInv, Positions
<1> QED BY <1>1, <1>3 DEF TypeInv

\* A draft branch is made or goes.
LEMMA BranchesKeepTypes ==
  ASSUME TypeOK, NEW h \in Heads
  PROVE  /\ cleanupDraft(h) => BranchTypes'
         /\ TryCleanupDraft(h) => BranchTypes'
         /\ \A base \in Nat : createDraftBranch(h, base) => BranchTypes'
<1>1. BranchTypes
  BY PartsOfTypes
<1>2. cleanupDraft(h) => BranchTypes'
  BY <1>1 DEF cleanupDraft, BranchTypes
<1>3. UNCHANGED drafts => BranchTypes'
  BY <1>1 DEF BranchTypes
<1>4. ASSUME NEW base \in Nat, createDraftBranch(h, base) PROVE BranchTypes'
  <2>1. [base |-> base, exists |-> TRUE] \in [base: Nat, exists: BOOLEAN]
    OBVIOUS
  <2> QED BY <1>1, <1>4, <2>1 DEF createDraftBranch, BranchTypes
<1> QED BY <1>2, <1>3, <1>4 DEF TryCleanupDraft

\* Only the status of a row changes, to one that needs no commit.
LEMMA StatusKeepsTypes ==
  ASSUME TypeInv, NEW r \in Reviews, NEW x \in Statuses \ Published,
         review' = [review EXCEPT ![r].status = x],
         UNCHANGED <<main, approvals, profile, author>>
  PROVE  RowTypes' /\ \A t \in Reviews : RowFits(t)'
<1>1. RowTypes /\ \A t \in Reviews : review[t] \in Row
  BY PartsOfTypes DEF TypeInv
<1>2. review'[r] = [review[r] EXCEPT !.status = x]
      /\ \A t \in Reviews : t # r => review'[t] = review[t]
  BY <1>1 DEF RowTypes
<1>3. review'[r] \in Row /\ review'[r].base = review[r].base /\ review'[r].status = x
  BY <1>1, <1>2 DEF Row
<1>4. RowTypes'
  BY <1>1, <1>3 DEF RowTypes
<1> QED BY <1>2, <1>3, <1>4 DEF RowFits, TypeInv, Positions, HEAD

LEMMA AuthorKeepsTypes ==
  ASSUME TypeInv, NEW r \in Reviews, AuthorStep(r) \/ requestChanges(r) \/ reject(r)
  PROVE  TypeInv'
<1> USE DEF gitVars, rowVars
<1>1. RowTypes /\ BranchTypes /\ (\A t \in Reviews : review[t] \in Row /\ RowFits(t))
  BY PartsOfTypes DEF TypeInv, Positions
<1>2. /\ HEAD \in Nat \ {0} /\ review[r] \in Row /\ HeadOf(r) \in Heads
      /\ review[r].base \in Nat /\ review[r].draft \in 1..MaxDrafts
      /\ 1 \in 1..MaxDrafts /\ <<r, 1>> \in Heads
  BY <1>1, HeadIsPositive, BoundAssumption DEF Row, Heads, HeadOf, TypeInv
<1>3. CASE createReviewDraft(r)
  <2>1. BranchTypes'
    BY <1>2, <1>3, BranchesKeepTypes DEF createReviewDraft, TypeInv
  <2>2. review'[r] = [review[r] EXCEPT !.status = "PENDING", !.base = HEAD, !.policy = profile]
        /\ \A t \in Reviews : t # r => review'[t] = review[t]
    BY <1>1, <1>3 DEF createReviewDraft, RowTypes
  <2>3. review'[r] \in Row /\ review'[r].base = HEAD /\ review'[r].status = "PENDING"
    BY <1>1, <1>2, <2>2 DEF Row, RowTypes, Statuses, Open
  <2>4. RowTypes'
    BY <1>1, <1>3, <2>3 DEF createReviewDraft, RowTypes
  <2>5. \A t \in Reviews : RowFits(t)'
    <3>1. UNCHANGED author /\ HEAD' = HEAD
      BY <1>3 DEF createReviewDraft, HEAD
    <3>2. HEAD \in 1..HEAD
      BY <1>2
    <3>3. RowFits(r)'
      BY <1>1, <2>3, <3>1, <3>2 DEF RowFits, Published
    <3> QED BY <1>1, <2>2, <3>1, <3>3 DEF RowFits
  <2> QED BY <1>3, <2>1, <2>4, <2>5, RowsKeepTypes DEF createReviewDraft
<1>4. CASE submit(r)
  <2>1. RowTypes' /\ \A t \in Reviews : RowFits(t)'
    BY <1>4, StatusKeepsTypes DEF submit, Statuses, Open, Published
  <2> QED BY <1>1, <1>4, <2>1, RowsKeepTypes DEF submit, BranchTypes
<1>5. CASE reviseDraft(r)
  <2>1. <<r, review[r].draft + 1>> \in Heads
    BY <1>2, <1>5, BoundAssumption DEF reviseDraft, Heads
  <2>2. BranchTypes'
    BY <1>2, <1>5, <2>1, BranchesKeepTypes DEF reviseDraft, TypeInv
  <2>3. [at |-> "drafted", old |-> review[r].draft, policy |-> profile] \in Revision
    BY <1>1, <1>2 DEF Revision, RowTypes
  <2>4. RowTypes'
    BY <1>1, <1>5, <2>3 DEF reviseDraft, RowTypes
  <2>5. \A t \in Reviews : RowFits(t)'
    BY <1>1, <1>5 DEF reviseDraft, RowFits, HEAD, RowTypes
  <2> QED BY <1>5, <2>2, <2>4, <2>5, RowsKeepTypes DEF reviseDraft
<1>6. CASE reviseUpdate(r)
  <2>1. author[r] \in Revision /\ author[r].old \in 1..MaxDrafts /\ author[r].policy \in Profiles
        /\ author[r].old + 1 \in 1..MaxDrafts
    BY <1>1, <1>6, BoundAssumption DEF reviseUpdate, RowTypes, Revision, Idle, RowFits
  <2>2. CASE review[r].status = "CHANGES_REQUESTED" /\ review[r].draft = author[r].old
    <3>1. review' = [review EXCEPT ![r].draft = author[r].old + 1, ![r].policy = author[r].policy]
          /\ author' = [author EXCEPT ![r].at = "superseded"] /\ UNCHANGED drafts
      BY <1>6, <2>2 DEF reviseUpdate
    <3>2. review'[r] = [review[r] EXCEPT !.draft = author[r].old + 1, !.policy = author[r].policy]
          /\ \A t \in Reviews : t # r => review'[t] = review[t] /\ author'[t] = author[t]
      BY <1>1, <3>1 DEF RowTypes
    <3>3. review'[r] \in Row /\ review'[r].base = review[r].base
          /\ review'[r].status = "CHANGES_REQUESTED"
      BY <1>2, <2>1, <2>2, <3>2 DEF Row
    <3>4. author'[r] = [author[r] EXCEPT !.at = "superseded"]
      BY <1>1, <3>1 DEF RowTypes
    <3>5. /\ author'[r] \in Revision /\ author'[r].at = "superseded"
          /\ author'[r].old < MaxDrafts
      BY <2>1, <3>4, BoundAssumption DEF Revision
    <3>6. RowTypes'
      BY <1>1, <1>6, <3>1, <3>3, <3>5 DEF reviseUpdate, RowTypes
    <3>7. \A t \in Reviews : RowFits(t)'
      BY <1>1, <1>6, <3>2, <3>3, <3>5 DEF reviseUpdate, RowFits, HEAD, Published
    <3> QED BY <1>1, <1>6, <3>1, <3>6, <3>7, RowsKeepTypes DEF reviseUpdate, BranchTypes
  <2>3. CASE ~(review[r].status = "CHANGES_REQUESTED" /\ review[r].draft = author[r].old)
    <3>1. TryCleanupDraft(<<r, author[r].old + 1>>) /\ author' = [author EXCEPT ![r] = Idle]
          /\ UNCHANGED review
      BY <1>6, <2>3 DEF reviseUpdate
    <3>2. <<r, author[r].old + 1>> \in Heads
      BY <2>1 DEF Heads
    <3>3. BranchTypes'
      BY <3>1, <3>2, BranchesKeepTypes DEF TypeInv
    <3>4. RowTypes' /\ author'[r] = Idle /\ \A t \in Reviews : t # r => author'[t] = author[t]
      BY <1>1, <1>6, <3>1 DEF reviseUpdate, RowTypes
    <3>5. \A t \in Reviews : RowFits(t)'
      BY <1>1, <1>6, <3>1, <3>4 DEF reviseUpdate, RowFits, HEAD, Idle
    <3> QED BY <1>6, <3>3, <3>4, <3>5, RowsKeepTypes DEF reviseUpdate
  <2> QED BY <2>2, <2>3
<1>7. CASE cleanupSuperseded(r) \/ AuthorCrash(r)
  <2>1. author[r] \in Revision /\ author[r].old \in 1..MaxDrafts
    BY <1>1, <1>7 DEF cleanupSuperseded, AuthorCrash, RowTypes, Revision, Idle
  <2>2. <<r, author[r].old>> \in Heads
    BY <2>1 DEF Heads
  <2>3. BranchTypes'
    BY <1>1, <1>7, <2>2, BranchesKeepTypes DEF cleanupSuperseded, AuthorCrash, TypeInv, BranchTypes
  <2>4. author' = [author EXCEPT ![r] = Idle] /\ UNCHANGED <<main, review, approvals, profile>>
    BY <1>7 DEF cleanupSuperseded, AuthorCrash
  <2>5. RowTypes' /\ author'[r] = Idle /\ \A t \in Reviews : t # r => author'[t] = author[t]
    BY <1>1, <2>4 DEF RowTypes
  <2>6. \A t \in Reviews : RowFits(t)'
    BY <1>1, <2>4, <2>5 DEF RowFits, HEAD, Idle
  <2> QED BY <1>7, <2>3, <2>5, <2>6, RowsKeepTypes DEF cleanupSuperseded, AuthorCrash
<1>10. CASE reviseThrows(r)
  <2>1. author[r] \in Revision /\ author[r].old + 1 \in 1..MaxDrafts
    BY <1>1, <1>10, BoundAssumption DEF reviseThrows, RowTypes, RowFits, Revision, Idle
  <2>2. /\ TryCleanupDraft(<<r, author[r].old + 1>>) /\ author' = [author EXCEPT ![r] = Idle]
        /\ UNCHANGED <<main, index, review, approvals, profile, lock, authority, outbox, req>>
        /\ budget > 0 /\ budget' = budget - 1
    BY <1>10 DEF reviseThrows, Spend
  <2>3. <<r, author[r].old + 1>> \in Heads
    BY <2>1 DEF Heads
  <2>4. BranchTypes'
    BY <2>2, <2>3, BranchesKeepTypes DEF TypeInv
  <2>5. RowTypes' /\ author'[r] = Idle /\ \A t \in Reviews : t # r => author'[t] = author[t]
    BY <1>1, <2>2 DEF RowTypes
  <2>6. \A t \in Reviews : RowFits(t)'
    BY <1>1, <2>2, <2>5 DEF RowFits, HEAD, Idle
  <2> QED BY <2>2, <2>4, <2>5, <2>6, RowsKeepTypes
<1>8. CASE requestChanges(r)
  <2>1. review'[r] = [review[r] EXCEPT !.status = "CHANGES_REQUESTED", !.round = @ + 1]
        /\ \A t \in Reviews : t # r => review'[t] = review[t]
    BY <1>1, <1>8 DEF requestChanges, RowTypes
  <2>2. review[r].round + 1 \in 1..MaxRounds
    BY <1>2, <1>8, BoundAssumption DEF requestChanges, Row
  <2>3. review'[r] \in Row /\ review'[r].base = review[r].base
        /\ review'[r].status = "CHANGES_REQUESTED"
    BY <1>2, <2>1, <2>2 DEF Row, Statuses, Open
  <2>4. RowTypes'
    BY <1>1, <1>8, <2>3 DEF requestChanges, RowTypes
  <2>5. \A t \in Reviews : RowFits(t)'
    BY <1>1, <1>8, <2>1, <2>3 DEF requestChanges, RowFits, HEAD, Published
  <2> QED BY <1>1, <1>8, <2>4, <2>5, RowsKeepTypes DEF requestChanges, BranchTypes
<1>9. CASE reject(r)
  <2>1. RowTypes' /\ \A t \in Reviews : RowFits(t)'
    BY <1>9, StatusKeepsTypes DEF reject, Statuses, Published
  <2>2. PICK d \in 1..review[r].draft : TryCleanupDraft(<<r, d>>)
    BY <1>9 DEF reject
  <2>3. <<r, d>> \in Heads
    BY <1>2, BoundAssumption DEF Heads
  <2>4. BranchTypes'
    BY <2>2, <2>3, BranchesKeepTypes DEF TypeInv
  <2> QED BY <1>9, <2>1, <2>4, RowsKeepTypes DEF reject
<1> QED BY <1>3, <1>4, <1>5, <1>6, <1>7, <1>8, <1>9, <1>10 DEF AuthorStep

LEMMA ActivationKeepsTypes ==
  ASSUME TypeInv, activateProfile
  PROVE  TypeInv'
<1>1. RowTypes' /\ BranchTypes'
  BY PartsOfTypes DEF activateProfile, TypeInv, RowTypes, BranchTypes, gitVars
<1>2. \A r \in Reviews : RowFits(r)'
  BY DEF activateProfile, TypeInv, Positions, RowFits, HEAD, gitVars
<1> QED BY <1>1, <1>2, RowsKeepTypes DEF activateProfile, gitVars

LockTypes == lock \in [owner: Requests \cup {NoRequest}, expired: BOOLEAN] /\ budget \in 0..MaxFaults
Lifecycle == [review: Reviews, kind: {"publish", "rollback"}, revision: Nat]

\* The request that moved fits; the others stand where they stood.
Turn(p) ==
  /\ req' \in [Requests -> RequestState]
  /\ \A q \in Requests : q # p => req'[q] = req[q]
  /\ req'[p].at # "idle" => RequestFits(req[p])'

LEMMA TurnKeepsPositions ==
  ASSUME TypeInv, NEW p \in Requests, Turn(p), HEAD' \in Nat, HEAD' >= HEAD,
         \A r \in Reviews : RowFits(r)'
  PROVE  Positions'
BY FitsLater DEF Turn, Positions, TypeInv

\* A step of a request that leaves main and the rows alone.
LEMMA MoveKeepsTypes ==
  ASSUME TypeInv, NEW p \in Requests, Turn(p), UNCHANGED <<main, rowVars, author>>,
         index' \in Trees, BranchTypes', LockTypes'
  PROVE  TypeInv'
<1> USE DEF rowVars
<1>1. TypeOK'
  BY DEF TypeInv, TypeOK, BranchTypes, LockTypes, Turn
<1>2. HEAD' = HEAD /\ HEAD \in Nat
  BY HeadIsPositive DEF HEAD, TypeInv
<1>3. \A r \in Reviews : RowFits(r)'
  BY <1>2, FitsLater DEF TypeInv, Positions
<1> QED BY <1>1, <1>2, <1>3, TurnKeepsPositions DEF TypeInv

\* A transaction on the rows.
LEMMA TransactionKeepsTypes ==
  ASSUME TypeInv, NEW p \in Requests, Turn(p),
         UNCHANGED <<gitVars, profile, lock, author, budget>>,
         review' \in [Reviews -> Row], outbox' \in Seq(Lifecycle), authority' \in 1..HEAD,
         approvals' \subseteq [review: Reviews, reviewer: Reviewers, context: Context],
         \A r \in Reviews : RowFits(r)'
  PROVE  TypeInv'
<1> USE DEF gitVars
<1>1. authority' \in DOMAIN main
  BY HeadIsPositive DEF TypeInv
<1>2. TypeOK'
  BY <1>1 DEF TypeInv, TypeOK, Turn, Row, Lifecycle
<1>3. HEAD' = HEAD /\ HEAD \in Nat
  BY HeadIsPositive DEF HEAD, TypeInv
<1> QED BY <1>2, <1>3, TurnKeepsPositions DEF TypeInv

\* A commit to main.
LEMMA GrowthKeepsTypes ==
  ASSUME TypeInv, NEW p \in Requests, Turn(p),
         UNCHANGED <<drafts, rowVars, lock, author, budget>>,
         main' \in Seq(CommitOf), index' \in Trees, HEAD' = HEAD + 1
  PROVE  TypeInv'
<1> USE DEF rowVars
<1>1. HEAD \in Nat /\ DOMAIN main = 1..HEAD /\ authority \in DOMAIN main
  BY HeadIsPositive DEF TypeInv, TypeOK
<1>2. authority' \in DOMAIN main'
  BY <1>1 DEF HEAD
<1>3. TypeOK'
  BY <1>2 DEF TypeInv, TypeOK, Turn, CommitOf
<1>4. \A r \in Reviews : RowFits(r)'
  BY <1>1, FitsLater DEF TypeInv, Positions
<1> QED BY <1>1, <1>3, <1>4, TurnKeepsPositions DEF TypeInv

LEMMA MoreParts ==
  ASSUME TypeInv
  PROVE  /\ TypeOK /\ LockTypes /\ BranchTypes /\ RowTypes /\ index \in Trees
         /\ outbox \in Seq(Lifecycle) /\ authority \in 1..HEAD /\ HEAD \in Nat \ {0}
         /\ \A r \in Reviews : RowFits(r) /\ review[r] \in Row
         /\ \A p \in Requests : req[p].at # "idle" => RequestFits(req[p])
<1>1. TypeOK
  BY DEF TypeInv
<1> QED BY <1>1, PartsOfTypes, HeadIsPositive DEF TypeInv, TypeOK, Positions, LockTypes, Lifecycle

\* Where a request may go without a new revision.
LEMMA GotoTurns ==
  ASSUME TypeInv, NEW p \in Requests, req[p].at # "idle", NEW x \in Phases,
         Goto(p, x), HEAD' = HEAD,
         x \in Begun => req[p].revision = 0,
         x \in {"committed", "finalize", "audit", "exact"} => req[p].revision \in 2..HEAD,
         x = "catch" => req[p].revision = 0 \/ req[p].revision \in 2..HEAD,
         x # "compensate", x \notin {"exact", "inexact"},
         x \in Compensated => req[p].op # "reconcile",
         x = "squashed" => req[p].op = "approve"
  PROVE  Turn(p)
<1>1. RequestFits(req[p]) /\ TypeOK
  BY DEF TypeInv, Positions
<1>2. req'[p].at = x /\ req'[p].revision = req[p].revision /\ Resumes(req'[p], req[p])
      /\ req' \in [Requests -> RequestState] /\ \A q \in Requests : q # p => req'[q] = req[q]
  BY <1>1, GotoFacts
<1> QED BY <1>1, <1>2 DEF Turn, RequestFits, Resumes

LEMMA EndTurns ==
  ASSUME TypeInv, NEW p \in Requests, End(p)
  PROVE  Turn(p)
BY EndFacts DEF Turn, TypeInv

\* A published review stays published, with the commit it was merged as.
LEMMA PublishedMoves ==
  ASSUME TypeInv, NEW r \in Reviews, NEW x \in Statuses, review[r].status \in Published,
         review' = [review EXCEPT ![r].status = x], HEAD' = HEAD, UNCHANGED author
  PROVE  review' \in [Reviews -> Row] /\ \A t \in Reviews : RowFits(t)'
<1>1. review \in [Reviews -> Row] /\ \A t \in Reviews : RowFits(t) /\ review[t] \in Row
  BY MoreParts DEF RowTypes
<1>2. review'[r] = [review[r] EXCEPT !.status = x]
      /\ \A t \in Reviews : t # r => review'[t] = review[t]
  BY <1>1
<1>3. review'[r] \in Row /\ review'[r].base = review[r].base /\ review'[r].merged = review[r].merged
  BY <1>1, <1>2 DEF Row
<1> QED BY <1>1, <1>2, <1>3 DEF RowFits

LEMMA SharedKeepsTypes ==
  ASSUME TypeInv, NEW p \in Requests, SharedStep(p)
  PROVE  TypeInv'
<1> USE DEF gitVars, rowVars
<1>1. /\ TypeOK /\ LockTypes /\ BranchTypes /\ RowTypes /\ index \in Trees /\ outbox \in Seq(Lifecycle)
      /\ authority \in 1..HEAD /\ HEAD \in Nat \ {0}
      /\ \A r \in Reviews : RowFits(r) /\ review[r] \in Row
      /\ req[p].at # "idle" => RequestFits(req[p])
  BY MoreParts
<1>2. CASE acquireLock(p)
  <2>1. req[p].at = "ready" /\ HEAD' = HEAD /\ (Goto(p, "locked") \/ End(p))
    BY <1>2 DEF acquireLock, HEAD
  <2>2. Turn(p)
    BY <1>1, <2>1, GotoTurns, EndTurns DEF RequestFits, Begun, Compensated, Phases, Locked
  <2>3. LockTypes'
    <3>1. [owner |-> p, expired |-> FALSE] \in [owner: Requests \cup {NoRequest}, expired: BOOLEAN]
      OBVIOUS
    <3> QED BY <1>1, <1>2, <3>1 DEF acquireLock, LockTypes
  <2> QED BY <1>1, <1>2, <2>2, <2>3, MoveKeepsTypes DEF acquireLock, BranchTypes
<1>3. CASE renewPublicationLock(p)
  <2>1. /\ req[p].at \in {"claimed", "committed"} /\ HEAD' = HEAD
        /\ \/ Goto(p, "catch")
           \/ req[p].at = "claimed" /\ Goto(p, "git")
           \/ req[p].at = "committed" /\ Goto(p, "finalize")
    BY <1>3 DEF renewPublicationLock, HEAD
  <2>2. Turn(p)
    BY <1>1, <2>1, GotoTurns DEF RequestFits, Begun, Compensated, Phases, Locked
  <2> QED BY <1>1, <1>3, <2>2, MoveKeepsTypes DEF renewPublicationLock, BranchTypes, LockTypes
<1>4. CASE auditDecision(p)
  <2>1. req[p].at = "audit" /\ HEAD' = HEAD /\ (Goto(p, "cleanup") \/ Goto(p, "release"))
    BY <1>4 DEF auditDecision, HEAD
  <2>2. Turn(p)
    BY <1>1, <2>1, GotoTurns DEF RequestFits, Begun, Compensated, Phases, Locked
  <2> QED BY <1>1, <1>4, <2>2, MoveKeepsTypes DEF auditDecision, BranchTypes, LockTypes
<1>5. CASE cleanupPublished(p)
  <2>1. req[p].at = "cleanup" /\ HEAD' = HEAD /\ Goto(p, "release")
    BY <1>5 DEF cleanupPublished, HEAD
  <2>2. Turn(p)
    BY <1>1, <2>1, GotoTurns DEF RequestFits, Begun, Compensated, Phases, Locked
  <2>3. BranchTypes'
    BY <1>1, <1>5 DEF cleanupPublished, TryCleanupDraft, cleanupDraft, BranchTypes
  <2> QED BY <1>1, <1>5, <2>2, <2>3, MoveKeepsTypes DEF cleanupPublished, LockTypes
<1>6. CASE requireRecovery(p)
  <2>1. req[p].at = "ambiguous" /\ HEAD' = HEAD /\ Goto(p, "release")
    BY <1>6 DEF requireRecovery, HEAD
  <2>2. Turn(p)
    BY <1>1, <2>1, GotoTurns DEF RequestFits, Begun, Compensated, Phases, Locked
  <2>3. req[p].review \in Reviews
    BY <1>1, <2>1, RequestOf
  <2>4. \/ UNCHANGED review
        \/ review' = [review EXCEPT ![req[p].review].status = "PUBLICATION_RECOVERY_REQUIRED"]
        \/ /\ review[req[p].review].status = "ROLLING_BACK"
           /\ review' = [review EXCEPT ![req[p].review].status = "ROLLBACK_RECOVERY_REQUIRED"]
    BY <1>6 DEF requireRecovery, FailClosed
  <2>5. review' \in [Reviews -> Row] /\ \A r \in Reviews : RowFits(r)'
    <3>1. CASE UNCHANGED review
      BY <1>1, <1>6, <2>1, <3>1 DEF requireRecovery, RowTypes, RowFits
    <3>2. CASE review' = [review EXCEPT ![req[p].review].status = "PUBLICATION_RECOVERY_REQUIRED"]
      BY <1>6, <2>3, <3>2, StatusKeepsTypes DEF requireRecovery, RowTypes, Statuses, Published
    <3>3. CASE /\ review[req[p].review].status = "ROLLING_BACK"
               /\ review' = [review EXCEPT ![req[p].review].status = "ROLLBACK_RECOVERY_REQUIRED"]
      BY <1>6, <2>1, <2>3, <3>3, PublishedMoves DEF requireRecovery, Published, Statuses
    <3> QED BY <2>4, <3>1, <3>2, <3>3
  <2> QED BY <1>1, <1>6, <2>2, <2>5, TransactionKeepsTypes DEF requireRecovery, RowTypes
<1>7. CASE releaseLock(p)
  <2>1. LockTypes' /\ End(p)
    BY <1>1, <1>7 DEF releaseLock, LockTypes, Free
  <2> QED BY <1>1, <1>7, <2>1, EndTurns, MoveKeepsTypes DEF releaseLock, BranchTypes
<1> QED BY <1>2, <1>3, <1>4, <1>5, <1>6, <1>7 DEF SharedStep

\* A request that starts afresh.
LEMMA BeginTurns ==
  ASSUME TypeInv, NEW p \in Requests, NEW s \in Active, s.at \in {"read", "ready"},
         req' = [req EXCEPT ![p] = s], s.revision = 0, HEAD' = HEAD,
         s.op = "rollback" => s.merged \in 2..HEAD
  PROVE  Turn(p) /\ req'[p] = s
<1>1. req \in [Requests -> RequestState] /\ s \in RequestState
  BY DEF TypeInv, TypeOK, Active, RequestState
<1>2. req' \in [Requests -> RequestState] /\ req'[p] = s
      /\ \A q \in Requests : q # p => req'[q] = req[q]
  BY <1>1
<1> QED BY <1>2 DEF Turn, RequestFits, Begun, Compensated

LEMMA ReadsKeepTypes ==
  ASSUME TypeInv, NEW p \in Requests, NEW r \in Reviews,
         readRollback(p, r) \/ readIntent(p, r) \/ \E a \in Reviewers : readReview(p, r, a)
  PROVE  TypeInv'
<1> USE DEF gitVars, rowVars
<1>1. /\ TypeOK /\ LockTypes /\ BranchTypes /\ RowTypes /\ index \in Trees
      /\ HEAD \in Nat \ {0} /\ RowFits(r) /\ review[r] \in Row
  BY MoreParts
<1>2. UNCHANGED <<gitVars, rowVars, lock, author, budget>> /\ HEAD' = HEAD
  BY DEF readRollback, readIntent, readReview, HEAD
<1>3. Turn(p)
  <2>1. CASE readRollback(p, r)
    <3> DEFINE s == [op |-> "rollback", at |-> "ready", review |-> r,
                     merged |-> review[r].merged, revision |-> 0]
    <3>1. s \in Active /\ s.merged \in 2..HEAD
      BY <1>1, <2>1 DEF readRollback, RowFits, Row, Published, Active, RollbackRequest, Phases
    <3> QED BY <1>2, <2>1, <3>1, BeginTurns DEF readRollback
  <2>2. CASE readIntent(p, r)
    <3> DEFINE s == [op |-> "reconcile", at |-> "ready", review |-> r, draft |-> 1, revision |-> 0]
    <3>1. s \in Active
      BY BoundAssumption DEF Active, ReconcileRequest, Phases
    <3> QED BY <1>2, <2>2, <3>1, BeginTurns DEF readIntent
  <2>3. CASE \E a \in Reviewers : readReview(p, r, a)
    <3>1. PICK a \in Reviewers : readReview(p, r, a)
      BY <2>3
    <3> DEFINE s == [op |-> "approve", at |-> "read", review |-> r, reviewer |-> a,
                     draft |-> review[r].draft, base |-> review[r].base,
                     approved |-> [draft |-> 0, round |-> 0, policy |-> 0], revision |-> 0]
    <3>2. s \in Active
      BY <1>1 DEF Active, ApproveRequest, Phases, Context, Row
    <3> QED BY <1>2, <3>1, <3>2, BeginTurns DEF readReview
  <2> QED BY <2>1, <2>2, <2>3
<1> QED BY <1>1, <1>2, <1>3, MoveKeepsTypes DEF BranchTypes, LockTypes

\* The expiry of the lock.
LEMMA ExpiryKeepsTypes ==
  ASSUME TypeInv, LockExpires
  PROVE  TypeInv'
<1> USE DEF gitVars, rowVars
<1>1. TypeOK /\ LockTypes /\ HEAD \in Nat
  BY MoreParts
<1>2. lock' \in [owner: Requests \cup {NoRequest}, expired: BOOLEAN] /\ budget' \in 0..MaxFaults
  <2>1. lock' = [lock EXCEPT !.expired = TRUE] /\ (UNCHANGED budget \/ Spend("stall"))
    BY DEF LockExpires
  <2>2. budget' \in 0..MaxFaults
    BY <1>1, <2>1, BoundAssumption DEF LockTypes, Spend
  <2> QED BY <1>1, <2>1, <2>2 DEF LockTypes
<1>3. TypeOK'
  BY <1>1, <1>2 DEF LockExpires, TypeOK
<1>4. Positions'
  BY <1>1, FitsLater DEF LockExpires, TypeInv, Positions, HEAD
<1> QED BY <1>3, <1>4 DEF TypeInv

LEMMA FaultKeepsTypes ==
  ASSUME TypeInv, NEW p \in Requests, Fault(p)
  PROVE  TypeInv'
<1> USE DEF gitVars, rowVars
<1>1. /\ TypeOK /\ LockTypes /\ BranchTypes /\ RowTypes /\ index \in Trees
      /\ HEAD \in Nat \ {0}
      /\ req[p].at # "idle" => RequestFits(req[p])
  BY MoreParts
<1>2. /\ UNCHANGED <<gitVars, rowVars, lock, author>> /\ HEAD' = HEAD
      /\ \E kind \in FaultKinds : Spend(kind)
  BY DEF Fault, StepFails, LateFailure, CommitTorn, Crash, HEAD, FaultKinds
<1>3. LockTypes'
  BY <1>1, <1>2, BoundAssumption DEF LockTypes, Spend
<1>4. Turn(p)
  <2>1. CASE StepFails(p)
    <3>1. \/ Goto(p, "release") /\ req[p].at # "idle"
          \/ /\ Goto(p, "catch") /\ req[p].op # "reconcile"
             /\ req[p].at \in {"locked", "claimed", "git", "committed", "finalize"}
          \/ Goto(p, "ambiguous") /\ req[p].at \in {"catch", "compensate"}
      BY <2>1 DEF StepFails
    <3> QED BY <1>1, <1>2, <3>1, GotoTurns DEF RequestFits, Begun, Compensated, Phases, Locked
  <2>2. CASE LateFailure(p) \/ CommitTorn(p)
    <3>1. Goto(p, "catch") /\ req[p].at \in {"audit", "squashed"}
      BY <2>2 DEF LateFailure, CommitTorn, At
    <3> QED BY <1>1, <1>2, <3>1, GotoTurns DEF RequestFits, Begun, Compensated, Phases, Locked
  <2>3. CASE Crash(p)
    BY <2>3, EndTurns DEF Crash
  <2> QED BY <2>1, <2>2, <2>3 DEF Fault
<1> QED BY <1>1, <1>2, <1>3, <1>4, MoveKeepsTypes DEF BranchTypes

\* The transaction that finalizes a publication.
LEMMA FinalizationKeepsTypes ==
  ASSUME TypeInv, NEW r \in Reviews, NEW revision \in 2..HEAD,
         finalizePublicationTransaction(r, revision), HEAD' = HEAD, UNCHANGED author
  PROVE  review' \in [Reviews -> Row] /\ outbox' \in Seq(Lifecycle) /\ \A t \in Reviews : RowFits(t)'
<1>1. /\ review \in [Reviews -> Row] /\ outbox \in Seq(Lifecycle) /\ HEAD \in Nat
      /\ \A t \in Reviews : RowFits(t) /\ review[t] \in Row
  BY MoreParts DEF RowTypes
<1>2. review'[r] = [review[r] EXCEPT !.status = "APPROVED", !.merged = revision]
      /\ \A t \in Reviews : t # r => review'[t] = review[t]
  BY <1>1 DEF finalizePublicationTransaction
<1>3. review'[r] \in Row /\ review'[r].base = review[r].base /\ review'[r].merged = revision
  <2>1. revision \in Nat /\ "APPROVED" \in Statuses /\ review[r] \in Row
    BY <1>1 DEF Statuses
  <2> QED BY <1>2, <2>1 DEF Row
<1>4. review' \in [Reviews -> Row]
  BY <1>1, <1>3 DEF finalizePublicationTransaction
<1>5. [review |-> r, kind |-> "publish", revision |-> revision] \in Lifecycle
  BY <1>1 DEF Lifecycle
<1>6. outbox' \in Seq(Lifecycle)
  BY <1>1, <1>5 DEF finalizePublicationTransaction
<1> QED BY <1>1, <1>2, <1>3, <1>4, <1>6 DEF RowFits

\* A request's row, and the commits it may revert.
LEMMA RequestRow ==
  ASSUME TypeInv, NEW p \in Requests, req[p].at # "idle"
  PROVE  /\ RequestFits(req[p]) /\ req[p] \in Active /\ req[p].review \in Reviews
         /\ req[p].op = "approve" =>
              /\ req[p] \in ApproveRequest /\ req[p].reviewer \in Reviewers
              /\ <<req[p].review, req[p].draft>> \in Heads
         /\ RowFits(req[p].review) /\ review[req[p].review] \in Row
<1>1. req[p].review \in Reviews /\ req[p] \in Active
      /\ (req[p].op = "approve" => req[p] \in ApproveRequest)
  BY RequestOf DEF TypeInv
<1> QED BY <1>1, MoreParts DEF Heads, ApproveRequest

LEMMA ContextOfRow ==
  ASSUME NEW r \in Reviews, review[r] \in Row
  PROVE  ApprovalContext(r) \in Context
BY ProfileAssumption, BoundAssumption, SMTT(30) DEF ApprovalContext, Context, Row, Profiles

LEMMA ApplyKeepsTrees ==
  ASSUME NEW tree \in Trees, NEW h \in Heads
  PROVE  Apply(tree, h) \in Trees
BY DEF Apply, Trees

\* A revert, and the revision it gives the request.
LEMMA RevertKeepsTypes ==
  ASSUME TypeInv, NEW p \in Requests, req[p].at # "idle", NEW i \in 2..HEAD,
         NEW x \in {"committed", "compensate"}, req[p].op # "reconcile",
         rollbackMain(i), GotoWith(p, x, HEAD + 1),
         UNCHANGED <<drafts, rowVars, lock, author, budget>>
  PROVE  TypeInv'
<1>1. TypeOK /\ HEAD \in Nat \ {0} /\ RequestFits(req[p])
  BY MoreParts
<1>2. /\ main' \in Seq(CommitOf) /\ index' \in Trees /\ HEAD' = HEAD + 1
  BY <1>1, RevertFacts
<1>3. x \in Phases /\ HEAD + 1 \in Nat
  BY <1>1 DEF Phases, Locked
<1>4. /\ req' \in [Requests -> RequestState] /\ \A q \in Requests : q # p => req'[q] = req[q]
      /\ req'[p].at = x /\ req'[p].revision = HEAD + 1 /\ Resumes(req'[p], req[p])
  BY <1>1, <1>3, GotoWithFacts
<1>5. RequestFits(req[p])'
  BY <1>1, <1>2, <1>4 DEF RequestFits, Resumes, Begun, Compensated
<1> QED BY <1>2, <1>4, <1>5, GrowthKeepsTypes DEF Turn

LEMMA ApproveKeepsTypes ==
  ASSUME TypeInv, NEW p \in Requests, ApproveStep(p)
  PROVE  TypeInv'
<1> USE DEF gitVars, rowVars
<1>1. /\ TypeOK /\ LockTypes /\ BranchTypes /\ RowTypes /\ index \in Trees /\ outbox \in Seq(Lifecycle)
      /\ authority \in 1..HEAD /\ HEAD \in Nat \ {0}
      /\ \A t \in Reviews : RowFits(t) /\ review[t] \in Row
  BY MoreParts, SMTT(30)
<1>2. req[p].at # "idle" /\ req[p].op = "approve"
  BY DEF ApproveStep, recordReviewApproval, claimReviewForPublication, squashDraft, commitDraft,
         finalizeApproval, compensateGit, compensateReview, At
<1>3. PICK r \in Reviews :
        /\ r = req[p].review /\ RequestFits(req[p]) /\ req[p] \in ApproveRequest
        /\ req[p].reviewer \in Reviewers /\ <<r, req[p].draft>> \in Heads
  BY <1>2, RequestRow
<1>4. CASE recordReviewApproval(p)
  <2>1. PICK c \in Context : c = ApprovalContext(r)
    BY <1>1, <1>3, ContextOfRow
  <2>2. approvals' \subseteq [review: Reviews, reviewer: Reviewers, context: Context]
    BY <1>1, <1>3, <1>4, <2>1 DEF recordReviewApproval, RowTypes
  <2>3. req[p].at = "read" /\ UNCHANGED <<gitVars, review, profile, lock, authority, outbox, author, budget>>
        /\ (req' = [req EXCEPT ![p].at = "ready", ![p].approved = c] \/ End(p))
    BY <1>3, <1>4, <2>1 DEF recordReviewApproval, At
  <2>4. Turn(p)
    <3>1. CASE req' = [req EXCEPT ![p].at = "ready", ![p].approved = c]
      <4>1. PICK s : s = [req[p] EXCEPT !.at = "ready", !.approved = c]
        OBVIOUS
      <4>2. s \in Active /\ s.at = "ready" /\ s.revision = req[p].revision /\ s.op = "approve"
        BY <1>2, <1>3, <2>1, <4>1 DEF ApproveRequest, Active, Phases
      <4>3. req' = [req EXCEPT ![p] = s] /\ HEAD' = HEAD
        BY <1>1, <2>3, <3>1, <4>1 DEF TypeOK, HEAD
      <4> QED BY <1>3, <2>3, <4>2, <4>3, BeginTurns DEF RequestFits, Begun
    <3> QED BY <2>3, <3>1, EndTurns
  <2> QED BY <1>1, <2>2, <2>3, <2>4, TransactionKeepsTypes DEF RowTypes, RowFits, HEAD
<1>5. CASE claimReviewForPublication(p)
  <2>1. req[p].at = "locked" /\ HEAD' = HEAD /\ (Goto(p, "claimed") \/ Goto(p, "release"))
    BY <1>5 DEF claimReviewForPublication, At, HEAD
  <2>2. Turn(p)
    BY <1>1, <1>2, <1>3, <2>1, GotoTurns DEF RequestFits, Begun, Compensated, Phases, Locked
  <2>3. review' \in [Reviews -> Row] /\ \A t \in Reviews : RowFits(t)'
    <3>1. CASE UNCHANGED review
      BY <1>1, <1>5, <2>1, <3>1 DEF claimReviewForPublication, RowTypes, RowFits
    <3>2. CASE review' = [review EXCEPT ![r].status = "PUBLISHING"]
      BY <1>3, <1>5, <3>2, StatusKeepsTypes
      DEF claimReviewForPublication, RowTypes, Statuses, Published
    <3> QED BY <1>3, <1>5, <3>1, <3>2 DEF claimReviewForPublication
  <2> QED BY <1>1, <1>5, <2>2, <2>3, TransactionKeepsTypes DEF claimReviewForPublication, RowTypes
<1>6. CASE squashDraft(p)
  <2>1. req[p].at = "git" /\ HEAD' = HEAD /\ (Goto(p, "squashed") \/ Goto(p, "catch"))
        /\ index' \in {index, Apply(index, <<r, req[p].draft>>)}
    BY <1>3, <1>6 DEF squashDraft, At, HEAD
  <2>2. Turn(p)
    BY <1>1, <1>2, <1>3, <2>1, GotoTurns DEF RequestFits, Begun, Compensated, Phases, Locked
  <2>3. index' \in Trees
    BY <1>1, <1>3, <2>1, ApplyKeepsTrees
  <2> QED BY <1>1, <1>6, <2>2, <2>3, MoveKeepsTypes DEF squashDraft, BranchTypes, LockTypes
<1>7. CASE commitDraft(p)
  <2>1. CASE Clean
    <3>1. req[p].at = "squashed" /\ HEAD' = HEAD /\ Goto(p, "catch")
      BY <1>7, <2>1 DEF commitDraft, At, HEAD
    <3>2. Turn(p)
      BY <1>1, <1>2, <1>3, <3>1, GotoTurns DEF RequestFits, Begun, Compensated, Phases, Locked
    <3> QED BY <1>1, <1>7, <2>1, <3>2, MoveKeepsTypes DEF commitDraft, BranchTypes, LockTypes
  <2>2. CASE ~Clean
    <3>1. req[p].at = "squashed" /\ Commit(index, {<<r, req[p].draft>>})
          /\ GotoWith(p, "committed", HEAD + 1)
      BY <1>3, <1>7, <2>2 DEF commitDraft, At, GotoWith
    <3>2. main' \in Seq(CommitOf) /\ index' \in Trees /\ HEAD' = HEAD + 1
      BY <1>1, <1>3, <3>1, CommitFacts
    <3>3. "committed" \in Phases /\ HEAD + 1 \in Nat
      BY <1>1 DEF Phases, Locked
    <3>4. /\ req' \in [Requests -> RequestState] /\ \A q \in Requests : q # p => req'[q] = req[q]
          /\ req'[p].at = "committed" /\ req'[p].revision = HEAD + 1 /\ Resumes(req'[p], req[p])
      BY <1>1, <1>2, <3>1, <3>3, GotoWithFacts
    <3>5. RequestFits(req[p])'
      BY <1>1, <1>2, <1>3, <3>2, <3>4 DEF RequestFits, Resumes, Begun, Compensated
    <3> QED BY <1>7, <3>2, <3>4, <3>5, GrowthKeepsTypes DEF Turn, commitDraft
  <2> QED BY <2>1, <2>2
<1>8. CASE finalizeApproval(p)
  <2>1. req[p].at = "finalize" /\ HEAD' = HEAD /\ (Goto(p, "audit") \/ Goto(p, "catch"))
    BY <1>8 DEF finalizeApproval, At, HEAD
  <2>2. Turn(p)
    BY <1>1, <1>2, <1>3, <2>1, GotoTurns DEF RequestFits, Begun, Compensated, Phases, Locked
  <2>3. req[p].revision \in 2..HEAD
    BY <1>3, <2>1 DEF RequestFits
  <2>4. UNCHANGED <<review, outbox>> \/ finalizePublicationTransaction(r, req[p].revision)
    BY <1>3, <1>8 DEF finalizeApproval
  <2>5. review' \in [Reviews -> Row] /\ outbox' \in Seq(Lifecycle) /\ \A t \in Reviews : RowFits(t)'
    BY <1>1, <1>3, <1>8, <2>1, <2>3, <2>4, FinalizationKeepsTypes
    DEF finalizeApproval, RowTypes, RowFits
  <2> QED BY <1>1, <1>8, <2>2, <2>5, TransactionKeepsTypes DEF finalizeApproval, RowTypes
<1>9. CASE compensateGit(p)
  <2> DEFINE merged == req[p].revision
  <2>0. req[p].at = "catch"
    BY <1>9 DEF compensateGit, At
  <2>1. CASE merged # 0 /\ rollbackMain(merged)
             /\ GotoWith(p, "compensate", HEAD + 1)
    <3>1. merged \in 2..HEAD
      BY <1>3, <2>0, <2>1 DEF RequestFits
    <3>2. UNCHANGED <<drafts, rowVars, lock, author, budget>>
      BY <1>9 DEF compensateGit
    <3> QED BY <1>2, <2>1, <3>1, <3>2, RevertKeepsTypes
  <2>2. CASE UNCHANGED <<main, index>>
             /\ GotoWith(p, "compensate", HEAD)
    <3>1. "compensate" \in Phases /\ HEAD' = HEAD
      BY <2>2 DEF Phases, Locked, HEAD
    <3>2. /\ req' \in [Requests -> RequestState] /\ \A q \in Requests : q # p => req'[q] = req[q]
          /\ req'[p].at = "compensate" /\ req'[p].revision = HEAD /\ Resumes(req'[p], req[p])
      BY <1>1, <1>2, <2>2, <3>1, GotoWithFacts
    <3>3. Turn(p)
      BY <1>1, <1>2, <1>3, <3>1, <3>2 DEF Turn, RequestFits, Resumes, Begun, Compensated
    <3> QED BY <1>1, <1>9, <2>2, <3>3, MoveKeepsTypes DEF compensateGit, BranchTypes, LockTypes
  <2>3. CASE UNCHANGED <<main, index>> /\ Goto(p, "ambiguous")
    <3>1. HEAD' = HEAD
      BY <2>3 DEF HEAD
    <3>2. Turn(p)
      BY <1>1, <1>2, <1>3, <2>0, <2>3, <3>1, GotoTurns DEF RequestFits, Begun, Compensated, Phases, Locked
    <3> QED BY <1>1, <1>9, <2>3, <3>2, MoveKeepsTypes DEF compensateGit, BranchTypes, LockTypes
  <2> QED BY <1>9, <2>1, <2>2, <2>3 DEF compensateGit, GotoWith
<1>10. CASE compensateReview(p)
  <2>1. req[p].at = "compensate" /\ HEAD' = HEAD /\ (Goto(p, "release") \/ Goto(p, "ambiguous"))
    BY <1>10 DEF compensateReview, At, HEAD
  <2>2. Turn(p)
    BY <1>1, <1>2, <1>3, <2>1, GotoTurns DEF RequestFits, Begun, Compensated, Phases, Locked
  <2>3. req[p].revision \in 1..HEAD
    BY <1>3, <2>1 DEF RequestFits
  <2>4. review' \in [Reviews -> Row] /\ authority' \in 1..HEAD /\ \A t \in Reviews : RowFits(t)'
    <3>1. CASE UNCHANGED <<review, authority>>
      BY <1>1, <1>10, <2>1, <3>1 DEF compensateReview, RowTypes, RowFits
    <3>2. CASE review' = [review EXCEPT ![r].status = "CHANGES_REQUESTED", ![r].merged = 0,
                                         ![r].base = req[p].revision]
               /\ authority' = req[p].revision
      <4>1. review'[r] = [review[r] EXCEPT !.status = "CHANGES_REQUESTED", !.merged = 0,
                                            !.base = req[p].revision]
            /\ \A t \in Reviews : t # r => review'[t] = review[t]
        BY <1>1, <1>3, <3>2 DEF RowTypes
      <4>2. review'[r] \in Row /\ review'[r].base = req[p].revision
            /\ review'[r].status = "CHANGES_REQUESTED"
        <5>1. req[p].revision \in Nat /\ "CHANGES_REQUESTED" \in Statuses /\ review[r] \in Row
          BY <1>1, <1>3, <2>3 DEF Statuses, Open
        <5>2. PICK row \in Row, b \in Nat : row = review[r] /\ b = req[p].revision
          BY <5>1
        <5>3. review'[r] = [row EXCEPT !.status = "CHANGES_REQUESTED", !.merged = 0, !.base = b]
          BY <4>1, <5>2
        <5>4. PICK row2 : row2 = review'[r]
          OBVIOUS
        <5>5. row2 \in Row /\ row2.base = b /\ row2.status = "CHANGES_REQUESTED"
          <6>1. "CHANGES_REQUESTED" \in Statuses /\ 0 \in Nat
            BY <5>1
          <6>2. row2 = [row EXCEPT !.status = "CHANGES_REQUESTED", !.merged = 0, !.base = b]
            BY <5>3, <5>4
          <6> QED BY <6>1, <6>2 DEF Row
        <5> QED BY <5>2, <5>4, <5>5
      <4>3. UNCHANGED author
        BY <1>10 DEF compensateReview
      <4>4. RowFits(r)'
        BY <1>1, <1>3, <2>1, <2>3, <4>2, <4>3 DEF RowFits, Published
      <4> QED BY <1>1, <2>1, <2>3, <3>2, <4>1, <4>2, <4>3, <4>4 DEF RowFits, RowTypes
    <3> QED BY <1>3, <1>10, <3>1, <3>2 DEF compensateReview
  <2> QED BY <1>1, <1>10, <2>2, <2>4, TransactionKeepsTypes DEF compensateReview, RowTypes
<1> QED BY <1>4, <1>5, <1>6, <1>7, <1>8, <1>9, <1>10 DEF ApproveStep

LEMMA RollbackKeepsTypes ==
  ASSUME TypeInv, NEW p \in Requests, RollbackStep(p)
  PROVE  TypeInv'
<1> USE DEF gitVars, rowVars
<1>1. /\ TypeOK /\ LockTypes /\ BranchTypes /\ RowTypes /\ index \in Trees /\ outbox \in Seq(Lifecycle)
      /\ authority \in 1..HEAD /\ HEAD \in Nat \ {0}
      /\ \A t \in Reviews : RowFits(t) /\ review[t] \in Row
  BY MoreParts, Zenon
<1>2. req[p].at # "idle" /\ req[p].op = "rollback"
  BY DEF RollbackStep, claimRollback, revertPublication, finalizeRollback, restoreGit,
         restoreReview, At
<1>3. PICK r \in Reviews : r = req[p].review /\ RequestFits(req[p])
  BY <1>2, RequestRow
<1>4. CASE claimRollback(p)
  <2>1. req[p].at = "locked" /\ HEAD' = HEAD /\ (Goto(p, "claimed") \/ Goto(p, "release"))
    BY <1>4 DEF claimRollback, At, HEAD
  <2>2. Turn(p)
    BY <1>1, <1>2, <1>3, <2>1, GotoTurns DEF RequestFits, Begun, Compensated, Phases, Locked
  <2>3. review' \in [Reviews -> Row] /\ \A t \in Reviews : RowFits(t)'
    <3>1. CASE UNCHANGED review
      BY <1>1, <1>4, <2>1, <3>1 DEF claimRollback, RowTypes, RowFits
    <3>2. CASE review[r].status = "APPROVED" /\ review' = [review EXCEPT ![r].status = "ROLLING_BACK"]
      BY <1>3, <1>4, <2>1, <3>2, PublishedMoves DEF claimRollback, Statuses, Published
    <3> QED BY <1>3, <1>4, <3>1, <3>2 DEF claimRollback
  <2> QED BY <1>1, <1>4, <2>2, <2>3, TransactionKeepsTypes DEF claimRollback, RowTypes
<1>5. CASE revertPublication(p)
  <2>0. req[p].at = "git" /\ req[p].merged \in 2..HEAD
    BY <1>2, <1>3, <1>5 DEF revertPublication, At, RequestFits
  <2>1. CASE rollbackMain(req[p].merged) /\ GotoWith(p, "committed", HEAD + 1)
    BY <1>2, <1>5, <2>0, <2>1, RevertKeepsTypes DEF revertPublication
  <2>2. CASE UNCHANGED <<main, index>> /\ Goto(p, "catch")
    <3>1. HEAD' = HEAD
      BY <2>2 DEF HEAD
    <3>2. Turn(p)
      BY <1>1, <1>2, <1>3, <2>0, <2>2, <3>1, GotoTurns
      DEF RequestFits, Begun, Compensated, Phases, Locked
    <3> QED BY <1>1, <1>5, <2>2, <3>2, MoveKeepsTypes DEF revertPublication, BranchTypes, LockTypes
  <2> QED BY <1>5, <2>1, <2>2 DEF revertPublication, GotoWith
<1>6. CASE finalizeRollback(p)
  <2>1. req[p].at = "finalize" /\ HEAD' = HEAD /\ (Goto(p, "audit") \/ Goto(p, "catch"))
    BY <1>6 DEF finalizeRollback, At, HEAD
  <2>2. Turn(p)
    BY <1>1, <1>2, <1>3, <2>1, GotoTurns DEF RequestFits, Begun, Compensated, Phases, Locked
  <2>3. req[p].revision \in 2..HEAD /\ req[p].revision \in Nat
    BY <1>1, <1>3, <2>1 DEF RequestFits
  <2>4. /\ review' \in [Reviews -> Row] /\ outbox' \in Seq(Lifecycle) /\ authority' \in 1..HEAD
        /\ \A t \in Reviews : RowFits(t)'
    <3>1. CASE UNCHANGED <<review, authority, outbox>>
      BY <1>1, <1>6, <2>1, <3>1 DEF finalizeRollback, RowTypes, RowFits
    <3>2. CASE /\ review[r].status = "ROLLING_BACK"
               /\ review' = [review EXCEPT ![r].status = "ROLLED_BACK"]
               /\ authority' = req[p].revision
               /\ outbox' = Append(outbox, [review |-> r, kind |-> "rollback",
                                            revision |-> req[p].revision])
      <4>1. [review |-> r, kind |-> "rollback", revision |-> req[p].revision] \in Lifecycle
        BY <2>3 DEF Lifecycle
      <4>2. outbox' \in Seq(Lifecycle) /\ authority' \in 1..HEAD
        BY <1>1, <2>3, <3>2, <4>1
      <4> QED BY <1>6, <2>1, <3>2, <4>2, PublishedMoves DEF finalizeRollback, Statuses, Published
    <3> QED BY <1>3, <1>6, <3>1, <3>2 DEF finalizeRollback
  <2> QED BY <1>1, <1>6, <2>2, <2>4, TransactionKeepsTypes DEF finalizeRollback, RowTypes
<1>7. CASE restoreGit(p)
  <2>0. req[p].at = "catch" /\ req[p].merged \in 2..HEAD
    BY <1>2, <1>3, <1>7 DEF restoreGit, At, RequestFits
  <2>1. CASE req[p].revision # 0 /\ rollbackMain(req[p].revision) /\ GotoWith(p, "compensate", HEAD + 1)
    <3>1. req[p].revision \in 2..HEAD
      BY <1>3, <2>0, <2>1 DEF RequestFits
    <3> QED BY <1>2, <1>7, <2>1, <3>1, RevertKeepsTypes DEF restoreGit
  <2>2. CASE UNCHANGED <<main, index>> /\ GotoWith(p, "compensate", req[p].merged)
    <3>1. "compensate" \in Phases /\ HEAD' = HEAD /\ req[p].merged \in Nat
      BY <1>1, <2>0, <2>2 DEF Phases, Locked, HEAD
    <3>2. /\ req' \in [Requests -> RequestState] /\ \A q \in Requests : q # p => req'[q] = req[q]
          /\ req'[p].at = "compensate" /\ req'[p].revision = req[p].merged
          /\ Resumes(req'[p], req[p])
      BY <1>1, <1>2, <2>2, <3>1, GotoWithFacts
    <3>3. Turn(p)
      BY <1>1, <1>2, <1>3, <2>0, <3>1, <3>2 DEF Turn, RequestFits, Resumes, Begun, Compensated
    <3> QED BY <1>1, <1>7, <2>2, <3>3, MoveKeepsTypes DEF restoreGit, BranchTypes, LockTypes
  <2>3. CASE UNCHANGED <<main, index>> /\ Goto(p, "ambiguous")
    <3>1. HEAD' = HEAD
      BY <2>3 DEF HEAD
    <3>2. Turn(p)
      BY <1>1, <1>2, <1>3, <2>0, <2>3, <3>1, GotoTurns
      DEF RequestFits, Begun, Compensated, Phases, Locked
    <3> QED BY <1>1, <1>7, <2>3, <3>2, MoveKeepsTypes DEF restoreGit, BranchTypes, LockTypes
  <2> QED BY <1>7, <2>1, <2>2, <2>3 DEF restoreGit, GotoWith
<1>8. CASE restoreReview(p)
  <2>1. req[p].at = "compensate" /\ HEAD' = HEAD /\ (Goto(p, "release") \/ Goto(p, "ambiguous"))
    BY <1>8 DEF restoreReview, At, HEAD
  <2>2. Turn(p)
    BY <1>1, <1>2, <1>3, <2>1, GotoTurns DEF RequestFits, Begun, Compensated, Phases, Locked
  <2>3. req[p].revision \in 1..HEAD
    BY <1>3, <2>1 DEF RequestFits
  <2>4. review' \in [Reviews -> Row] /\ authority' \in 1..HEAD /\ \A t \in Reviews : RowFits(t)'
    <3>1. CASE UNCHANGED <<review, authority>>
      BY <1>1, <1>8, <2>1, <3>1 DEF restoreReview, RowTypes, RowFits
    <3>2. CASE /\ review[r].status = "ROLLING_BACK" /\ authority' = req[p].revision
               /\ review' = [review EXCEPT ![r].status = "APPROVED"]
      BY <1>8, <2>1, <2>3, <3>2, PublishedMoves DEF restoreReview, Statuses, Published
    <3> QED BY <1>3, <1>8, <3>1, <3>2 DEF restoreReview
  <2> QED BY <1>1, <1>8, <2>2, <2>4, TransactionKeepsTypes DEF restoreReview, RowTypes
<1> QED BY <1>4, <1>5, <1>6, <1>7, <1>8 DEF RollbackStep

LEMMA ReconcileKeepsTypes ==
  ASSUME TypeInv, NEW p \in Requests, ReconcileStep(p)
  PROVE  TypeInv'
<1> USE DEF gitVars, rowVars
<1>1. /\ TypeOK /\ LockTypes /\ BranchTypes /\ RowTypes /\ index \in Trees /\ outbox \in Seq(Lifecycle)
      /\ authority \in 1..HEAD /\ HEAD \in Nat \ {0}
      /\ \A t \in Reviews : RowFits(t) /\ review[t] \in Row
  BY MoreParts, Zenon
<1>2. req[p].at # "idle" /\ req[p].op = "reconcile" /\ req[p] \in ReconcileRequest
  BY <1>1, RequestOf DEF ReconcileStep, attributeMain, recoverPublication, refuseRecovery, At
<1>3. PICK r \in Reviews : r = req[p].review /\ RequestFits(req[p])
  BY <1>2, RequestRow
<1>4. CASE attributeMain(p)
  <2>1. req[p].at = "locked" /\ HEAD' = HEAD
    BY <1>4 DEF attributeMain, At, HEAD
  <2>2. Turn(p)
    <3>1. CASE Goto(p, "release")
      BY <1>1, <1>2, <1>3, <2>1, <3>1, GotoTurns
      DEF RequestFits, Begun, Compensated, Phases, Locked
    <3>2. ASSUME NEW x \in {"exact", "inexact"}, x = "exact" => HEAD = review[r].base + 1,
                 req' = [req EXCEPT ![p].at = x, ![p].draft = review[r].draft, ![p].revision = HEAD]
          PROVE  Turn(p)
      <4>1. PICK s : s = [req[p] EXCEPT !.at = x, !.draft = review[r].draft, !.revision = HEAD]
        OBVIOUS
      <4>2. x \in Phases /\ review[r].draft \in 1..MaxDrafts /\ HEAD \in Nat
        BY <1>1, <1>3 DEF Phases, Locked, Row
      <4>3. s \in ReconcileRequest /\ s.at = x /\ s.op = "reconcile" /\ s.revision = HEAD
        BY <1>2, <4>1, <4>2 DEF ReconcileRequest
      <4>4. x = "exact" => HEAD \in 2..HEAD
        BY <1>1, <1>3, <3>2 DEF RowFits
      <4>5. req' = [req EXCEPT ![p] = s]
        BY <1>1, <3>2, <4>1 DEF TypeOK
      <4>6. req' \in [Requests -> RequestState] /\ req'[p] = s
            /\ \A q \in Requests : q # p => req'[q] = req[q]
        BY <1>1, <4>3, <4>5 DEF TypeOK, RequestState
      <4> QED BY <1>1, <2>1, <4>3, <4>4, <4>6 DEF Turn, RequestFits, Begun, Compensated
    <3>3. Goto(p, "release")
          \/ \E x \in {"exact", "inexact"} :
               /\ x = "exact" => HEAD = review[r].base + 1
               /\ req' = [req EXCEPT ![p].at = x, ![p].draft = review[r].draft, ![p].revision = HEAD]
      BY <1>3, <1>4 DEF attributeMain, IsExactPublication
    <3> QED BY <3>1, <3>2, <3>3
  <2> QED BY <1>1, <1>4, <2>2, MoveKeepsTypes DEF attributeMain, BranchTypes, LockTypes
<1>5. CASE recoverPublication(p)
  <2>1. req[p].at = "exact" /\ HEAD' = HEAD /\ (Goto(p, "cleanup") \/ Goto(p, "release"))
    BY <1>5 DEF recoverPublication, At, HEAD
  <2>2. Turn(p)
    BY <1>1, <1>2, <1>3, <2>1, GotoTurns DEF RequestFits, Begun, Compensated, Phases, Locked
  <2>3. req[p].revision \in 2..HEAD
    BY <1>3, <2>1 DEF RequestFits
  <2>4. UNCHANGED <<review, outbox>> \/ finalizePublicationTransaction(r, req[p].revision)
    BY <1>3, <1>5 DEF recoverPublication
  <2>5. review' \in [Reviews -> Row] /\ outbox' \in Seq(Lifecycle) /\ \A t \in Reviews : RowFits(t)'
    BY <1>1, <1>3, <1>5, <2>1, <2>3, <2>4, FinalizationKeepsTypes
    DEF recoverPublication, RowTypes, RowFits
  <2> QED BY <1>1, <1>5, <2>2, <2>5, TransactionKeepsTypes DEF recoverPublication, RowTypes
<1>6. CASE refuseRecovery(p)
  <2>1. req[p].at = "inexact" /\ HEAD' = HEAD /\ Goto(p, "release")
    BY <1>6 DEF refuseRecovery, At, HEAD
  <2>2. Turn(p)
    BY <1>1, <1>2, <1>3, <2>1, GotoTurns DEF RequestFits, Begun, Compensated, Phases, Locked
  <2>3. review' \in [Reviews -> Row] /\ \A t \in Reviews : RowFits(t)'
    <3>1. CASE UNCHANGED review
      BY <1>1, <1>6, <2>1, <3>1 DEF refuseRecovery, RowTypes, RowFits
    <3>2. CASE review' = [review EXCEPT ![r].status = "PUBLICATION_RECOVERY_REQUIRED"]
      BY <1>6, <3>2, StatusKeepsTypes DEF refuseRecovery, RowTypes, Statuses, Published
    <3> QED BY <1>3, <1>6, <3>1, <3>2 DEF refuseRecovery, FailClosed
  <2> QED BY <1>1, <1>6, <2>2, <2>3, TransactionKeepsTypes DEF refuseRecovery, RowTypes
<1> QED BY <1>4, <1>5, <1>6 DEF ReconcileStep

LEMMA InitHasTypes == Init => TypeInv
<1> SUFFICES ASSUME Init PROVE TypeInv
  OBVIOUS
<1> USE DEF Init
<1>1. main \in Seq(CommitOf) /\ Len(main) = 1 /\ authority \in DOMAIN main
  BY DEF CommitOf, Trees
<1>2. /\ 1 \in Profiles /\ 1 \in 1..MaxDrafts /\ 1 \in 1..MaxRounds /\ 1 \in Nat /\ 0 \in Nat
      /\ "NONE" \in Statuses
  BY ProfileAssumption, BoundAssumption DEF Profiles, Statuses
<1>3. \A h \in Heads : drafts[h] \in [base: Nat, exists: BOOLEAN]
  BY <1>2
<1>4. [status |-> "NONE", draft |-> 1, base |-> 1, round |-> 1, policy |-> 1, merged |-> 0] \in Row
  BY <1>2 DEF Row
<1>5. drafts \in [Heads -> [base: Nat, exists: BOOLEAN]] /\ review \in [Reviews -> Row]
  BY <1>3, <1>4
<1>6. lock \in [owner: Requests \cup {NoRequest}, expired: BOOLEAN]
  BY DEF Free
<1>7. author \in [Reviews -> Revision \cup {Idle}] /\ req \in [Requests -> RequestState]
  BY DEF RequestState
<1>8. TypeOK
  BY <1>1, <1>2, <1>5, <1>6, <1>7, BoundAssumption DEF TypeOK, CommitOf, Row, Trees
<1>9. Positions
  BY <1>1 DEF Positions, RowFits, HEAD, Idle, Published
<1> QED BY <1>8, <1>9 DEF TypeInv

LEMMA StepKeepsTypes == TypeInv /\ [Next]_vars => TypeInv'
<1> SUFFICES ASSUME TypeInv, [Next]_vars PROVE TypeInv'
  OBVIOUS
<1>1. CASE UNCHANGED vars
  BY <1>1 DEF vars, TypeInv, TypeOK, Positions, RowFits, RequestFits, HEAD
<1>2. CASE Next
  BY <1>2, AuthorKeepsTypes, ReadsKeepTypes, ApproveKeepsTypes, RollbackKeepsTypes,
     ReconcileKeepsTypes, SharedKeepsTypes, FaultKeepsTypes, ActivationKeepsTypes, ExpiryKeepsTypes
  DEF Next, RequestStep
<1> QED BY <1>1, <1>2

\* Rows, commits, branches, locks and requests have their types, and the
\* revisions that rows and requests hold are commits of main, whatever faults strike.
THEOREM RowsAreTyped == Spec => []TypeInv
<1>1. Init => TypeInv
  BY InitHasTypes
<1>2. TypeInv /\ [Next]_vars => TypeInv'
  BY StepKeepsTypes
<1> QED BY <1>1, <1>2, PTL DEF Spec

-----------------------------------------------------------------------------
(* What a step may do to a row and to the outbox.                               *)

\* Nothing is appended for review r; or one lifecycle is.
Quiet(r) ==
  \/ UNCHANGED outbox
  \/ \E e \in Lifecycle : e.review # r /\ outbox' = Append(outbox, e)
Announces(r, kind) ==
  \E e \in Lifecycle : e.review = r /\ e.kind = kind /\ outbox' = Append(outbox, e)

SameContext(r) == ApprovalContext(r)' = ApprovalContext(r)
Turns(r, from, to) == review[r].status = from /\ review'[r].status = to /\ SameContext(r)
KeepsCommit(r) == review'[r].merged = review[r].merged

\* The life of a row.
RowStep(r) ==
  \/ Quiet(r) /\ review'[r] = review[r]
  \/ /\ Quiet(r)
     /\ review[r].status \in Open \cup {"NONE"} /\ review'[r].status \in Open \cup {"REJECTED"}
  \/ /\ Quiet(r) /\ \E from \in Open : Turns(r, from, "PUBLISHING")
     /\ QuorumReached(approvals, r, ApprovalContext(r))
  \/ Quiet(r) /\ Turns(r, "PUBLISHING", "CHANGES_REQUESTED")
  \/ Quiet(r) /\ Turns(r, "PUBLISHING", "PUBLICATION_RECOVERY_REQUIRED")
  \/ Announces(r, "publish") /\ Turns(r, "PUBLISHING", "APPROVED")
  \/ /\ Quiet(r) /\ KeepsCommit(r)
     /\ \/ Turns(r, "APPROVED", "ROLLING_BACK")
        \/ Turns(r, "ROLLING_BACK", "APPROVED")
        \/ Turns(r, "ROLLING_BACK", "ROLLBACK_RECOVERY_REQUIRED")
  \/ Announces(r, "rollback") /\ KeepsCommit(r) /\ Turns(r, "ROLLING_BACK", "ROLLED_BACK")

LEMMA QuietRow ==
  ASSUME NEW r \in Reviews, UNCHANGED <<review, outbox>>
  PROVE  RowStep(r)
BY DEF RowStep, Quiet

\* One row changes its status.
LEMMA StatusTurns ==
  ASSUME TypeInv, NEW s \in Reviews, NEW x, review' = [review EXCEPT ![s].status = x]
  PROVE  /\ Turns(s, review[s].status, x) /\ KeepsCommit(s)
         /\ \A r \in Reviews : r # s => review'[r] = review[r]
<1>1. review \in [Reviews -> Row] /\ review[s] \in Row
  BY MoreParts DEF RowTypes
<1>2. review'[s] = [review[s] EXCEPT !.status = x]
      /\ \A r \in Reviews : r # s => review'[r] = review[r]
  BY <1>1
<1>3. /\ review'[s].status = x /\ review'[s].draft = review[s].draft
      /\ review'[s].round = review[s].round /\ review'[s].policy = review[s].policy
      /\ review'[s].merged = review[s].merged
  BY <1>1, <1>2 DEF Row
<1> QED BY <1>2, <1>3 DEF Turns, KeepsCommit, SameContext, ApprovalContext

LEMMA FinalizationTurns ==
  ASSUME TypeInv, NEW s \in Reviews, NEW n \in Nat, finalizePublicationTransaction(s, n),
         NEW r \in Reviews
  PROVE  RowStep(r)
<1>1. review \in [Reviews -> Row] /\ review[s] \in Row
  BY MoreParts DEF RowTypes
<1>2. review'[s] = [review[s] EXCEPT !.status = "APPROVED", !.merged = n]
      /\ (r # s => review'[r] = review[r]) /\ review[s].status = "PUBLISHING"
  BY <1>1 DEF finalizePublicationTransaction
<1>3. /\ review'[s].status = "APPROVED" /\ review'[s].draft = review[s].draft
      /\ review'[s].round = review[s].round /\ review'[s].policy = review[s].policy
  BY <1>1, <1>2 DEF Row
<1>4. PICK e \in Lifecycle : e.review = s /\ e.kind = "publish" /\ outbox' = Append(outbox, e)
  <2> DEFINE e == [review |-> s, kind |-> "publish", revision |-> n]
  <2>1. e \in Lifecycle /\ e.review = s /\ e.kind = "publish"
    BY DEF Lifecycle
  <2> QED BY <2>1 DEF finalizePublicationTransaction
<1>5. CASE r = s
  BY <1>2, <1>3, <1>4, <1>5 DEF RowStep, Announces, Turns, SameContext, ApprovalContext
<1>6. CASE r # s
  BY <1>2, <1>4, <1>6 DEF RowStep, Quiet
<1> QED BY <1>5, <1>6

\* A status changes and nothing is announced.
LEMMA QuietTurns ==
  ASSUME TypeInv, NEW s \in Reviews, NEW x, review' = [review EXCEPT ![s].status = x],
         UNCHANGED outbox, NEW r \in Reviews,
         \/ review[s].status \in Open /\ x \in Open \cup {"REJECTED"}
         \/ /\ review[s].status \in Open /\ x = "PUBLISHING"
            /\ QuorumReached(approvals, s, ApprovalContext(s))
         \/ review[s].status = "PUBLISHING" /\ x = "PUBLICATION_RECOVERY_REQUIRED"
         \/ review[s].status = "APPROVED" /\ x = "ROLLING_BACK"
         \/ review[s].status = "ROLLING_BACK" /\ x \in {"APPROVED", "ROLLBACK_RECOVERY_REQUIRED"}
  PROVE  RowStep(r)
<1>1. Turns(s, review[s].status, x) /\ KeepsCommit(s) /\ (r # s => review'[r] = review[r]) /\ Quiet(r)
  BY StatusTurns DEF Quiet
<1>2. CASE r = s
  BY <1>1, <1>2 DEF RowStep, Turns
<1>3. CASE r # s
  BY <1>1, <1>3 DEF RowStep
<1> QED BY <1>2, <1>3

LEMMA AuthorRowStep ==
  ASSUME TypeInv, NEW s \in Reviews, AuthorStep(s) \/ requestChanges(s) \/ reject(s),
         NEW r \in Reviews
  PROVE  RowStep(r) /\ UNCHANGED approvals
<1> USE DEF gitVars, rowVars
<1>1. review \in [Reviews -> Row] /\ review[s] \in Row
  BY MoreParts DEF RowTypes
<1>2. UNCHANGED <<approvals, outbox>> /\ Quiet(r)
  BY DEF AuthorStep, createReviewDraft, submit, reviseDraft, reviseUpdate, cleanupSuperseded,
         AuthorCrash, reviseThrows, requestChanges, reject, Quiet
<1>3. CASE submit(s) \/ reject(s)
  BY <1>2, <1>3, QuietTurns DEF submit, reject, Open
<1>4. CASE createReviewDraft(s) \/ requestChanges(s)
  <2>1. (r # s => review'[r] = review[r])
        /\ review[s].status \in Open \cup {"NONE"} /\ review'[s].status \in Open
    BY <1>1, <1>4 DEF createReviewDraft, requestChanges, Open, Row
  <2> QED BY <1>2, <2>1 DEF RowStep
<1>5. CASE reviseUpdate(s)
  <2>1. CASE UNCHANGED review
    BY <1>2, <2>1, QuietRow
  <2>2. CASE /\ review[s].status = "CHANGES_REQUESTED"
             /\ review' = [review EXCEPT ![s].draft = author[s].old + 1, ![s].policy = author[s].policy]
    <3>1. (r # s => review'[r] = review[r]) /\ review'[s].status = "CHANGES_REQUESTED"
      BY <1>1, <2>2 DEF Row
    <3> QED BY <1>2, <2>2, <3>1 DEF RowStep, Open
  <2> QED BY <1>5, <2>1, <2>2 DEF reviseUpdate
<1>6. CASE reviseDraft(s) \/ cleanupSuperseded(s) \/ AuthorCrash(s) \/ reviseThrows(s)
  BY <1>2, <1>6, QuietRow DEF reviseDraft, cleanupSuperseded, AuthorCrash, reviseThrows
<1> QED BY <1>2, <1>3, <1>4, <1>5, <1>6 DEF AuthorStep

LEMMA RequestRowStep ==
  ASSUME TypeInv, NEW p \in Requests, RequestStep(p), NEW r \in Reviews
  PROVE  RowStep(r) /\ approvals \subseteq approvals'
<1> USE DEF gitVars, rowVars
<1>1. review \in [Reviews -> Row] /\ outbox \in Seq(Lifecycle) /\ HEAD \in Nat
  BY MoreParts DEF RowTypes
<1>2. req[p].at # "idle" => req[p].review \in Reviews /\ req[p].revision \in Nat
  BY RequestOf DEF TypeInv
<1>3. CASE SharedStep(p) \/ squashDraft(p) \/ commitDraft(p) \/ compensateGit(p)
           \/ revertPublication(p) \/ restoreGit(p) \/ attributeMain(p) \/ recordReviewApproval(p)
  <2>1. CASE requireRecovery(p)
    <3>1. UNCHANGED <<outbox, approvals>> /\ req[p].review \in Reviews
      BY <1>2, <2>1 DEF requireRecovery
    <3>2. \/ UNCHANGED review
          \/ /\ review[req[p].review].status = "PUBLISHING"
             /\ review' = [review EXCEPT ![req[p].review].status = "PUBLICATION_RECOVERY_REQUIRED"]
          \/ /\ review[req[p].review].status = "ROLLING_BACK"
             /\ review' = [review EXCEPT ![req[p].review].status = "ROLLBACK_RECOVERY_REQUIRED"]
      BY <2>1 DEF requireRecovery, FailClosed
    <3> QED BY <3>1, <3>2, QuietRow, QuietTurns
  <2>2. CASE ~requireRecovery(p)
    <3>1. UNCHANGED <<review, outbox>> /\ approvals \subseteq approvals'
      BY <1>3, <2>2
      DEF SharedStep, acquireLock, renewPublicationLock, auditDecision, cleanupPublished, releaseLock,
          squashDraft, commitDraft, compensateGit, revertPublication, restoreGit, attributeMain,
          recordReviewApproval
    <3> QED BY <3>1, QuietRow
  <2> QED BY <2>1, <2>2
<1>4. CASE claimReviewForPublication(p)
  <2>1. PICK s \in Reviews : s = req[p].review
    BY <1>2, <1>4 DEF claimReviewForPublication, At
  <2>2. UNCHANGED <<outbox, approvals>>
        /\ \/ UNCHANGED review
           \/ /\ review[s].status \in Open /\ QuorumReached(approvals, s, ApprovalContext(s))
              /\ review' = [review EXCEPT ![s].status = "PUBLISHING"]
    BY <1>4, <2>1 DEF claimReviewForPublication, ApprovalStands
  <2> QED BY <2>2, QuietRow, QuietTurns
<1>5. CASE finalizeApproval(p) \/ recoverPublication(p)
  <2>1. PICK s \in Reviews, n \in Nat : s = req[p].review /\ n = req[p].revision
    BY <1>2, <1>5 DEF finalizeApproval, recoverPublication, At
  <2>2. UNCHANGED approvals /\ (UNCHANGED <<review, outbox>> \/ finalizePublicationTransaction(s, n))
    BY <1>5, <2>1 DEF finalizeApproval, recoverPublication
  <2> QED BY <2>2, QuietRow, FinalizationTurns
<1>6. CASE compensateReview(p)
  <2>1. PICK s \in Reviews : s = req[p].review
    BY <1>2, <1>6 DEF compensateReview, At
  <2>2. UNCHANGED <<outbox, approvals>>
        /\ \/ UNCHANGED review
           \/ /\ review[s].status = "PUBLISHING"
              /\ review' = [review EXCEPT ![s].status = "CHANGES_REQUESTED", ![s].merged = 0,
                                          ![s].base = req[p].revision]
    BY <1>6, <2>1 DEF compensateReview
  <2>3. CASE UNCHANGED review
    BY <2>2, <2>3, QuietRow
  <2>4. CASE review[s].status = "PUBLISHING"
             /\ review' = [review EXCEPT ![s].status = "CHANGES_REQUESTED", ![s].merged = 0,
                                         ![s].base = req[p].revision]
    <3>1. review'[s] = [review[s] EXCEPT !.status = "CHANGES_REQUESTED", !.merged = 0,
                                         !.base = req[p].revision]
          /\ (r # s => review'[r] = review[r]) /\ review[s] \in Row
      BY <1>1, <2>4
    <3>2. /\ review'[s].status = "CHANGES_REQUESTED" /\ review'[s].draft = review[s].draft
          /\ review'[s].round = review[s].round /\ review'[s].policy = review[s].policy
      BY <3>1 DEF Row
    <3> QED BY <2>2, <2>4, <3>1, <3>2 DEF RowStep, Quiet, Turns, SameContext, ApprovalContext
  <2> QED BY <2>2, <2>3, <2>4
<1>7. CASE claimRollback(p) \/ restoreReview(p)
  <2>1. PICK s \in Reviews : s = req[p].review
    BY <1>2, <1>7 DEF claimRollback, restoreReview, At
  <2>2. UNCHANGED <<outbox, approvals>>
        /\ \/ UNCHANGED review
           \/ /\ review[s].status = "APPROVED"
              /\ review' = [review EXCEPT ![s].status = "ROLLING_BACK"]
           \/ /\ review[s].status = "ROLLING_BACK"
              /\ review' = [review EXCEPT ![s].status = "APPROVED"]
    BY <1>7, <2>1 DEF claimRollback, restoreReview
  <2> QED BY <2>2, QuietRow, QuietTurns
<1>8. CASE finalizeRollback(p)
  <2>1. PICK s \in Reviews, n \in Nat : s = req[p].review /\ n = req[p].revision
    BY <1>2, <1>8 DEF finalizeRollback, At
  <2>2. UNCHANGED approvals
        /\ \/ UNCHANGED <<review, outbox>>
           \/ /\ review[s].status = "ROLLING_BACK"
              /\ review' = [review EXCEPT ![s].status = "ROLLED_BACK"]
              /\ outbox' = Append(outbox, [review |-> s, kind |-> "rollback", revision |-> n])
    BY <1>8, <2>1 DEF finalizeRollback
  <2>3. CASE UNCHANGED <<review, outbox>>
    BY <2>2, <2>3, QuietRow
  <2>4. CASE /\ review[s].status = "ROLLING_BACK"
             /\ review' = [review EXCEPT ![s].status = "ROLLED_BACK"]
             /\ outbox' = Append(outbox, [review |-> s, kind |-> "rollback", revision |-> n])
    <3>1. PICK e \in Lifecycle : e.review = s /\ e.kind = "rollback" /\ outbox' = Append(outbox, e)
      <4> DEFINE e == [review |-> s, kind |-> "rollback", revision |-> n]
      <4>1. e \in Lifecycle /\ e.review = s /\ e.kind = "rollback"
        BY DEF Lifecycle
      <4> QED BY <2>4, <4>1
    <3>2. Turns(s, "ROLLING_BACK", "ROLLED_BACK") /\ KeepsCommit(s)
          /\ (r # s => review'[r] = review[r])
      BY <2>4, StatusTurns DEF Turns
    <3>3. CASE r = s
      BY <2>2, <3>1, <3>2, <3>3 DEF RowStep, Announces
    <3>4. CASE r # s
      BY <2>2, <3>1, <3>2, <3>4 DEF RowStep, Quiet
    <3> QED BY <2>2, <3>3, <3>4
  <2> QED BY <2>2, <2>3, <2>4
<1>9. CASE refuseRecovery(p)
  <2>1. PICK s \in Reviews : s = req[p].review
    BY <1>2, <1>9 DEF refuseRecovery, At
  <2>2. UNCHANGED <<outbox, approvals>>
        /\ \/ UNCHANGED review
           \/ /\ review[s].status = "PUBLISHING"
              /\ review' = [review EXCEPT ![s].status = "PUBLICATION_RECOVERY_REQUIRED"]
    BY <1>9, <2>1 DEF refuseRecovery, FailClosed
  <2> QED BY <2>2, QuietRow, QuietTurns
<1> QED BY <1>3, <1>4, <1>5, <1>6, <1>7, <1>8, <1>9
        DEF RequestStep, ApproveStep, RollbackStep, ReconcileStep

LEMMA EveryRowStep ==
  ASSUME TypeInv, [Next]_vars, NEW r \in Reviews
  PROVE  RowStep(r) /\ approvals \subseteq approvals'
<1> USE DEF gitVars, rowVars
<1>1. CASE UNCHANGED vars
  BY <1>1, QuietRow DEF vars
<1>2. CASE \E s \in Reviews : AuthorStep(s) \/ requestChanges(s) \/ reject(s)
  BY <1>2, AuthorRowStep
<1>3. CASE \E p \in Requests : RequestStep(p)
  BY <1>3, RequestRowStep
<1>4. CASE \/ activateProfile \/ LockExpires \/ \E p \in Requests : Fault(p)
           \/ \E p \in Requests, s \in Reviews :
                readRollback(p, s) \/ readIntent(p, s) \/ \E a \in Reviewers : readReview(p, s, a)
  <2>1. UNCHANGED <<review, outbox, approvals>>
    BY <1>4 DEF activateProfile, LockExpires, Fault, StepFails, LateFailure, CommitTorn, Crash,
                readRollback, readIntent, readReview
  <2> QED BY <2>1, QuietRow
<1> QED BY <1>1, <1>2, <1>3, <1>4 DEF Next

-----------------------------------------------------------------------------
(* Decisions.                                                                   *)

\* A rejected, rolled back or unrecovered review never moves again, an intent is
\* not revised while it is pending, and a published review keeps its commit.
THEOREM DecisionsAreFinal == Spec => DecisionIsFinal
<1>1. TypeInv /\ [Next]_vars =>
      [\A r \in Reviews :
         /\ review[r].status \in {"REJECTED", "ROLLED_BACK", "PUBLICATION_RECOVERY_REQUIRED",
                                  "ROLLBACK_RECOVERY_REQUIRED"}
              => review'[r] = review[r]
         /\ review[r].status = "PUBLISHING" => ApprovalContext(r)' = ApprovalContext(r)
         /\ review[r].status \in Published
              => review'[r].status \in Published /\ review'[r].merged = review[r].merged]_vars
  <2> SUFFICES ASSUME TypeInv, [Next]_vars, NEW r \in Reviews
               PROVE  /\ review[r].status \in {"REJECTED", "ROLLED_BACK", "PUBLICATION_RECOVERY_REQUIRED",
                                  "ROLLBACK_RECOVERY_REQUIRED"}
                           => review'[r] = review[r]
                      /\ review[r].status = "PUBLISHING" => ApprovalContext(r)' = ApprovalContext(r)
                      /\ review[r].status \in Published
                           => review'[r].status \in Published /\ review'[r].merged = review[r].merged
    OBVIOUS
  <2>1. RowStep(r)
    BY EveryRowStep
  <2> QED BY <2>1 DEF RowStep, Turns, SameContext, ApprovalContext, KeepsCommit, Open, Published
<1> QED BY <1>1, RowsAreTyped, PTL DEF Spec, DecisionIsFinal

\* Approvals are never taken back.
LEMMA QuorumLasts ==
  ASSUME NEW rows, NEW more, rows \subseteq more, NEW r \in Reviews, NEW c,
         c.policy \in Profiles, QuorumReached(rows, r, c)
  PROVE  QuorumReached(more, r, c)
<1> DEFINE Who(s) == {a \in Reviewers : [review |-> r, reviewer |-> a, context |-> c] \in s}
<1>1. IsFiniteSet(Who(more)) /\ Who(rows) \subseteq Who(more)
  BY ReviewerAssumption, FS_Subset
<1>2. Cardinality(Who(rows)) \in Nat /\ Cardinality(Who(more)) \in Nat
      /\ Cardinality(Who(rows)) <= Cardinality(Who(more))
  BY <1>1, FS_Subset, FS_CardinalityType
<1>3. MinimumApprovals[c.policy] \in Nat
  BY ProfileAssumption DEF Profiles
<1> HIDE DEF Who
<1> QED BY <1>2, <1>3 DEF QuorumReached, ApprovalCount, Who

\* An intent, and everything published, rests on a quorum of distinct reviewers
\* for the draft, round and policy of its row, whatever raced with the approvals.
THEOREM IntentsRestOnQuorums == Spec => []QuorumBacksIntent
<1>1. Init => QuorumBacksIntent
  BY DEF Init, QuorumBacksIntent, Published
<1>2. TypeInv /\ QuorumBacksIntent /\ [Next]_vars => QuorumBacksIntent'
  <2> SUFFICES ASSUME TypeInv, QuorumBacksIntent, [Next]_vars, NEW r \in Reviews,
                      review'[r].status \in Published \cup {"PUBLISHING"}
               PROVE  QuorumReached(approvals, r, ApprovalContext(r))'
    BY DEF QuorumBacksIntent
  <2>1. RowStep(r) /\ approvals \subseteq approvals' /\ review[r] \in Row
    BY EveryRowStep, MoreParts
  <2>2. ApprovalContext(r)' = ApprovalContext(r) /\ QuorumReached(approvals, r, ApprovalContext(r))
    BY <2>1 DEF RowStep, Turns, SameContext, ApprovalContext, QuorumBacksIntent, Open, Published
  <2>3. ApprovalContext(r).policy \in Profiles
    BY <2>1 DEF ApprovalContext, Row
  <2>4. QuorumReached(approvals', r, ApprovalContext(r))
    BY <2>1, <2>2, <2>3, QuorumLasts
  <2> QED BY <2>2, <2>4 DEF QuorumReached, ApprovalCount
<1> QED BY <1>1, <1>2, RowsAreTyped, PTL DEF Spec

\* The lifecycles of a review in the outbox.
Lifecycles(r, kind) == {i \in DOMAIN outbox : outbox[i].review = r /\ outbox[i].kind = kind}

LEMMA CountStays ==
  ASSUME outbox \in Seq(Lifecycle), NEW r \in Reviews, NEW kind,
         \/ Quiet(r)
         \/ \E other : other # kind /\ Announces(r, other)
  PROVE  Lifecycles(r, kind)' = Lifecycles(r, kind)
<1>1. CASE UNCHANGED outbox
  BY <1>1 DEF Lifecycles
<1>2. CASE \E e \in Lifecycle : (e.review # r \/ e.kind # kind) /\ outbox' = Append(outbox, e)
  <2>1. PICK e \in Lifecycle : (e.review # r \/ e.kind # kind) /\ outbox' = Append(outbox, e)
    BY <1>2
  <2>2. /\ DOMAIN outbox = 1..Len(outbox) /\ DOMAIN outbox' = 1..(Len(outbox) + 1)
        /\ Len(outbox) \in Nat /\ outbox'[Len(outbox) + 1] = e
        /\ \A i \in 1..Len(outbox) : outbox'[i] = outbox[i]
    BY <2>1
  <2> QED BY <2>1, <2>2 DEF Lifecycles
<1> QED BY <1>1, <1>2 DEF Quiet, Announces

LEMMA CountGrows ==
  ASSUME outbox \in Seq(Lifecycle), NEW r \in Reviews, NEW kind, Announces(r, kind)
  PROVE  Cardinality(Lifecycles(r, kind)') = Cardinality(Lifecycles(r, kind)) + 1
<1>1. PICK e \in Lifecycle : e.review = r /\ e.kind = kind /\ outbox' = Append(outbox, e)
  BY DEF Announces
<1>2. /\ DOMAIN outbox = 1..Len(outbox) /\ DOMAIN outbox' = 1..(Len(outbox) + 1)
      /\ Len(outbox) \in Nat /\ outbox'[Len(outbox) + 1] = e
      /\ \A i \in 1..Len(outbox) : outbox'[i] = outbox[i]
  BY <1>1
<1>3. Lifecycles(r, kind)' = Lifecycles(r, kind) \cup {Len(outbox) + 1}
  BY <1>1, <1>2 DEF Lifecycles
<1>4. Len(outbox) + 1 \notin Lifecycles(r, kind) /\ Lifecycles(r, kind) \subseteq 1..Len(outbox)
  BY <1>2 DEF Lifecycles
<1>5. IsFiniteSet(Lifecycles(r, kind))
  <2>1. IsFiniteSet(1..Len(outbox))
    BY <1>2, FS_Interval
  <2> QED BY <1>4, <2>1, FS_Subset
<1> QED BY <1>3, <1>4, <1>5, FS_AddElement

\* A review has appended one publication lifecycle exactly when it is published,
\* and one rollback lifecycle exactly when it is rolled back.
THEOREM LifecyclesAreAnnouncedOnce == Spec => []PublishedOnce
<1> DEFINE Once(r) ==
      /\ Cardinality(Lifecycles(r, "publish")) = IF review[r].status \in Published THEN 1 ELSE 0
      /\ Cardinality(Lifecycles(r, "rollback")) = IF review[r].status = "ROLLED_BACK" THEN 1 ELSE 0
<1>1. PublishedOnce <=> \A r \in Reviews : Once(r)
  BY DEF PublishedOnce, Lifecycles
<1>2. Init => \A r \in Reviews : Once(r)
  <2> SUFFICES ASSUME Init, NEW r \in Reviews PROVE Once(r)
    OBVIOUS
  <2>1. \A kind : Lifecycles(r, kind) = {}
    BY DEF Init, Lifecycles
  <2> QED BY <2>1, FS_EmptySet DEF Init, Published
<1>3. TypeInv /\ (\A r \in Reviews : Once(r)) /\ [Next]_vars => (\A r \in Reviews : Once(r))'
  <2> SUFFICES ASSUME TypeInv, [Next]_vars, NEW r \in Reviews, Once(r) PROVE Once(r)'
    OBVIOUS
  <2>1. RowStep(r) /\ outbox \in Seq(Lifecycle)
    BY EveryRowStep, MoreParts
  <2>2. CASE /\ Quiet(r) /\ (review'[r].status \in Published <=> review[r].status \in Published)
             /\ (review'[r].status = "ROLLED_BACK" <=> review[r].status = "ROLLED_BACK")
    <3>1. Lifecycles(r, "publish")' = Lifecycles(r, "publish")
          /\ Lifecycles(r, "rollback")' = Lifecycles(r, "rollback")
      BY <2>1, <2>2, CountStays
    <3> QED BY <2>2, <3>1
  <2>3. CASE Announces(r, "publish") /\ Turns(r, "PUBLISHING", "APPROVED")
    <3>1. Cardinality(Lifecycles(r, "publish")') = Cardinality(Lifecycles(r, "publish")) + 1
          /\ Lifecycles(r, "rollback")' = Lifecycles(r, "rollback")
      BY <2>1, <2>3, CountGrows, CountStays
    <3> QED BY <2>3, <3>1 DEF Turns, Published
  <2>4. CASE Announces(r, "rollback") /\ Turns(r, "ROLLING_BACK", "ROLLED_BACK")
    <3>1. Cardinality(Lifecycles(r, "rollback")') = Cardinality(Lifecycles(r, "rollback")) + 1
          /\ Lifecycles(r, "publish")' = Lifecycles(r, "publish")
      BY <2>1, <2>4, CountGrows, CountStays
    <3> QED BY <2>4, <3>1 DEF Turns, Published
  <2>5. \/ /\ Quiet(r) /\ (review'[r].status \in Published <=> review[r].status \in Published)
           /\ (review'[r].status = "ROLLED_BACK" <=> review[r].status = "ROLLED_BACK")
        \/ Announces(r, "publish") /\ Turns(r, "PUBLISHING", "APPROVED")
        \/ Announces(r, "rollback") /\ Turns(r, "ROLLING_BACK", "ROLLED_BACK")
    BY <2>1 DEF RowStep, Turns, Published, Open
  <2> QED BY <2>2, <2>3, <2>4, <2>5
<1> HIDE DEF Once
<1> QED BY <1>1, <1>2, <1>3, RowsAreTyped, PTL DEF Spec

-----------------------------------------------------------------------------
(* The publication lock.                                                        *)

\* Whoever works on main holds the lock, which has not expired.
LockHeld ==
  \A p \in Requests : req[p].at \in Locked => lock = [owner |-> p, expired |-> FALSE]

\* A step of a request is taken by its holder, or gets it the lock, or leaves it without.
LEMMA WhoSteps ==
  ASSUME TypeInv, NEW p \in Requests, RequestStep(p) \/ Fault(p)
  PROVE  /\ \A q \in Requests : q # p => req'[q] = req[q]
         /\ \/ acquireLock(p) \/ releaseLock(p)
            \/ UNCHANGED lock /\ req[p].at \in Locked
            \/ UNCHANGED lock /\ req'[p].at \notin Locked
<1> USE DEF At, Goto, End
<1>1. CASE recordReviewApproval(p)
  <2>1. req[p].at # "idle" /\ req \in [Requests -> RequestState]
    BY <1>1 DEF recordReviewApproval, TypeInv, TypeOK
  <2>2. req'[p].at \in {"ready", "idle"}
    <3>1. CASE End(p)
      BY <2>1, <3>1 DEF Idle
    <3>2. CASE ~End(p)
      <4>1. PICK c : req' = [req EXCEPT ![p].at = "ready", ![p].approved = c]
        BY <1>1, <3>2 DEF recordReviewApproval
      <4>2. req'[p].at = "ready"
        <5>1. req'[p] = [req[p] EXCEPT !.at = "ready", !.approved = c]
          BY <2>1, <4>1
        <5>2. req[p] \in ApproveRequest
          BY <1>1, RequestOf DEF recordReviewApproval, TypeInv
        <5> QED BY <5>1, <5>2 DEF ApproveRequest
      <4> QED BY <4>2
    <3> QED BY <3>1, <3>2
  <2> QED BY <1>1, <2>1, <2>2 DEF recordReviewApproval, Locked
<1>2. CASE SharedStep(p)
  BY <1>2 DEF SharedStep, acquireLock, renewPublicationLock, auditDecision, cleanupPublished,
              requireRecovery, releaseLock, TypeInv, TypeOK, Locked
<1>3. CASE \/ claimReviewForPublication(p) \/ squashDraft(p) \/ commitDraft(p)
           \/ finalizeApproval(p) \/ compensateReview(p)
  BY <1>3 DEF claimReviewForPublication, squashDraft, commitDraft, finalizeApproval,
              compensateReview, TypeInv, TypeOK, Locked
<1>4. CASE compensateGit(p)
  BY <1>4 DEF compensateGit, TypeInv, TypeOK, Locked
<1>5. CASE RollbackStep(p)
  BY <1>5 DEF RollbackStep, claimRollback, revertPublication, finalizeRollback, restoreGit,
              restoreReview, TypeInv, TypeOK, Locked
<1>6. CASE ReconcileStep(p)
  BY <1>6 DEF ReconcileStep, attributeMain, recoverPublication, refuseRecovery, TypeInv, TypeOK, Locked
<1>7. CASE Fault(p)
  BY <1>7 DEF Fault, StepFails, LateFailure, CommitTorn, Crash, TypeInv, TypeOK, Locked
<1> QED BY <1>1, <1>2, <1>3, <1>4, <1>5, <1>6, <1>7 DEF RequestStep, ApproveStep

\* Only the two halves of mergeDraft are about a squashed draft.
LEMMA StepsPastSquash ==
  ASSUME "torn" \notin Faults, TypeInv, NEW p \in Requests, RequestStep(p) \/ Fault(p),
         ~squashDraft(p), ~commitDraft(p)
  PROVE  req[p].at # "squashed" /\ req'[p].at # "squashed"
<1> USE DEF At, Goto, End
<1>0. req \in [Requests -> RequestState]
  BY SMTT(30) DEF TypeInv, TypeOK
<1>1. req[p].at # "squashed"
  BY ZenonT(60) DEF RequestStep, ApproveStep, RollbackStep, ReconcileStep, SharedStep, Fault,
         recordReviewApproval, claimReviewForPublication, finalizeApproval, compensateReview,
         compensateGit, revertPublication, restoreGit,
         claimRollback, finalizeRollback, restoreReview, attributeMain, recoverPublication,
         refuseRecovery, acquireLock, renewPublicationLock, auditDecision, cleanupPublished,
         requireRecovery, releaseLock, StepFails, LateFailure, CommitTorn, Crash, Spend
<1>2. req[p].at # "idle"
  BY DEF RequestStep, ApproveStep, RollbackStep, ReconcileStep, SharedStep, Fault,
         recordReviewApproval, claimReviewForPublication, finalizeApproval, compensateReview,
         compensateGit, revertPublication, restoreGit,
         claimRollback, finalizeRollback, restoreReview, attributeMain, recoverPublication,
         refuseRecovery, acquireLock, renewPublicationLock, auditDecision, cleanupPublished,
         requireRecovery, releaseLock, StepFails, LateFailure, CommitTorn, Crash, Locked
<1>3. req[p] \in Active
  BY <1>2, RequestOf DEF TypeInv
<1>4. ASSUME NEW x, Goto(p, x), x # "squashed" PROVE req'[p].at # "squashed"
  <2>1. req'[p] = [req[p] EXCEPT !.at = x]
    BY <1>0, <1>4
  <2> QED BY <1>3, <1>4, <2>1 DEF Active, ApproveRequest, RollbackRequest, ReconcileRequest
<1>5. End(p) => req'[p].at # "squashed"
  BY <1>0 DEF Idle
<1> HIDE DEF Goto, End
<1>6. CASE SharedStep(p) \/ Fault(p)
  BY <1>1, <1>4, <1>5, <1>6, SMTT(30) DEF SharedStep, acquireLock, renewPublicationLock, auditDecision,
     cleanupPublished, requireRecovery, releaseLock, Fault, StepFails, LateFailure, CommitTorn, Crash
<1>7. CASE claimReviewForPublication(p) \/ finalizeApproval(p) \/ compensateReview(p)
           \/ claimRollback(p) \/ finalizeRollback(p) \/ restoreReview(p)
           \/ recoverPublication(p) \/ refuseRecovery(p)
  BY <1>1, <1>4, <1>5, <1>7 DEF claimReviewForPublication, finalizeApproval, compensateReview,
     claimRollback, finalizeRollback, restoreReview, recoverPublication, refuseRecovery
<1>8. ASSUME NEW x, NEW n, req' = [req EXCEPT ![p].at = x, ![p].revision = n], x # "squashed"
      PROVE  req'[p].at # "squashed"
  <2>1. req'[p] = [req[p] EXCEPT !.at = x, !.revision = n]
    BY <1>0, <1>8
  <2> QED BY <1>3, <1>8, <2>1 DEF Active, ApproveRequest, RollbackRequest, ReconcileRequest
<1>9. CASE compensateGit(p) \/ revertPublication(p) \/ restoreGit(p)
  <2>1. \/ Goto(p, "ambiguous") \/ Goto(p, "catch")
        \/ \E n : req' = [req EXCEPT ![p].at = "compensate", ![p].revision = n]
        \/ \E n : req' = [req EXCEPT ![p].at = "committed", ![p].revision = n]
    BY <1>9 DEF compensateGit, revertPublication, restoreGit
  <2> QED BY <1>1, <1>4, <1>8, <2>1
<1>10. CASE attributeMain(p)
  <2>1. Goto(p, "release") \/ \E x \in {"exact", "inexact"} :
          req' = [req EXCEPT ![p].at = x, ![p].draft = review[req[p].review].draft,
                             ![p].revision = HEAD]
    BY <1>10 DEF attributeMain
  <2>2. ASSUME NEW x \in {"exact", "inexact"}, NEW d, NEW n,
               req' = [req EXCEPT ![p].at = x, ![p].draft = d, ![p].revision = n]
        PROVE  req'[p].at # "squashed"
    <3>1. req'[p] = [req[p] EXCEPT !.at = x, !.draft = d, !.revision = n]
      BY <1>0, <2>2
    <3> QED BY <1>3, <2>2, <3>1, ZenonT(60) DEF Active, ApproveRequest, RollbackRequest, ReconcileRequest
  <2> QED BY <1>1, <1>4, <2>1, <2>2
<1>11. CASE recordReviewApproval(p)
  <2>1. End(p) \/ \E c : req' = [req EXCEPT ![p].at = "ready", ![p].approved = c]
    BY <1>11 DEF recordReviewApproval
  <2>2. ASSUME NEW c, req' = [req EXCEPT ![p].at = "ready", ![p].approved = c]
        PROVE  req'[p].at # "squashed"
    <3>1. req'[p] = [req[p] EXCEPT !.at = "ready", !.approved = c]
      BY <1>0, <2>2
    <3>2. req[p] \in ApproveRequest
      BY <1>2, <1>11, RequestOf DEF recordReviewApproval, TypeInv
    <3> QED BY <3>1, <3>2 DEF ApproveRequest
  <2> QED BY <1>1, <1>5, <2>1, <2>2
<1> QED BY <1>6, <1>7, <1>9, <1>10, <1>11
        DEF RequestStep, ApproveStep, RollbackStep, ReconcileStep

\* Reading a row leaves the lock to whoever holds it.
LEMMA ReadersWait ==
  ASSUME TypeInv, NEW p \in Requests, NEW r \in Reviews,
         readRollback(p, r) \/ readIntent(p, r) \/ \E a \in Reviewers : readReview(p, r, a)
  PROVE  /\ \A q \in Requests : q # p => req'[q] = req[q]
         /\ req[p].at = "idle" /\ req'[p].at \in {"read", "ready"}
         /\ UNCHANGED <<gitVars, rowVars, lock, author, budget>>
BY DEF readRollback, readIntent, readReview, TypeInv, TypeOK

LEMMA StepHoldsLock ==
  ASSUME "stall" \notin Faults
  PROVE  TypeInv /\ LockHeld /\ [Next]_vars => LockHeld'
<1> SUFFICES ASSUME TypeInv, LockHeld, [Next]_vars, NEW q \in Requests, req'[q].at \in Locked
             PROVE  lock' = [owner |-> q, expired |-> FALSE]
  BY DEF LockHeld
<1> USE DEF gitVars, rowVars
<1>1. lock \in [owner: Requests \cup {NoRequest}, expired: BOOLEAN] /\ q # NoRequest
  BY MoreParts, RequestAssumption DEF LockTypes
<1>2. req[q].at \in Locked => lock # Free /\ ~lock.expired /\ lock.owner = q
  BY <1>1 DEF LockHeld, Free
<1>3. CASE UNCHANGED <<lock, req>>
  BY <1>3 DEF LockHeld
<1>4. CASE \E p \in Requests : RequestStep(p) \/ Fault(p)
  <2>1. PICK p \in Requests : RequestStep(p) \/ Fault(p)
    BY <1>4
  <2>2. CASE acquireLock(p)
    <3>1. CASE lock = Free \/ lock.expired
      <4>1. q = p
        BY <1>2, <2>1, <3>1, WhoSteps
      <4> QED BY <2>2, <3>1, <4>1 DEF acquireLock
    <3>2. CASE ~(lock = Free \/ lock.expired)
      <4>1. End(p) /\ UNCHANGED lock
        BY <2>2, <3>2 DEF acquireLock
      <4>2. q # p
        BY <4>1, EndFacts DEF TypeInv, Locked
      <4> QED BY <2>1, <4>1, <4>2, WhoSteps DEF LockHeld
    <3> QED BY <3>1, <3>2
  <2>3. CASE releaseLock(p)
    <3>1. End(p) /\ req[p].at \in Locked
      BY <2>3 DEF releaseLock, Locked
    <3>2. q # p
      BY <3>1, EndFacts DEF TypeInv, Locked
    <3>3. req[q].at \in Locked
      BY <2>1, <3>2, WhoSteps
    <3>4. [owner |-> p, expired |-> FALSE] # [owner |-> q, expired |-> FALSE]
      BY <3>2
    <3> QED BY <3>1, <3>3, <3>4 DEF LockHeld
  <2>4. CASE UNCHANGED lock /\ (req[p].at \in Locked \/ req'[p].at \notin Locked)
    BY <2>1, <2>4, WhoSteps DEF LockHeld
  <2> QED BY <2>1, <2>2, <2>3, <2>4, WhoSteps
<1>5. CASE \E p \in Requests, r \in Reviews :
             readRollback(p, r) \/ readIntent(p, r) \/ \E a \in Reviewers : readReview(p, r, a)
  <2>1. PICK p \in Requests : /\ \A o \in Requests : o # p => req'[o] = req[o]
                              /\ req'[p].at \in {"read", "ready"} /\ UNCHANGED lock
    BY <1>5, ReadersWait
  <2> QED BY <2>1 DEF LockHeld, Locked
<1>6. CASE LockExpires
  <2>1. lock # Free /\ ~lock.expired /\ UNCHANGED req /\ req[lock.owner].at \notin Locked
    BY <1>6 DEF LockExpires, Spend
  <2> QED BY <1>2, <2>1
<1>7. CASE \/ activateProfile
           \/ \E r \in Reviews : AuthorStep(r) \/ requestChanges(r) \/ reject(r)
  BY <1>3, <1>7 DEF activateProfile, AuthorStep, createReviewDraft, submit, reviseDraft, reviseUpdate,
              cleanupSuperseded, AuthorCrash, reviseThrows, requestChanges, reject
<1>8. CASE UNCHANGED vars
  BY <1>3, <1>8 DEF vars
<1> QED BY <1>4, <1>5, <1>6, <1>7, <1>8 DEF Next

LEMMA LockExcludes ==
  ASSUME LockHeld, NEW p \in Requests, NEW q \in Requests,
         req[p].at \in Locked, req[q].at \in Locked
  PROVE  p = q
<1>1. [owner |-> p, expired |-> FALSE] = [owner |-> q, expired |-> FALSE]
  BY DEF LockHeld
<1>2. [owner |-> p, expired |-> FALSE].owner = [owner |-> q, expired |-> FALSE].owner
  BY <1>1
<1> QED BY <1>2

LEMMA LockIsHeld ==
  ASSUME "stall" \notin Faults
  PROVE  Spec => []LockHeld
<1>1. Init => LockHeld
  BY DEF Init, LockHeld, Idle, Locked
<1>2. TypeInv /\ LockHeld /\ [Next]_vars => LockHeld'
  BY StepHoldsLock
<1> QED BY <1>1, <1>2, RowsAreTyped, PTL DEF Spec

\* One request at a time works on main, through crashes, failures and takeovers
\* of expired locks, as long as no lock expires under a request that is alive.
THEOREM MainHasOneWriter ==
  ASSUME "stall" \notin Faults
  PROVE  Spec => []OneWriter
<1>1. LockHeld => OneWriter
  BY LockExcludes DEF OneWriter
<1> QED BY <1>1, LockIsHeld, PTL

-----------------------------------------------------------------------------
(* The index and the commits.                                                   *)

\* The index is what main holds, and the draft that is being merged.
IndexSettled ==
  /\ (\A p \in Requests : req[p].at # "squashed") => Clean
  /\ \A p \in Requests : req[p].at = "squashed" =>
       index = Apply(Tree(HEAD), <<req[p].review, req[p].draft>>)

\* What a step may do to main and its index.
GitStep(p) ==
  \/ UNCHANGED <<main, index>> /\ req[p].at # "squashed" /\ req'[p].at # "squashed"
  \/ UNCHANGED <<main, index>> /\ req[p].at = "squashed" /\ Clean /\ req'[p].at # "squashed"
  \/ squashDraft(p) /\ CanSquash(<<req[p].review, req[p].draft>>, req[p].base)
  \/ commitDraft(p) /\ ~Clean
  \/ /\ \E i \in 2..HEAD : CanRevert(i) /\ rollbackMain(i)
     /\ compensateGit(p) \/ revertPublication(p) \/ restoreGit(p)

LEMMA EveryGitStep ==
  ASSUME "torn" \notin Faults, TypeInv, NEW p \in Requests, RequestStep(p) \/ Fault(p)
  PROVE  GitStep(p)
<1> USE DEF gitVars, rowVars, At
<1>1. req[p].at # "idle" => RequestFits(req[p])
  BY MoreParts
<1>2. CASE squashDraft(p)
  <2>1. CASE CanSquash(<<req[p].review, req[p].draft>>, req[p].base)
    BY <1>2, <2>1 DEF GitStep
  <2>2. CASE ~CanSquash(<<req[p].review, req[p].draft>>, req[p].base)
    <3>1. UNCHANGED <<main, index>> /\ req[p].at = "git" /\ Goto(p, "catch")
      BY <1>2, <2>2 DEF squashDraft
    <3>2. req'[p].at = "catch"
      BY <3>1, GotoFacts DEF TypeInv, Phases, Locked
    <3> QED BY <3>1, <3>2 DEF GitStep
  <2> QED BY <2>1, <2>2
<1>3. CASE commitDraft(p)
  <2>1. CASE Clean
    <3>1. UNCHANGED <<main, index>> /\ req[p].at = "squashed" /\ Goto(p, "catch")
      BY <1>3, <2>1 DEF commitDraft
    <3>2. req'[p].at = "catch"
      BY <3>1, GotoFacts DEF TypeInv, Phases, Locked
    <3> QED BY <2>1, <3>1, <3>2 DEF GitStep
  <2> QED BY <1>3, <2>1 DEF GitStep
<1>4. CASE compensateGit(p) /\ ~UNCHANGED <<main, index>>
  <2>1. req[p].at = "catch" /\ req[p].revision # 0 /\ CanRevert(req[p].revision)
        /\ rollbackMain(req[p].revision)
    BY <1>4 DEF compensateGit
  <2> QED BY <1>1, <1>4, <2>1 DEF GitStep, RequestFits
<1>5. CASE revertPublication(p) /\ ~UNCHANGED <<main, index>>
  <2>1. req[p].at = "git" /\ req[p].op = "rollback" /\ CanRevert(req[p].merged)
        /\ rollbackMain(req[p].merged)
    BY <1>5 DEF revertPublication
  <2> QED BY <1>1, <1>5, <2>1 DEF GitStep, RequestFits
<1>6. CASE restoreGit(p) /\ ~UNCHANGED <<main, index>>
  <2>1. req[p].at = "catch" /\ req[p].revision # 0 /\ CanRevert(req[p].revision)
        /\ rollbackMain(req[p].revision)
    BY <1>6 DEF restoreGit
  <2> QED BY <1>1, <1>6, <2>1 DEF GitStep, RequestFits
<1>7. CASE ~squashDraft(p) /\ ~commitDraft(p) /\ UNCHANGED <<main, index>>
  <2>1. req[p].at # "squashed" /\ req'[p].at # "squashed"
    BY <1>7, StepsPastSquash, SMTT(30)
  <2> QED BY <1>7, <2>1 DEF GitStep
<1>8. ~(squashDraft(p) \/ commitDraft(p) \/ compensateGit(p) \/ revertPublication(p) \/ restoreGit(p))
      => UNCHANGED <<main, index>>
  BY DEF RequestStep, ApproveStep, RollbackStep, ReconcileStep, SharedStep, Fault,
         recordReviewApproval, claimReviewForPublication, finalizeApproval, compensateReview,
         claimRollback, finalizeRollback, restoreReview, attributeMain, recoverPublication,
         refuseRecovery, acquireLock, renewPublicationLock, auditDecision, cleanupPublished,
         requireRecovery, releaseLock, StepFails, LateFailure, CommitTorn, Crash
<1> QED BY <1>2, <1>3, <1>4, <1>5, <1>6, <1>7, <1>8

\* The steps that are not a request's: nobody's phase moves past "ready".
OtherStep ==
  \/ \E r \in Reviews : AuthorStep(r) \/ requestChanges(r) \/ reject(r)
  \/ \E p \in Requests, r \in Reviews :
       readRollback(p, r) \/ readIntent(p, r) \/ \E a \in Reviewers : readReview(p, r, a)
  \/ activateProfile \/ LockExpires \/ UNCHANGED vars

LEMMA EveryStep ==
  ASSUME [Next]_vars
  PROVE  OtherStep \/ \E p \in Requests : RequestStep(p) \/ Fault(p)
BY DEF Next, OtherStep

LEMMA OtherStepsWait ==
  ASSUME TypeInv, OtherStep
  PROVE  /\ UNCHANGED <<main, index>> /\ HEAD' = HEAD
         /\ \A i : Tree(i)' = Tree(i)
         /\ \A q \in Requests :
              req'[q] = req[q] \/ (req[q].at = "idle" /\ req'[q].at \in {"read", "ready"})
<1> USE DEF gitVars, rowVars
<1>1. CASE \E p \in Requests, r \in Reviews :
             readRollback(p, r) \/ readIntent(p, r) \/ \E a \in Reviewers : readReview(p, r, a)
  BY <1>1, ReadersWait DEF HEAD, Tree
<1>2. CASE \/ activateProfile \/ LockExpires \/ UNCHANGED vars
           \/ \E r \in Reviews : AuthorStep(r) \/ requestChanges(r) \/ reject(r)
  <2>1. UNCHANGED <<main, index, req>>
    BY <1>2 DEF activateProfile, LockExpires, vars, AuthorStep, createReviewDraft, submit, reviseDraft,
                reviseUpdate, cleanupSuperseded, AuthorCrash, reviseThrows, requestChanges, reject
  <2> QED BY <2>1 DEF HEAD, Tree
<1> QED BY <1>1, <1>2 DEF OtherStep

\* The commit of a merge.
LEMMA MergeFacts ==
  ASSUME TypeInv, NEW p \in Requests, commitDraft(p), ~Clean
  PROVE  /\ HEAD \in Nat \ {0} /\ HEAD' = HEAD + 1 /\ index' = index
         /\ \A i \in 1..HEAD : main'[i] = main[i]
         /\ main'[HEAD'].tree = index
         /\ main'[HEAD'].subject = {<<req[p].review, req[p].draft>>}
         /\ <<req[p].review, req[p].draft>> \in Heads
         /\ req[p].at = "squashed" /\ req[p].op = "approve"
         /\ req'[p].at = "committed" /\ req'[p].revision = HEAD + 1 /\ Resumes(req'[p], req[p])
         /\ UNCHANGED <<review, lock, budget>>
<1> USE DEF rowVars
<1>1. /\ Commit(index, {<<req[p].review, req[p].draft>>}) /\ GotoWith(p, "committed", HEAD + 1)
      /\ req[p].at = "squashed" /\ req[p].op = "approve" /\ UNCHANGED <<review, lock, budget>>
  BY DEF commitDraft, At, GotoWith
<1>2. <<req[p].review, req[p].draft>> \in Heads
  BY <1>1, RequestRow
<1>3. TypeOK /\ index \in Trees /\ HEAD \in Nat \ {0} /\ "committed" \in Phases /\ HEAD + 1 \in Nat
  BY MoreParts DEF Phases, Locked
<1>4. /\ HEAD' = HEAD + 1 /\ index' = index /\ \A i \in 1..HEAD : main'[i] = main[i]
      /\ main'[HEAD'].tree = index
      /\ main'[HEAD'].subject = {<<req[p].review, req[p].draft>>}
  BY <1>1, <1>2, <1>3, CommitFacts
<1>5. req'[p].at = "committed" /\ req'[p].revision = HEAD + 1 /\ Resumes(req'[p], req[p])
  BY <1>1, <1>3, GotoWithFacts
<1> QED BY <1>1, <1>2, <1>3, <1>4, <1>5

LEMMA StepSettlesIndex ==
  ASSUME "torn" \notin Faults
  PROVE  TypeInv /\ LockHeld /\ IndexSettled /\ [Next]_vars => IndexSettled'
<1> SUFFICES ASSUME TypeInv, LockHeld, IndexSettled, [Next]_vars PROVE IndexSettled'
  OBVIOUS
<1>1. CASE OtherStep
  <2>1. /\ UNCHANGED <<main, index>> /\ HEAD' = HEAD /\ \A i : Tree(i)' = Tree(i)
        /\ \A q \in Requests : req'[q] = req[q] \/ (req[q].at # "squashed" /\ req'[q].at # "squashed")
    BY <1>1, OtherStepsWait
  <2> QED BY <2>1 DEF IndexSettled, Clean
<1>2. CASE \E p \in Requests : RequestStep(p) \/ Fault(p)
  <2>1. PICK p \in Requests : RequestStep(p) \/ Fault(p)
    BY <1>2
  <2>2. GitStep(p) /\ \A q \in Requests : q # p => req'[q] = req[q]
    BY <2>1, EveryGitStep, WhoSteps
  <2>3. ASSUME req[p].at \in Locked, NEW q \in Requests, q # p
        PROVE  req[q].at # "squashed" /\ req'[q].at # "squashed"
    BY <2>2, <2>3, LockExcludes DEF Locked
  <2>4. CASE UNCHANGED <<main, index>> /\ req[p].at # "squashed" /\ req'[p].at # "squashed"
    <3>1. HEAD' = HEAD /\ Tree(HEAD)' = Tree(HEAD)
      BY <2>4 DEF HEAD, Tree
    <3> QED BY <2>2, <2>4, <3>1 DEF IndexSettled, Clean
  <2>5. CASE UNCHANGED <<main, index>> /\ req[p].at = "squashed" /\ Clean /\ req'[p].at # "squashed"
    <3>1. Clean' /\ req[p].at \in Locked
      BY <2>5 DEF Clean, HEAD, Tree, Locked
    <3> QED BY <2>3, <2>5, <3>1 DEF IndexSettled
  <2>6. CASE squashDraft(p) /\ CanSquash(<<req[p].review, req[p].draft>>, req[p].base)
    <3>1. /\ req[p].at = "git" /\ req[p].op = "approve" /\ UNCHANGED main /\ Goto(p, "squashed")
          /\ index' = Apply(index, <<req[p].review, req[p].draft>>)
      BY <2>6 DEF squashDraft, At
    <3>2. Clean /\ req[p].at \in Locked
      BY <2>3, <3>1 DEF IndexSettled, Locked
    <3>3. /\ req'[p].at = "squashed" /\ req'[p].review = req[p].review /\ req'[p].draft = req[p].draft
      BY <3>1, GotoFacts DEF TypeInv, Phases, Locked, Resumes
    <3>4. HEAD' = HEAD /\ Tree(HEAD)' = Tree(HEAD)
      BY <3>1 DEF HEAD, Tree
    <3> QED BY <2>3, <3>1, <3>2, <3>3, <3>4 DEF IndexSettled, Clean, Apply
  <2>7. CASE commitDraft(p) /\ ~Clean
    <3>1. req[p].at = "squashed" /\ req'[p].at = "committed" /\ index' = index
          /\ main'[HEAD'].tree = index
      BY <2>7, MergeFacts
    <3>2. req[p].at \in Locked /\ req'[p].at # "squashed" /\ Clean'
      BY <3>1 DEF Locked, Clean, Tree
    <3> QED BY <2>3, <3>2 DEF IndexSettled
  <2>8. CASE /\ \E i \in 2..HEAD : CanRevert(i) /\ rollbackMain(i)
             /\ compensateGit(p) \/ revertPublication(p) \/ restoreGit(p)
    <3>1. req[p].at \in {"catch", "git"} /\ ~squashDraft(p) /\ ~commitDraft(p)
      BY <2>8 DEF compensateGit, revertPublication, restoreGit, squashDraft, commitDraft, At
    <3>2. req'[p].at # "squashed" /\ req[p].at \in Locked
      BY <2>1, <3>1, StepsPastSquash DEF Locked
    <3>3. Clean'
      <4>1. PICK n \in 2..HEAD : rollbackMain(n)
        BY <2>8
      <4>2. main'[HEAD'].tree = index'
        BY <4>1, RevertFacts DEF TypeInv
      <4> QED BY <4>2 DEF Clean, Tree
    <3> QED BY <2>3, <3>2, <3>3 DEF IndexSettled
  <2> QED BY <2>2, <2>4, <2>5, <2>6, <2>7, <2>8 DEF GitStep
<1> QED BY <1>1, <1>2, EveryStep

\* The subject of a commit says what it changed; the root has none.
SubjectsTell ==
  \A i \in DOMAIN main : \A h \in main[i].subject : i > 1 /\ Tree(i) = Apply(Tree(i - 1), h)

LEMMA StepTellsSubject ==
  ASSUME "torn" \notin Faults
  PROVE  TypeInv /\ LockHeld /\ IndexSettled /\ SubjectsTell /\ [Next]_vars => SubjectsTell'
<1> SUFFICES ASSUME TypeInv, LockHeld, IndexSettled, SubjectsTell, [Next]_vars,
                    NEW i \in DOMAIN main', NEW h \in main'[i].subject
             PROVE  i > 1 /\ Tree(i)' = Apply(Tree(i - 1)', h)
  BY DEF SubjectsTell, Apply
<1>1. DOMAIN main = 1..HEAD /\ HEAD \in Nat \ {0} /\ DOMAIN main' = 1..HEAD'
  BY HeadIsPositive, StepKeepsTypes DEF TypeInv, TypeOK, HEAD
<1>2. CASE UNCHANGED main
  BY <1>2 DEF SubjectsTell, Tree
<1>3. ASSUME HEAD' = HEAD + 1, \A k \in 1..HEAD : main'[k] = main[k], i # HEAD'
      PROVE  i > 1 /\ Tree(i)' = Apply(Tree(i - 1)', h)
  <2>1. i \in 1..HEAD /\ h \in main[i].subject
    BY <1>1, <1>3
  <2>2. i > 1 /\ Tree(i) = Apply(Tree(i - 1), h) /\ i - 1 \in 1..HEAD
    BY <1>1, <2>1 DEF SubjectsTell
  <2> QED BY <1>3, <2>1, <2>2 DEF Tree
<1>4. CASE \E p \in Requests : RequestStep(p) \/ Fault(p)
  <2>1. PICK p \in Requests : GitStep(p)
    BY <1>4, EveryGitStep
  <2>2. CASE commitDraft(p) /\ ~Clean
    <3>1. /\ HEAD' = HEAD + 1 /\ \A k \in 1..HEAD : main'[k] = main[k]
          /\ main'[HEAD'].tree = index
         /\ main'[HEAD'].subject = {<<req[p].review, req[p].draft>>}
          /\ index = Apply(Tree(HEAD), <<req[p].review, req[p].draft>>)
      BY <2>2, MergeFacts DEF IndexSettled
    <3>2. CASE i = HEAD'
      BY <1>1, <3>1, <3>2 DEF Tree
    <3> QED BY <1>3, <3>1, <3>2
  <2>3. CASE \E k \in 2..HEAD : CanRevert(k) /\ rollbackMain(k)
    <3>1. PICK n \in 2..HEAD : rollbackMain(n)
      BY <2>3
    <3>2. /\ HEAD' = HEAD + 1
          /\ \A k \in 1..HEAD : main'[k] = main[k]
          /\ main'[HEAD'].subject = {}
      BY <3>1, RevertFacts DEF TypeInv
    <3> QED BY <1>3, <3>2
  <2>4. CASE squashDraft(p)
    BY <1>2, <2>4 DEF squashDraft
  <2> QED BY <1>2, <2>1, <2>2, <2>3, <2>4 DEF GitStep
<1>5. CASE OtherStep
  BY <1>2, <1>5, OtherStepsWait
<1> QED BY <1>4, <1>5, EveryStep

\* A publication changes main by its own draft only, as long as no lock expires
\* under a live request and no merge stops between its two Git commands.
THEOREM PublicationsAreExact ==
  ASSUME "stall" \notin Faults, "torn" \notin Faults
  PROVE  Spec => []OneDraftPerPublication
<1> DEFINE Inv == LockHeld /\ IndexSettled /\ SubjectsTell
<1>1. Init => Inv
  <2> SUFFICES ASSUME Init PROVE Inv
    OBVIOUS
  <2>1. DOMAIN main = {1} /\ HEAD = 1 /\ main[1].subject = {} /\ main[1].tree = index
    BY DEF Init, HEAD
  <2>2. \A p \in Requests : req[p].at = "idle"
    BY DEF Init, Idle
  <2> QED BY <2>1, <2>2 DEF LockHeld, IndexSettled, SubjectsTell, Clean, Tree, Locked
<1>2. TypeInv /\ Inv /\ [Next]_vars => Inv'
  BY StepHoldsLock, StepSettlesIndex, StepTellsSubject
<1>3. Inv => OneDraftPerPublication
  BY DEF SubjectsTell, OneDraftPerPublication
<1> HIDE DEF Inv
<1> QED BY <1>1, <1>2, <1>3, RowsAreTyped, PTL DEF Spec

-----------------------------------------------------------------------------
(* What a row says of its commit, under all faults.                             *)

\* main never loses a commit.
LEMMA MainOnlyGrows ==
  ASSUME TypeInv, [Next]_vars
  PROVE  /\ DOMAIN main \subseteq DOMAIN main'
         /\ \A i \in DOMAIN main : main'[i] = main[i]
<1> USE DEF gitVars, rowVars
<1>1. main \in Seq(CommitOf)
  BY DEF TypeInv, TypeOK, CommitOf
<1>2. UNCHANGED main \/ \E c : main' = Append(main, c)
  <2>1. CASE \E p \in Requests : RequestStep(p) \/ Fault(p)
    <3>1. PICK p \in Requests : RequestStep(p) \/ Fault(p)
      BY <2>1
    <3>2. CASE commitDraft(p) \/ compensateGit(p) \/ revertPublication(p) \/ restoreGit(p)
      BY <3>2 DEF commitDraft, compensateGit, revertPublication, restoreGit, rollbackMain, Commit
    <3>3. CASE ~(commitDraft(p) \/ compensateGit(p) \/ revertPublication(p) \/ restoreGit(p))
      BY <3>1, <3>3 DEF RequestStep, ApproveStep, RollbackStep, ReconcileStep, SharedStep, Fault,
         recordReviewApproval, claimReviewForPublication, squashDraft, finalizeApproval,
         compensateReview, claimRollback, finalizeRollback, restoreReview, attributeMain,
         recoverPublication, refuseRecovery, acquireLock, renewPublicationLock, auditDecision,
         cleanupPublished, requireRecovery, releaseLock, StepFails, LateFailure, CommitTorn, Crash
    <3> QED BY <3>2, <3>3
  <2>2. CASE OtherStep
    BY <2>2, OtherStepsWait
  <2> QED BY <2>1, <2>2, EveryStep
<1>3. ASSUME NEW c, main' = Append(main, c)
      PROVE  DOMAIN main \subseteq DOMAIN main' /\ \A i \in DOMAIN main : main'[i] = main[i]
  BY <1>1, <1>3
<1> QED BY <1>2, <1>3

\* Commit i of m merged a draft of review r.
Merges(m, i, r) == i \in DOMAIN m /\ \E h \in m[i].subject : h[1] = r

\* A request that is on its way to finalize a publication has a commit of its review.
Finalizes(s) == s.at \in {"committed", "finalize", "exact"} /\ s.op # "rollback"
Remembers(s) == Finalizes(s) => Merges(main, s.revision, s.review)

Named ==
  \A i \in DOMAIN outbox :
    outbox[i].kind = "publish" =>
      /\ review[outbox[i].review].status \in Published
      /\ review[outbox[i].review].merged = outbox[i].revision
      /\ Merges(main, outbox[i].revision, outbox[i].review)

\* It sets out on that way with a merge, or by recognising one; all other steps
\* on the way keep what it has, or leave it.
LEMMA WayToFinalize ==
  ASSUME TypeInv, NEW p \in Requests, RequestStep(p) \/ Fault(p), Finalizes(req'[p])
  PROVE  \/ commitDraft(p) /\ ~Clean
         \/ At(p, "reconcile", "locked") /\ IsExactPublication(req[p].review)
              /\ attributeMain(p) /\ req'[p].revision = HEAD /\ req'[p].review = req[p].review
         \/ Finalizes(req[p]) /\ req'[p].revision = req[p].revision
              /\ req'[p].review = req[p].review
<1> USE DEF At
<1>0. TypeOK /\ req \in [Requests -> RequestState]
  BY SMTT(30) DEF TypeInv, TypeOK
<1>1. req[p].at # "idle"
  BY DEF RequestStep, ApproveStep, RollbackStep, ReconcileStep, SharedStep, Fault,
         recordReviewApproval, claimReviewForPublication, squashDraft, commitDraft, finalizeApproval,
         compensateReview, compensateGit, revertPublication, restoreGit,
         claimRollback, finalizeRollback, restoreReview, attributeMain, recoverPublication,
         refuseRecovery, acquireLock, renewPublicationLock, auditDecision, cleanupPublished,
         requireRecovery, releaseLock, StepFails, LateFailure, CommitTorn, Crash, Locked
<1>2. req[p] \in Active
  BY <1>1, RequestOf DEF TypeInv
<1>3. ASSUME NEW x \in Phases, Goto(p, x) PROVE req'[p].at = x
  BY <1>0, <1>1, <1>3, GotoFacts
<1>4. End(p) => req'[p].at = "idle"
  BY <1>0, EndFacts
<1>5. ASSUME NEW x, NEW n, req' = [req EXCEPT ![p].at = x, ![p].revision = n]
      PROVE  req'[p].at = x /\ req'[p].op = req[p].op
  <2>1. req'[p] = [req[p] EXCEPT !.at = x, !.revision = n]
    BY <1>0, <1>5
  <2> QED BY <1>2, <2>1 DEF Active, ApproveRequest, RollbackRequest, ReconcileRequest
<1>6. {"release", "catch", "ambiguous", "cleanup", "locked", "claimed", "git", "audit", "squashed",
       "compensate", "exact", "inexact"} \subseteq Phases
  BY DEF Phases, Locked
<1> HIDE DEF At
<1>7. CASE renewPublicationLock(p)
  <2>1. CASE req[p].at = "committed" /\ Goto(p, "finalize")
    <3>1. Resumes(req'[p], req[p]) /\ req'[p].revision = req[p].revision
      BY <1>0, <1>1, <2>1, GotoFacts DEF Phases, Locked
    <3> QED BY <2>1, <3>1 DEF Finalizes, Resumes
  <2>2. CASE ~(req[p].at = "committed" /\ Goto(p, "finalize"))
    <3>1. Goto(p, "catch") \/ Goto(p, "git")
      BY <1>7, <2>2 DEF renewPublicationLock
    <3> QED BY <1>3, <1>6, <3>1 DEF Finalizes
  <2> QED BY <2>1, <2>2
<1>8. CASE attributeMain(p)
  <2>1. CASE Goto(p, "release")
    BY <1>3, <1>6, <2>1 DEF Finalizes
  <2>2. CASE ~Goto(p, "release")
    <3>1. PICK x \in {"exact", "inexact"}, d \in 1..MaxDrafts :
            /\ req' = [req EXCEPT ![p].at = x, ![p].draft = d, ![p].revision = HEAD]
            /\ x = "exact" => IsExactPublication(req[p].review)
            /\ At(p, "reconcile", "locked")
      <4>1. review[req[p].review] \in Row
        BY <1>1, RequestRow
      <4> QED BY <1>8, <2>2, <4>1 DEF attributeMain, Row
    <3>2. req'[p] = [req[p] EXCEPT !.at = x, !.draft = d, !.revision = HEAD]
      BY <1>0, <3>1
    <3>3. req[p] \in ReconcileRequest
      BY <1>1, <3>1, RequestOf DEF At, TypeInv
    <3>4. req'[p].at = x /\ req'[p].revision = HEAD /\ req'[p].review = req[p].review
      BY <3>2, <3>3 DEF ReconcileRequest
    <3> QED BY <1>8, <3>1, <3>4 DEF Finalizes
  <2> QED BY <2>1, <2>2
<1>9. CASE commitDraft(p)
  BY <1>3, <1>6, <1>9 DEF commitDraft, Finalizes
<1>10. CASE revertPublication(p) \/ restoreGit(p) \/ compensateGit(p)
  <2>1. \/ Goto(p, "ambiguous") \/ Goto(p, "catch")
        \/ \E n : req' = [req EXCEPT ![p].at = "compensate", ![p].revision = n]
        \/ req[p].op = "rollback"
             /\ \E n : req' = [req EXCEPT ![p].at = "committed", ![p].revision = n]
    BY <1>10 DEF compensateGit, revertPublication, restoreGit, At
  <2> QED BY <1>3, <1>5, <1>6, <2>1 DEF Finalizes
<1>11. CASE recordReviewApproval(p)
  <2>1. End(p) \/ \E c : req' = [req EXCEPT ![p].at = "ready", ![p].approved = c]
    BY <1>11 DEF recordReviewApproval
  <2>2. ASSUME NEW c, req' = [req EXCEPT ![p].at = "ready", ![p].approved = c]
        PROVE  req'[p].at = "ready"
    <3>1. req'[p] = [req[p] EXCEPT !.at = "ready", !.approved = c]
      BY <1>0, <2>2
    <3>2. req[p] \in ApproveRequest
      BY <1>1, <1>11, RequestOf DEF recordReviewApproval, At, TypeInv
    <3> QED BY <3>1, <3>2 DEF ApproveRequest
  <2> QED BY <1>4, <2>1, <2>2 DEF Finalizes
<1>12. CASE \/ claimReviewForPublication(p) \/ squashDraft(p) \/ finalizeApproval(p)
            \/ compensateReview(p) \/ claimRollback(p) \/ finalizeRollback(p) \/ restoreReview(p)
            \/ recoverPublication(p) \/ refuseRecovery(p) \/ requireRecovery(p) \/ releaseLock(p)
            \/ acquireLock(p) \/ auditDecision(p) \/ cleanupPublished(p)
            \/ StepFails(p) \/ LateFailure(p) \/ CommitTorn(p) \/ Crash(p)
  <2>1. \/ End(p)
        \/ \E x \in {"release", "catch", "ambiguous", "cleanup", "locked", "claimed", "audit",
                     "squashed"} : Goto(p, x)
    BY <1>12, SMTT(30) DEF claimReviewForPublication, squashDraft, finalizeApproval, compensateReview,
       claimRollback, finalizeRollback, restoreReview, recoverPublication, refuseRecovery,
       requireRecovery, releaseLock, acquireLock, auditDecision, cleanupPublished,
       StepFails, LateFailure, CommitTorn, Crash
  <2> QED BY <1>3, <1>4, <1>6, <2>1 DEF Finalizes
<1> QED BY <1>7, <1>8, <1>9, <1>10, <1>11, <1>12
        DEF RequestStep, ApproveStep, RollbackStep, ReconcileStep, SharedStep, Fault

LEMMA StepKeepsRemembering ==
  ASSUME TypeInv, \A p \in Requests : Remembers(req[p]), [Next]_vars, NEW q \in Requests
  PROVE  Remembers(req[q])'
<1>1. \A i, r : Merges(main, i, r) => Merges(main', i, r)
  BY MainOnlyGrows DEF Merges
<1>2. CASE req'[q] = req[q]
  BY <1>1, <1>2 DEF Remembers, Finalizes
<1>3. CASE OtherStep
  BY <1>1, <1>3, OtherStepsWait DEF Remembers, Finalizes
<1>4. ASSUME RequestStep(q) \/ Fault(q), Finalizes(req'[q])
      PROVE  Merges(main', req'[q].revision, req'[q].review)
  <2>1. CASE commitDraft(q) /\ ~Clean
    <3>1. /\ HEAD' = HEAD + 1 /\ HEAD \in Nat /\ req'[q].revision = HEAD + 1
          /\ main'[HEAD'].subject = {<<req[q].review, req[q].draft>>}
          /\ Resumes(req'[q], req[q])
      BY <2>1, MergeFacts
    <3>2. HEAD' \in DOMAIN main'
      BY <3>1, StepKeepsTypes, HeadIsPositive DEF TypeInv, TypeOK, HEAD
    <3> QED BY <3>1, <3>2 DEF Merges, Resumes
  <2>2. CASE /\ IsExactPublication(req[q].review) /\ At(q, "reconcile", "locked")
             /\ req'[q].revision = HEAD /\ req'[q].review = req[q].review
    <3>1. main[HEAD].subject = {HeadOf(req[q].review)} /\ HEAD \in DOMAIN main
      BY <2>2, HeadIsPositive DEF IsExactPublication, TypeInv, TypeOK, HEAD
    <3>2. Merges(main, req'[q].revision, req'[q].review)
      BY <2>2, <3>1 DEF Merges, HeadOf
    <3> QED BY <1>1, <3>2
  <2>3. CASE Finalizes(req[q]) /\ req'[q].revision = req[q].revision /\ req'[q].review = req[q].review
    BY <1>1, <2>3 DEF Remembers
  <2> QED BY <1>4, <2>1, <2>2, <2>3, WayToFinalize
<1>5. CASE \E p \in Requests : RequestStep(p) \/ Fault(p)
  <2>1. PICK p \in Requests : RequestStep(p) \/ Fault(p)
    BY <1>5
  <2>2. p # q => req'[q] = req[q]
    BY <2>1, WhoSteps
  <2> QED BY <1>2, <1>4, <2>1, <2>2 DEF Remembers, Finalizes
<1> QED BY <1>3, <1>5, EveryStep

\* Who finalizes names the commit it has.
LEMMA StepKeepsNames ==
  ASSUME TypeInv, \A p \in Requests : Remembers(req[p]), Named, [Next]_vars
  PROVE  Named'
<1> USE DEF gitVars, rowVars
<1>1. \A i, r : Merges(main, i, r) => Merges(main', i, r)
  BY MainOnlyGrows DEF Merges
<1>2. outbox \in Seq(Lifecycle) /\ review \in [Reviews -> Row]
  BY MoreParts DEF RowTypes
<1>3. ASSUME NEW r \in Reviews, review[r].status \in Published
      PROVE  review'[r].status \in Published /\ review'[r].merged = review[r].merged
  BY <1>3, EveryRowStep DEF RowStep, Turns, KeepsCommit, Published, Open
<1>4. ASSUME NEW i \in DOMAIN outbox, outbox'[i] = outbox[i], outbox[i].kind = "publish"
      PROVE  /\ review'[outbox'[i].review].status \in Published
             /\ review'[outbox'[i].review].merged = outbox'[i].revision
             /\ Merges(main', outbox'[i].revision, outbox'[i].review)
  <2>1. outbox[i] \in Lifecycle
    BY <1>2
  <2>2. outbox[i].review \in Reviews
    BY <2>1 DEF Lifecycle
  <2> QED BY <1>1, <1>3, <1>4, <2>2 DEF Named
<1>5. CASE UNCHANGED outbox
  BY <1>4, <1>5 DEF Named
<1>6. ASSUME NEW e, outbox' = Append(outbox, e),
             e.kind = "publish" => /\ review'[e.review].status \in Published
                                   /\ review'[e.review].merged = e.revision
                                   /\ Merges(main', e.revision, e.review)
      PROVE  Named'
  <2>1. /\ DOMAIN outbox = 1..Len(outbox) /\ DOMAIN outbox' = 1..(Len(outbox) + 1)
        /\ Len(outbox) \in Nat /\ outbox'[Len(outbox) + 1] = e
        /\ \A i \in 1..Len(outbox) : outbox'[i] = outbox[i]
    BY <1>2, <1>6
  <2> QED BY <1>4, <1>6, <2>1 DEF Named
<1>7. ASSUME NEW p \in Requests, finalizeApproval(p) \/ recoverPublication(p), ~UNCHANGED outbox
      PROVE  Named'
  <2>1. PICK r \in Reviews, n \in Nat : r = req[p].review /\ n = req[p].revision
    BY <1>7, RequestOf DEF finalizeApproval, recoverPublication, At, TypeInv
  <2>2. Merges(main', n, r)
    BY <1>1, <1>7, <2>1 DEF Remembers, Finalizes, finalizeApproval, recoverPublication, At
  <2>3. finalizePublicationTransaction(r, n)
    BY <1>7, <2>1 DEF finalizeApproval, recoverPublication
  <2>4. review'[r] = [review[r] EXCEPT !.status = "APPROVED", !.merged = n]
    BY <1>2, <2>3 DEF finalizePublicationTransaction
  <2>5. review'[r].status \in Published /\ review'[r].merged = n
    BY <1>2, <2>4 DEF Row, Published
  <2>6. PICK e : e = [review |-> r, kind |-> "publish", revision |-> n]
    OBVIOUS
  <2>7. outbox' = Append(outbox, e) /\ e.review = r /\ e.revision = n
    BY <2>3, <2>6 DEF finalizePublicationTransaction
  <2> QED BY <1>6, <2>2, <2>5, <2>7
<1>8. ASSUME NEW p \in Requests, finalizeRollback(p), ~UNCHANGED outbox
      PROVE  Named'
  <2>1. PICK e : e = [review |-> req[p].review, kind |-> "rollback", revision |-> req[p].revision]
    OBVIOUS
  <2>2. outbox' = Append(outbox, e) /\ e.kind = "rollback"
    BY <1>8, <2>1 DEF finalizeRollback
  <2> QED BY <1>6, <2>2
<1>9. CASE OtherStep
  <2>1. UNCHANGED outbox
    BY <1>9, ZenonT(60) DEF OtherStep, readRollback, readIntent, readReview, activateProfile, LockExpires,
       vars, AuthorStep, createReviewDraft, submit, reviseDraft, reviseUpdate, cleanupSuperseded,
       AuthorCrash, reviseThrows, requestChanges, reject
  <2> QED BY <1>5, <2>1
<1>10. ASSUME NEW p \in Requests, RequestStep(p) \/ Fault(p),
              ~finalizeApproval(p), ~recoverPublication(p), ~finalizeRollback(p)
       PROVE  Named'
  <2>1. UNCHANGED outbox
    BY <1>10, ZenonT(60) DEF RequestStep, ApproveStep, RollbackStep, ReconcileStep, SharedStep, Fault,
       recordReviewApproval, claimReviewForPublication, squashDraft, commitDraft,
       compensateGit, compensateReview, claimRollback, revertPublication, restoreGit, restoreReview,
       attributeMain, refuseRecovery, acquireLock, renewPublicationLock, auditDecision,
       cleanupPublished, requireRecovery, releaseLock, StepFails, LateFailure, CommitTorn, Crash
  <2> QED BY <1>5, <2>1
<1> QED BY <1>5, <1>7, <1>8, <1>9, <1>10, EveryStep

\* Whatever strikes, handler or reconciliation: a published review has announced its
\* publication once, and row and lifecycle name one commit, a merge of its draft.
THEOREM PublicationsNameTheirMerge == Spec => []AnnouncedAsMerged
<1> DEFINE Inv == Named /\ \A p \in Requests : Remembers(req[p])
<1>1. Init => Inv
  BY DEF Init, Named, Remembers, Finalizes, Idle
<1>2. TypeInv /\ Inv /\ [Next]_vars => Inv'
  BY StepKeepsNames, StepKeepsRemembering
<1>3. Inv /\ PublishedOnce => AnnouncedAsMerged
  BY DEF Named, Merges, AnnouncedAsMerged
<1> HIDE DEF Inv
<1> QED BY <1>1, <1>2, <1>3, RowsAreTyped, LifecyclesAreAnnouncedOnce, PTL DEF Spec

-----------------------------------------------------------------------------
(* Rows and commits, when requests may crash and their steps may fail.          *)

\* main has content of review r.
Holds(r) == \E h \in Tree(HEAD) : h[1] = r
Decided == {"PUBLISHING", "APPROVED", "ROLLING_BACK", "PUBLICATION_RECOVERY_REQUIRED",
            "ROLLBACK_RECOVERY_REQUIRED"}

\* Commit i put draft h on main, where its review had nothing before.
Publishes(i, h) ==
  /\ i > 1 /\ main[i].subject = {h}
  /\ \A g \in Tree(i - 1) : g[1] # h[1]
  /\ Tree(i) = Tree(i - 1) \cup {h}
Commits == \A i \in DOMAIN main : \A h \in main[i].subject : Publishes(i, h)

\* A row and main: only a decided review has content there, and only the draft
\* of the commit its row names.
Standing(r) ==
  /\ Holds(r) => review[r].status \in Decided
  /\ review[r].status \in Published =>
       \E h \in Heads : /\ h[1] = r /\ main[review[r].merged].subject = {h}
                        /\ \A g \in Tree(HEAD) : g[1] = r => g = h

\* The request has a commit on main that it must finalize or take back.
Merged(s) == s.at \in {"committed", "finalize"} \/ (s.at = "catch" /\ s.revision # 0)

\* What an approve request relies on: nobody else moves its intent or main, and
\* a base main has left behind is never taken for a merge that did not happen.
ApproveDuty(s) ==
  /\ s.base <= HEAD
  /\ Holds(s.review) => s.base < HEAD
  /\ s.at \in {"claimed", "git", "squashed"} =>
       review[s.review].status = "PUBLISHING" /\ ~Holds(s.review)
  /\ Merged(s) => /\ review[s.review].status = "PUBLISHING" /\ s.revision = HEAD
                  /\ \E h \in Heads : h[1] = s.review /\ main[HEAD].subject = {h}
  /\ s.at = "compensate" => ~Holds(s.review)

\* A rollback request: its commit, while it has one, took off exactly what the
\* row's commit had put on main.
RollbackDuty(s) ==
  /\ review[s.review].status \in Published /\ review[s.review].merged = s.merged
  /\ s.at \in {"claimed", "git"} => review[s.review].status = "ROLLING_BACK"
  /\ Merged(s) => /\ review[s.review].status = "ROLLING_BACK" /\ s.revision = HEAD
                  /\ \E h \in Heads : /\ main[s.merged].subject = {h} /\ h \in Tree(HEAD - 1)
                                      /\ Tree(HEAD) = Tree(HEAD - 1) \ {h}

\* A reconcile request that has recognised the publication.
ReconcileDuty(s) ==
  s.at = "exact" => /\ s.revision = HEAD
                    /\ \E h \in Heads : h[1] = s.review /\ main[HEAD].subject = {h}

Duty(s) ==
  s.at # "idle" => /\ s.op = "approve" => ApproveDuty(s)
                   /\ s.op = "rollback" => RollbackDuty(s)
                   /\ s.op = "reconcile" => ReconcileDuty(s)

GitInv ==
  /\ LockHeld /\ IndexSettled /\ Commits
  /\ \A r \in Reviews : Standing(r)
  /\ \A p \in Requests : Duty(req[p])

\* A row changes and main does not.
LEMMA StandingRow ==
  ASSUME NEW r \in Reviews, UNCHANGED main, RowStep(r), Standing(r),
         review[r].status = "PUBLISHING" /\ review'[r].status = "CHANGES_REQUESTED" => ~Holds(r),
         review'[r].status = "ROLLED_BACK" => review[r].status = "ROLLED_BACK" \/ ~Holds(r),
         review[r].status = "PUBLISHING" /\ review'[r].status = "APPROVED" =>
           \E h \in Heads : /\ h[1] = r /\ main[review'[r].merged].subject = {h}
                            /\ \A g \in Tree(HEAD) : g[1] = r => g = h
  PROVE  Standing(r)'
<1>1. Holds(r)' = Holds(r) /\ Tree(HEAD)' = Tree(HEAD)
  BY DEF Holds, Tree, HEAD
<1>2. Holds(r) => review'[r].status \in Decided
  BY DEF Standing, RowStep, Turns, Decided, Open
<1>3. review'[r].status \in Published =>
        \/ review[r].status = "PUBLISHING" /\ review'[r].status = "APPROVED"
        \/ review[r].status \in Published /\ review'[r].merged = review[r].merged
  BY DEF RowStep, Turns, KeepsCommit, Published, Open
<1> QED BY <1>1, <1>2, <1>3 DEF Standing

\* A request that does not hold the lock, or whose row stays as it is, keeps
\* what it relies on while main does not move.
LEMMA DutyFrame ==
  ASSUME TypeInv, UNCHANGED main, NEW s \in Active, Duty(s), RowStep(s.review),
         \/ s.at \notin Locked
         \/ review'[s.review] = review[s.review]
         \/ review[s.review].status \in Open \cup {"NONE"}
  PROVE  Duty(s)'
<1>1. HEAD' = HEAD /\ (\A r : Holds(r)' = Holds(r)) /\ \A i : Tree(i)' = Tree(i)
  BY DEF Holds, Tree, HEAD
<1>2. review[s.review].status \in Published =>
        review'[s.review].status \in Published /\ review'[s.review].merged = review[s.review].merged
  BY DEF RowStep, Turns, KeepsCommit, Published, Open
<1>3. Merged(s)' = Merged(s)
  BY DEF Merged
<1>4. s.at \in {"claimed", "git", "squashed"} \/ Merged(s) => s.at \in Locked
  BY DEF Merged, Locked
<1>5. ASSUME s.at # "idle", s.op = "approve" PROVE ApproveDuty(s)'
  <2>1. ApproveDuty(s)
    BY <1>5 DEF Duty
  <2>2. s.at \in {"claimed", "git", "squashed"} \/ Merged(s) =>
          review'[s.review].status = review[s.review].status
    BY <1>4, <2>1 DEF ApproveDuty, Open
  <2> QED BY <1>1, <1>3, <2>1, <2>2 DEF ApproveDuty
<1>6. ASSUME s.at # "idle", s.op = "rollback" PROVE RollbackDuty(s)'
  <2>1. RollbackDuty(s)
    BY <1>6 DEF Duty
  <2>2. s.at \in {"claimed", "git"} \/ Merged(s) =>
          review'[s.review].status = review[s.review].status
    BY <1>4, <2>1 DEF RollbackDuty, Open
  <2> QED BY <1>1, <1>2, <1>3, <2>1, <2>2 DEF RollbackDuty
<1>7. ASSUME s.at # "idle", s.op = "reconcile" PROVE ReconcileDuty(s)'
  BY <1>1, <1>7 DEF Duty, ReconcileDuty
<1> QED BY <1>5, <1>6, <1>7 DEF Duty

\* And one that waits for the lock keeps it when main grows.
LEMMA DutyWaits ==
  ASSUME TypeInv, NEW s \in Active, s.at \notin Locked, Duty(s), HEAD' = HEAD + 1, UNCHANGED review
  PROVE  Duty(s)'
<1>1. HEAD \in Nat
  BY HeadIsPositive DEF TypeInv
<1>2. ~(s.at \in {"claimed", "git", "squashed", "compensate", "exact"}) /\ ~Merged(s) /\ ~Merged(s)'
  BY DEF Locked, Merged
<1>3. s.op = "approve" => s.base \in Nat
  BY DEF Active, ApproveRequest, RollbackRequest, ReconcileRequest
<1> QED BY <1>1, <1>2, <1>3 DEF Duty, ApproveDuty, RollbackDuty, ReconcileDuty

\* Only a request that holds the lock changes a row.
LEMMA RowsNeedLock ==
  ASSUME NEW p \in Requests, RequestStep(p) \/ Fault(p)
  PROVE  UNCHANGED review \/ req[p].at \in Locked
<1> USE DEF gitVars, rowVars, At, Locked
<1>1. CASE ApproveStep(p)
  BY <1>1 DEF ApproveStep, recordReviewApproval, claimReviewForPublication, squashDraft, commitDraft,
              finalizeApproval, compensateGit, compensateReview
<1>2. CASE RollbackStep(p) \/ ReconcileStep(p)
  BY <1>2 DEF RollbackStep, claimRollback, revertPublication, finalizeRollback, restoreGit, restoreReview,
              ReconcileStep, attributeMain, recoverPublication, refuseRecovery
<1>3. CASE SharedStep(p)
  BY <1>3 DEF SharedStep, acquireLock, renewPublicationLock, auditDecision, cleanupPublished,
              requireRecovery, releaseLock
<1>4. CASE Fault(p)
  BY <1>4 DEF Fault, StepFails, LateFailure, CommitTorn, Crash
<1> QED BY <1>1, <1>2, <1>3, <1>4, SMTT(30) DEF RequestStep

\* And only the row of its own review.
LEMMA OwnRow ==
  ASSUME TypeInv, NEW p \in Requests, RequestStep(p) \/ Fault(p), NEW r \in Reviews, review'[r] # review[r]
  PROVE  req[p].at # "idle" /\ r = req[p].review
<1> USE DEF gitVars, rowVars, At
<1>1. req[p].at # "idle"
  BY RowsNeedLock DEF Locked
<1>2. PICK s \in Reviews : s = req[p].review
  BY <1>1, RequestOf DEF TypeInv
<1>3. review \in [Reviews -> Row]
  BY MoreParts DEF RowTypes
<1>4. ASSUME NEW n, finalizePublicationTransaction(s, n) PROVE r = s
  BY <1>3, <1>4 DEF finalizePublicationTransaction
<1>5. CASE finalizeApproval(p) \/ recoverPublication(p)
  BY <1>2, <1>4, <1>5 DEF finalizeApproval, recoverPublication
<1>6. CASE claimReviewForPublication(p) \/ compensateReview(p)
  BY <1>2, <1>3, <1>6 DEF claimReviewForPublication, compensateReview
<1>7. CASE claimRollback(p) \/ finalizeRollback(p) \/ restoreReview(p)
  BY <1>2, <1>3, <1>7 DEF claimRollback, finalizeRollback, restoreReview
<1>8. CASE requireRecovery(p) \/ refuseRecovery(p)
  BY <1>2, <1>3, <1>8 DEF requireRecovery, refuseRecovery, FailClosed
<1> HIDE DEF At
<1>9. CASE \/ recordReviewApproval(p) \/ squashDraft(p) \/ commitDraft(p) \/ compensateGit(p)
           \/ revertPublication(p) \/ restoreGit(p) \/ attributeMain(p)
           \/ acquireLock(p) \/ renewPublicationLock(p) \/ auditDecision(p) \/ cleanupPublished(p)
           \/ releaseLock(p) \/ Fault(p)
  BY <1>9 DEF recordReviewApproval, squashDraft, commitDraft, compensateGit, revertPublication,
     restoreGit, attributeMain, acquireLock, renewPublicationLock, auditDecision, cleanupPublished,
     releaseLock, Fault, StepFails, LateFailure, CommitTorn, Crash
<1> QED BY <1>1, <1>2, <1>5, <1>6, <1>7, <1>8, <1>9
        DEF RequestStep, ApproveStep, RollbackStep, ReconcileStep, SharedStep

\* Which request moves a row, and where to.
LEMMA RowTurns ==
  ASSUME TypeInv, NEW p \in Requests, RequestStep(p) \/ Fault(p), NEW r \in Reviews, review'[r] # review[r]
  PROVE  /\ r = req[p].review /\ req[p].at # "idle"
         /\ \/ claimReviewForPublication(p) /\ review'[r].status = "PUBLISHING"
            \/ compensateReview(p) /\ review'[r].status = "CHANGES_REQUESTED"
            \/ /\ finalizeApproval(p) \/ recoverPublication(p)
               /\ finalizePublicationTransaction(r, req[p].revision)
               /\ review'[r].status = "APPROVED"
            \/ /\ claimRollback(p)
               /\ review[r].status = "APPROVED" /\ review'[r].status = "ROLLING_BACK"
            \/ /\ restoreReview(p)
               /\ review[r].status = "ROLLING_BACK" /\ review'[r].status = "APPROVED"
            \/ /\ finalizeRollback(p)
               /\ review[r].status = "ROLLING_BACK" /\ review'[r].status = "ROLLED_BACK"
            \/ /\ requireRecovery(p) \/ refuseRecovery(p)
               /\ review'[r].status \in {"PUBLICATION_RECOVERY_REQUIRED", "ROLLBACK_RECOVERY_REQUIRED"}
<1> USE DEF gitVars, rowVars
<1>1. r = req[p].review /\ req[p].at # "idle" /\ review \in [Reviews -> Row] /\ review[r] \in Row
  BY OwnRow, MoreParts DEF RowTypes
<1>2. CASE claimReviewForPublication(p)
  <2>1. review' = [review EXCEPT ![r].status = "PUBLISHING"]
    BY <1>1, <1>2 DEF claimReviewForPublication
  <2> QED BY <1>1, <1>2, <2>1, StatusTurns DEF Turns
<1>3. CASE claimRollback(p)
  <2>1. review' = [review EXCEPT ![r].status = "ROLLING_BACK"] /\ review[r].status = "APPROVED"
    BY <1>1, <1>3 DEF claimRollback
  <2> QED BY <1>1, <1>3, <2>1, StatusTurns DEF Turns
<1>4. CASE restoreReview(p)
  <2>1. review' = [review EXCEPT ![r].status = "APPROVED"] /\ review[r].status = "ROLLING_BACK"
    BY <1>1, <1>4 DEF restoreReview
  <2> QED BY <1>1, <1>4, <2>1, StatusTurns DEF Turns
<1>5. CASE finalizeRollback(p)
  <2>1. review' = [review EXCEPT ![r].status = "ROLLED_BACK"] /\ review[r].status = "ROLLING_BACK"
    BY <1>1, <1>5 DEF finalizeRollback
  <2> QED BY <1>1, <1>5, <2>1, StatusTurns DEF Turns
<1>6. CASE requireRecovery(p) \/ refuseRecovery(p)
  <2>1. \/ review' = [review EXCEPT ![r].status = "PUBLICATION_RECOVERY_REQUIRED"]
        \/ review' = [review EXCEPT ![r].status = "ROLLBACK_RECOVERY_REQUIRED"]
    BY <1>1, <1>6 DEF requireRecovery, refuseRecovery, FailClosed
  <2>2. review'[r].status \in {"PUBLICATION_RECOVERY_REQUIRED", "ROLLBACK_RECOVERY_REQUIRED"}
    BY <2>1, StatusTurns DEF Turns
  <2> QED BY <1>1, <1>6, <2>2
<1>7. CASE compensateReview(p)
  <2>1. review'[r] = [review[r] EXCEPT !.status = "CHANGES_REQUESTED", !.merged = 0,
                                       !.base = req[p].revision]
    BY <1>1, <1>7 DEF compensateReview
  <2>2. review'[r].status = "CHANGES_REQUESTED"
    BY <1>1, <2>1 DEF Row
  <2> QED BY <1>1, <1>7, <2>2
<1>8. CASE finalizeApproval(p) \/ recoverPublication(p)
  <2>1. finalizePublicationTransaction(r, req[p].revision)
    BY <1>1, <1>8 DEF finalizeApproval, recoverPublication
  <2>2. review'[r] = [review[r] EXCEPT !.status = "APPROVED", !.merged = req[p].revision]
    BY <1>1, <2>1 DEF finalizePublicationTransaction
  <2>3. review'[r].status = "APPROVED"
    BY <1>1, <2>2 DEF Row
  <2> QED BY <1>1, <1>8, <2>1, <2>3
<1>9. CASE \/ recordReviewApproval(p) \/ squashDraft(p) \/ commitDraft(p) \/ compensateGit(p)
           \/ revertPublication(p) \/ restoreGit(p) \/ attributeMain(p)
           \/ acquireLock(p) \/ renewPublicationLock(p) \/ auditDecision(p) \/ cleanupPublished(p)
           \/ releaseLock(p) \/ Fault(p)
  BY <1>9 DEF recordReviewApproval, squashDraft, commitDraft, compensateGit, revertPublication,
     restoreGit, attributeMain, acquireLock, renewPublicationLock, auditDecision, cleanupPublished,
     releaseLock, Fault, StepFails, LateFailure, CommitTorn, Crash
<1> QED BY <1>2, <1>3, <1>4, <1>5, <1>6, <1>7, <1>8, <1>9
        DEF RequestStep, ApproveStep, RollbackStep, ReconcileStep, SharedStep

\* Other steps begin a review, discuss it or reject it.
LEMMA OtherRows ==
  ASSUME TypeInv, OtherStep, NEW r \in Reviews
  PROVE  \/ review'[r] = review[r]
         \/ review[r].status \in Open \cup {"NONE"} /\ review'[r].status \in Open \cup {"REJECTED"}
<1> USE DEF gitVars, rowVars
<1>1. review \in [Reviews -> Row]
  BY MoreParts DEF RowTypes
<1>2. CASE \/ activateProfile \/ LockExpires \/ UNCHANGED vars
           \/ \E p \in Requests, s \in Reviews :
                readRollback(p, s) \/ readIntent(p, s) \/ \E a \in Reviewers : readReview(p, s, a)
  BY <1>2, ReadersWait DEF activateProfile, LockExpires, vars
<1>3. CASE \E s \in Reviews : AuthorStep(s) \/ requestChanges(s) \/ reject(s)
  <2>1. PICK s \in Reviews : AuthorStep(s) \/ requestChanges(s) \/ reject(s)
    BY <1>3
  <2>2. review[s] \in Row
    BY <1>1
  <2>3. CASE submit(s) \/ reject(s)
    BY <1>1, <2>2, <2>3 DEF submit, reject, Open, Row
  <2>4. CASE createReviewDraft(s) \/ requestChanges(s)
    BY <1>1, <2>2, <2>4 DEF createReviewDraft, requestChanges, Open, Row
  <2>5. CASE reviseUpdate(s)
    <3>1. \/ UNCHANGED review
          \/ /\ review[s].status = "CHANGES_REQUESTED"
             /\ review' = [review EXCEPT ![s].draft = author[s].old + 1, ![s].policy = author[s].policy]
      BY <2>5 DEF reviseUpdate
    <3> QED BY <1>1, <2>2, <3>1 DEF Open, Row
  <2>6. CASE reviseDraft(s) \/ cleanupSuperseded(s) \/ AuthorCrash(s) \/ reviseThrows(s)
    BY <2>6 DEF reviseDraft, cleanupSuperseded, AuthorCrash, reviseThrows
  <2> QED BY <2>1, <2>3, <2>4, <2>5, <2>6 DEF AuthorStep
<1> QED BY <1>2, <1>3 DEF OtherStep

\* A request moves on, and what it relied on carries over.
LEMMA DutyCarries ==
  ASSUME TypeInv, UNCHANGED main, NEW s \in Active, NEW t \in Active,
         s.at # "idle", Duty(s), RowStep(s.review),
         t.op = s.op, t.review = s.review,
         s.op = "approve" => t.base = s.base, s.op = "rollback" => t.merged = s.merged,
         t.at \notin {"claimed", "compensate", "exact"},
         t.at \in {"git", "squashed"} =>
           s.at \in {"claimed", "git"} /\ review'[s.review] = review[s.review],
         Merged(t) => /\ Merged(s) /\ t.revision = s.revision
                      /\ review'[s.review] = review[s.review]
  PROVE  Duty(t)'
<1>1. HEAD' = HEAD /\ (\A r : Holds(r)' = Holds(r)) /\ \A i : Tree(i)' = Tree(i)
  BY DEF Holds, Tree, HEAD
<1>2. review[s.review].status \in Published =>
        review'[s.review].status \in Published /\ review'[s.review].merged = review[s.review].merged
  BY DEF RowStep, Turns, KeepsCommit, Published, Open
<1>3. Merged(t)' = Merged(t)
  BY DEF Merged
<1>4. CASE s.op = "approve"
  <2>1. ApproveDuty(s)
    BY <1>4 DEF Duty
  <2>2. ApproveDuty(t)'
    BY <1>1, <1>3, <1>4, <2>1 DEF ApproveDuty
  <2> QED BY <1>4, <2>2 DEF Duty
<1>5. CASE s.op = "rollback"
  <2>1. RollbackDuty(s)
    BY <1>5 DEF Duty
  <2>2. RollbackDuty(t)'
    BY <1>1, <1>2, <1>3, <1>5, <2>1 DEF RollbackDuty
  <2> QED BY <1>5, <2>2 DEF Duty
<1>6. CASE s.op = "reconcile"
  BY <1>6 DEF Duty, ReconcileDuty
<1> QED BY <1>4, <1>5, <1>6 DEF Active, ApproveRequest, RollbackRequest, ReconcileRequest

\* main grows by nothing but a draft of a review that is decided, the one its
\* row names if it is published.
LEMMA StandingGrows ==
  ASSUME TypeInv, NEW r \in Reviews, NEW h \in Heads, Standing(r), UNCHANGED review,
         HEAD' = HEAD + 1, \A i \in 1..HEAD : main'[i] = main[i],
         Tree(HEAD)' \subseteq Tree(HEAD) \cup {h},
         h[1] = r => /\ review[r].status \in Decided
                     /\ review[r].status \in Published => main[review[r].merged].subject = {h}
  PROVE  Standing(r)'
<1>1. Holds(r)' => review'[r].status \in Decided
  BY DEF Holds, Standing
<1>2. ASSUME review[r].status \in Published
      PROVE  \E g \in Heads : /\ g[1] = r /\ main'[review[r].merged].subject = {g}
                              /\ \A k \in Tree(HEAD)' : k[1] = r => k = g
  <2>1. PICK g \in Heads : /\ g[1] = r /\ main[review[r].merged].subject = {g}
                           /\ \A k \in Tree(HEAD) : k[1] = r => k = g
    BY <1>2 DEF Standing
  <2>2. review[r].merged \in 1..HEAD
    BY <1>2, MoreParts DEF RowFits
  <2>3. main'[review[r].merged].subject = {g}
    BY <2>1, <2>2
  <2>4. h[1] = r => h = g
    BY <1>2, <2>1
  <2> QED BY <2>1, <2>3, <2>4
<1> QED BY <1>1, <1>2 DEF Standing

\* Reverting a publication takes its draft off main.
LEMMA RevertedPublication ==
  ASSUME TypeInv, NEW i \in 2..HEAD, NEW h \in Heads, Publishes(i, h), rollbackMain(i)
  PROVE  Tree(HEAD)' = Tree(HEAD) \ {h}
<1>1. Added(i) = {h} /\ Removed(i) = {}
  BY DEF Publishes, Added, Removed
<1>2. Tree(HEAD)' = (Tree(HEAD) \ Added(i)) \cup Removed(i)
  BY RevertFacts DEF TypeInv, Tree
<1> QED BY <1>1, <1>2

\* Reverting that revert puts it back.
LEMMA RevertedRevert ==
  ASSUME TypeInv, NEW i \in 2..HEAD, NEW h \in Heads, h \in Tree(i - 1), Tree(i) = Tree(i - 1) \ {h},
         rollbackMain(i)
  PROVE  Tree(HEAD)' = Tree(HEAD) \cup {h}
<1>1. Added(i) = {} /\ Removed(i) = {h}
  BY DEF Added, Removed
<1>2. Tree(HEAD)' = (Tree(HEAD) \ Added(i)) \cup Removed(i)
  BY RevertFacts DEF TypeInv, Tree
<1> QED BY <1>1, <1>2

\* What a revert of a request does to main.
LEMMA RequestReverts ==
  ASSUME TypeInv, GitInv, NEW p \in Requests,
         compensateGit(p) \/ revertPublication(p) \/ restoreGit(p), ~UNCHANGED <<main, index>>
  PROVE  /\ \E h \in Heads :
              /\ h[1] = req[p].review
              /\ review[h[1]].status \in Decided
              /\ review[h[1]].status \in Published => main[review[h[1]].merged].subject = {h}
              /\ compensateGit(p) \/ revertPublication(p) => Tree(HEAD)' = Tree(HEAD) \ {h}
              /\ compensateGit(p) => Publishes(HEAD, h)
              /\ revertPublication(p) => h \in Tree(HEAD)
              /\ restoreGit(p) => Tree(HEAD)' = Tree(HEAD) \cup {h}
         /\ HEAD' = HEAD + 1 /\ \A k \in 1..HEAD : main'[k] = main[k]
         /\ main'[HEAD'].subject = {}
         /\ req[p].at \in Locked /\ req[p].at # "idle" /\ UNCHANGED review
<1> USE DEF rowVars, At
<1>1. /\ req[p].at \in Locked /\ req[p].at # "idle" /\ req[p].at \in {"catch", "git"}
      /\ UNCHANGED review
  BY DEF compensateGit, revertPublication, restoreGit, Locked
<1>2. /\ RequestFits(req[p]) /\ req[p].review \in Reviews /\ Duty(req[p])
      /\ Standing(req[p].review) /\ Commits /\ DOMAIN main = 1..HEAD
  BY <1>1, RequestRow, HeadIsPositive DEF GitInv, TypeInv
<1>3. CASE compensateGit(p)
  <2>1. /\ req[p].op = "approve" /\ req[p].at = "catch" /\ req[p].revision # 0
        /\ rollbackMain(req[p].revision)
    BY <1>3 DEF compensateGit
  <2>2. Merged(req[p]) /\ ApproveDuty(req[p]) /\ req[p].revision \in 2..HEAD
    BY <1>2, <2>1 DEF Merged, Duty, RequestFits
  <2>3. PICK h \in Heads : h[1] = req[p].review /\ main[HEAD].subject = {h}
    BY <2>2 DEF ApproveDuty
  <2>4. req[p].revision = HEAD /\ review[req[p].review].status = "PUBLISHING" /\ HEAD \in 1..HEAD
    BY <2>2 DEF ApproveDuty
  <2>5. Publishes(HEAD, h)
    BY <1>2, <2>3, <2>4 DEF Commits
  <2>6. Tree(HEAD)' = Tree(HEAD) \ {h}
    BY <2>1, <2>2, <2>4, <2>5, RevertedPublication
  <2>7. ~revertPublication(p) /\ ~restoreGit(p)
    BY <2>1 DEF revertPublication, restoreGit
  <2>8. HEAD' = HEAD + 1 /\ (\A k \in 1..HEAD : main'[k] = main[k]) /\ main'[HEAD'].subject = {}
    BY <2>1, <2>2, RevertFacts DEF TypeInv
  <2> QED BY <1>1, <2>3, <2>4, <2>5, <2>6, <2>7, <2>8 DEF Decided, Published
<1>4. CASE revertPublication(p)
  <2>1. /\ req[p].op = "rollback" /\ req[p].at = "git" /\ CanRevert(req[p].merged)
        /\ rollbackMain(req[p].merged)
    BY <1>4 DEF revertPublication
  <2>2. RollbackDuty(req[p]) /\ req[p].merged \in 2..HEAD
    BY <1>2, <2>1 DEF Duty, RequestFits
  <2>3. review[req[p].review].status = "ROLLING_BACK" /\ review[req[p].review].merged = req[p].merged
    BY <2>1, <2>2 DEF RollbackDuty
  <2>4. PICK h \in Heads : h[1] = req[p].review /\ main[req[p].merged].subject = {h}
    BY <1>2, <2>3 DEF Standing, Published
  <2>5. Publishes(req[p].merged, h)
    BY <1>2, <2>2, <2>4 DEF Commits
  <2>6. Tree(HEAD)' = Tree(HEAD) \ {h}
    BY <2>1, <2>2, <2>5, RevertedPublication
  <2>7. h \in Tree(HEAD)
    BY <2>1, <2>5 DEF CanRevert, Added, Publishes
  <2>8. ~compensateGit(p) /\ ~restoreGit(p)
    BY <2>1 DEF compensateGit, restoreGit
  <2>9. HEAD' = HEAD + 1 /\ (\A k \in 1..HEAD : main'[k] = main[k]) /\ main'[HEAD'].subject = {}
    BY <2>1, <2>2, RevertFacts DEF TypeInv
  <2> QED BY <1>1, <2>3, <2>4, <2>6, <2>7, <2>8, <2>9 DEF Decided, Published
<1>5. CASE restoreGit(p)
  <2>1. /\ req[p].op = "rollback" /\ req[p].at = "catch" /\ req[p].revision # 0
        /\ rollbackMain(req[p].revision)
    BY <1>5 DEF restoreGit
  <2>2. Merged(req[p]) /\ RollbackDuty(req[p]) /\ req[p].revision \in 2..HEAD
    BY <1>2, <2>1 DEF Merged, Duty, RequestFits
  <2>3. /\ review[req[p].review].status = "ROLLING_BACK" /\ review[req[p].review].merged = req[p].merged
        /\ req[p].revision = HEAD
    BY <2>2 DEF RollbackDuty
  <2>4. PICK h \in Heads : /\ main[req[p].merged].subject = {h} /\ h \in Tree(HEAD - 1)
                           /\ Tree(HEAD) = Tree(HEAD - 1) \ {h}
    BY <2>2 DEF RollbackDuty
  <2>5. h[1] = req[p].review
    BY <1>2, <2>3, <2>4 DEF Standing, Published
  <2>6. Tree(HEAD)' = Tree(HEAD) \cup {h}
    BY <2>1, <2>2, <2>3, <2>4, RevertedRevert
  <2>7. ~compensateGit(p) /\ ~revertPublication(p)
    BY <2>1 DEF compensateGit, revertPublication
  <2>8. HEAD' = HEAD + 1 /\ (\A k \in 1..HEAD : main'[k] = main[k]) /\ main'[HEAD'].subject = {}
    BY <2>1, <2>2, RevertFacts DEF TypeInv
  <2> QED BY <1>1, <2>3, <2>4, <2>5, <2>6, <2>7, <2>8 DEF Decided, Published
<1> QED BY <1>3, <1>4, <1>5

\* A merge puts its draft on main, where its review had nothing.
LEMMA MergePublishes ==
  ASSUME TypeInv, GitInv, NEW p \in Requests, commitDraft(p), ~Clean
  PROVE  \E h \in Heads : /\ h = <<req[p].review, req[p].draft>> /\ h[1] = req[p].review
                          /\ main'[HEAD'].subject = {h}
                          /\ Tree(HEAD)' = Tree(HEAD) \cup {h}
                          /\ \A g \in Tree(HEAD) : g[1] # h[1]
                          /\ review[h[1]].status = "PUBLISHING"
<1>1. PICK h \in Heads : h = <<req[p].review, req[p].draft>>
  BY MergeFacts
<1>2. /\ main'[HEAD'].tree = index /\ main'[HEAD'].subject = {h} /\ h[1] = req[p].review
      /\ index = Apply(Tree(HEAD), h)
  BY <1>1, MergeFacts DEF GitInv, IndexSettled
<1>3. ApproveDuty(req[p]) /\ req[p].at = "squashed"
  BY MergeFacts DEF GitInv, Duty
<1>4. review[h[1]].status = "PUBLISHING" /\ \A g \in Tree(HEAD) : g[1] # h[1]
  BY <1>2, <1>3 DEF ApproveDuty, Holds
<1>5. Tree(HEAD)' = Tree(HEAD) \cup {h}
  BY <1>2, <1>4 DEF Apply, Tree
<1> QED BY <1>1, <1>2, <1>4, <1>5

LEMMA StepKeepsCommits ==
  ASSUME "torn" \notin Faults, TypeInv, GitInv, [Next]_vars
  PROVE  Commits'
<1>1. DOMAIN main = 1..HEAD /\ HEAD \in Nat \ {0} /\ DOMAIN main' = 1..HEAD'
  BY HeadIsPositive, StepKeepsTypes DEF TypeInv, TypeOK, HEAD
<1>2. CASE UNCHANGED main
  BY <1>2 DEF GitInv, Commits, Publishes, Tree
<1>3. ASSUME NEW i \in 1..HEAD, NEW h \in main'[i].subject,
             \A k \in 1..HEAD : main'[k] = main[k]
      PROVE  Publishes(i, h)'
  <2>1. Publishes(i, h) /\ main'[i] = main[i]
    BY <1>1, <1>3 DEF GitInv, Commits
  <2>2. i - 1 \in 1..HEAD /\ main'[i - 1] = main[i - 1]
    BY <1>1, <1>3, <2>1 DEF Publishes
  <2> QED BY <2>1, <2>2 DEF Publishes, Tree
<1>4. CASE \E p \in Requests : RequestStep(p) \/ Fault(p)
  <2>1. PICK p \in Requests : GitStep(p)
    BY <1>4, EveryGitStep
  <2>2. CASE commitDraft(p) /\ ~Clean
    <3>1. HEAD' = HEAD + 1 /\ \A k \in 1..HEAD : main'[k] = main[k]
      BY <2>2, MergeFacts
    <3>2. PICK h \in Heads : /\ main'[HEAD'].subject = {h} /\ Tree(HEAD)' = Tree(HEAD) \cup {h}
                             /\ \A g \in Tree(HEAD) : g[1] # h[1]
      BY <2>2, MergePublishes
    <3>3. PICK n \in Nat : n = HEAD + 1
      BY <1>1
    <3>4. n - 1 \in 1..HEAD /\ main'[n - 1] = main[HEAD] /\ main'[n].subject = {h}
          /\ main'[n].tree = Tree(HEAD) \cup {h}
      BY <1>1, <3>1, <3>2, <3>3 DEF Tree
    <3>5. Publishes(n, h)'
      BY <1>1, <3>2, <3>3, <3>4 DEF Publishes, Tree
    <3>6. ASSUME NEW i \in 1..n, NEW g \in main'[i].subject PROVE Publishes(i, g)'
      <4>1. CASE i = n
        BY <3>4, <3>5, <4>1
      <4>2. CASE i # n
        BY <1>1, <1>3, <3>1, <3>3, <4>2
      <4> QED BY <4>1, <4>2
    <3> QED BY <1>1, <3>1, <3>3, <3>6 DEF Commits
  <2>3. CASE \E n \in 2..HEAD : CanRevert(n) /\ rollbackMain(n)
    <3>1. HEAD' = HEAD + 1 /\ (\A k \in 1..HEAD : main'[k] = main[k]) /\ main'[HEAD'].subject = {}
      BY <2>3, RevertFacts DEF TypeInv
    <3>2. PICK n \in Nat : n = HEAD + 1
      BY <1>1
    <3>3. ASSUME NEW i \in 1..n, NEW g \in main'[i].subject PROVE Publishes(i, g)'
      BY <1>1, <1>3, <3>1, <3>2, <3>3
    <3> QED BY <1>1, <3>1, <3>2, <3>3 DEF Commits
  <2>4. CASE squashDraft(p)
    BY <1>2, <2>4 DEF squashDraft
  <2> QED BY <1>2, <2>1, <2>2, <2>3, <2>4 DEF GitStep
<1>5. CASE OtherStep
  BY <1>2, <1>5, OtherStepsWait
<1> QED BY <1>4, <1>5, EveryStep

\* The transaction that publishes a review names the commit that put it on main.
LEMMA FinalizedStands ==
  ASSUME TypeInv, GitInv, NEW r \in Reviews, NEW h \in Heads, h[1] = r, main[HEAD].subject = {h},
         finalizePublicationTransaction(r, HEAD)
  PROVE  main[review'[r].merged].subject = {h} /\ \A g \in Tree(HEAD) : g[1] = r => g = h
<1>1. review[r] \in Row /\ review \in [Reviews -> Row] /\ HEAD \in DOMAIN main
  BY MoreParts, HeadIsPositive DEF RowTypes, TypeInv
<1>2. review'[r] = [review[r] EXCEPT !.status = "APPROVED", !.merged = HEAD]
  BY <1>1 DEF finalizePublicationTransaction
<1>3. review'[r].merged = HEAD
  BY <1>1, <1>2 DEF Row
<1>4. Publishes(HEAD, h)
  BY <1>1 DEF GitInv, Commits
<1> QED BY <1>3, <1>4 DEF Publishes

\* Every step keeps rows and main in line.
LEMMA StepKeepsStanding ==
  ASSUME "torn" \notin Faults, TypeInv, GitInv, [Next]_vars, NEW r \in Reviews
  PROVE  Standing(r)'
<1> USE DEF rowVars, At
<1>1. Standing(r) /\ RowStep(r)
  BY EveryRowStep DEF GitInv
<1>2. CASE OtherStep
  <2>1. UNCHANGED main
    BY <1>2, OtherStepsWait
  <2>2. \/ review'[r] = review[r]
        \/ review[r].status \in Open \cup {"NONE"} /\ review'[r].status \in Open \cup {"REJECTED"}
    BY <1>2, OtherRows
  <2> QED BY <1>1, <2>1, <2>2, StandingRow DEF Open
<1>3. ASSUME NEW p \in Requests, RequestStep(p) \/ Fault(p), UNCHANGED main PROVE Standing(r)'
  <2>1. CASE review'[r] = review[r]
    BY <1>1, <1>3, <2>1, StandingRow
  <2>2. CASE review'[r] # review[r]
    <3>1. r = req[p].review /\ req[p].at # "idle" /\ Duty(req[p])
      BY <1>3, <2>2, RowTurns DEF GitInv
    <3>2. CASE compensateReview(p) /\ review'[r].status = "CHANGES_REQUESTED"
      <4>1. ~Holds(r)
        BY <3>1, <3>2 DEF compensateReview, Duty, ApproveDuty
      <4> QED BY <1>1, <1>3, <3>2, <4>1, StandingRow
    <3>3. CASE /\ finalizeApproval(p) \/ recoverPublication(p)
               /\ finalizePublicationTransaction(r, req[p].revision) /\ review'[r].status = "APPROVED"
      <4>1. /\ req[p].revision = HEAD
            /\ \E h \in Heads : h[1] = r /\ main[HEAD].subject = {h}
        BY <3>1, <3>3 DEF finalizeApproval, recoverPublication, Duty, ApproveDuty, ReconcileDuty, Merged
      <4>2. PICK h \in Heads : h[1] = r /\ main[HEAD].subject = {h}
        BY <4>1
      <4>3. main[review'[r].merged].subject = {h} /\ \A g \in Tree(HEAD) : g[1] = r => g = h
        BY <3>3, <4>1, <4>2, FinalizedStands
      <4> QED BY <1>1, <1>3, <3>3, <4>2, <4>3, StandingRow
    <3>4. CASE finalizeRollback(p) /\ review[r].status = "ROLLING_BACK" /\ review'[r].status = "ROLLED_BACK"
      <4>1. RollbackDuty(req[p]) /\ Merged(req[p])
        BY <3>1, <3>4 DEF finalizeRollback, Duty, Merged
      <4>2. PICK h \in Heads : main[req[p].merged].subject = {h} /\ Tree(HEAD) = Tree(HEAD - 1) \ {h}
        BY <4>1 DEF RollbackDuty
      <4>3. \A g \in Tree(HEAD) : g[1] = r => g = h
        BY <1>1, <3>1, <3>4, <4>1, <4>2 DEF Standing, Published, RollbackDuty
      <4>4. ~Holds(r)
        BY <4>2, <4>3 DEF Holds
      <4> QED BY <1>1, <1>3, <3>4, <4>4, StandingRow
    <3>5. CASE \/ review'[r].status \in {"PUBLISHING", "ROLLING_BACK", "PUBLICATION_RECOVERY_REQUIRED",
                                         "ROLLBACK_RECOVERY_REQUIRED"}
               \/ review[r].status = "ROLLING_BACK" /\ review'[r].status = "APPROVED"
      BY <1>1, <1>3, <3>5, StandingRow
    <3> QED BY <1>3, <2>2, <3>2, <3>3, <3>4, <3>5, RowTurns
  <2> QED BY <2>1, <2>2
<1>4. CASE \E p \in Requests : RequestStep(p) \/ Fault(p)
  <2>1. PICK p \in Requests : (RequestStep(p) \/ Fault(p)) /\ GitStep(p)
    BY <1>4, EveryGitStep
  <2>2. CASE UNCHANGED main
    BY <1>3, <2>1, <2>2
  <2>3. CASE commitDraft(p) /\ ~Clean
    <3>1. PICK h \in Heads : Tree(HEAD)' = Tree(HEAD) \cup {h} /\ review[h[1]].status = "PUBLISHING"
      BY <2>3, MergePublishes
    <3>2. /\ HEAD' = HEAD + 1 /\ UNCHANGED review
          /\ \A i \in 1..HEAD : main'[i] = main[i]
      BY <2>3, MergeFacts
    <3> QED BY <1>1, <3>1, <3>2, StandingGrows DEF Decided, Published
  <2>4. CASE (compensateGit(p) \/ revertPublication(p) \/ restoreGit(p)) /\ ~UNCHANGED <<main, index>>
    <3>1. PICK h \in Heads : /\ review[h[1]].status \in Decided
                             /\ review[h[1]].status \in Published => main[review[h[1]].merged].subject = {h}
                             /\ Tree(HEAD)' \subseteq Tree(HEAD) \cup {h}
      BY <2>4, RequestReverts
    <3>2. /\ HEAD' = HEAD + 1 /\ UNCHANGED review
          /\ \A i \in 1..HEAD : main'[i] = main[i]
      BY <2>4, RequestReverts
    <3> QED BY <1>1, <3>1, <3>2, StandingGrows
  <2>5. squashDraft(p) => UNCHANGED main
    BY DEF squashDraft
  <2> QED BY <2>1, <2>2, <2>3, <2>4, <2>5 DEF GitStep
<1> QED BY <1>2, <1>4, EveryStep

\* A request that did not move keeps what it relies on.
LEMMA OtherDuty ==
  ASSUME "torn" \notin Faults, TypeInv, GitInv, [Next]_vars,
         NEW p \in Requests, RequestStep(p) \/ Fault(p), NEW q \in Requests, q # p
  PROVE  Duty(req[q])'
<1> USE DEF rowVars, At
<1>1. PICK s : s = req[q]
  OBVIOUS
<1>2. req'[q] = s /\ Duty(s)
  BY <1>1, WhoSteps DEF GitInv
<1>3. CASE s.at = "idle"
  BY <1>2, <1>3 DEF Duty
<1>4. ASSUME s.at # "idle" PROVE Duty(s)'
  <2>1. s \in Active /\ RowStep(s.review)
    BY <1>1, <1>4, RequestRow, EveryRowStep
  <2>2. req[p].at \in Locked => s.at \notin Locked
    BY <1>1, LockExcludes DEF GitInv
  <2>3. CASE UNCHANGED main
    <3>1. s.at \notin Locked \/ UNCHANGED review
      BY <2>2, RowsNeedLock
    <3> QED BY <1>2, <2>1, <2>3, <3>1, DutyFrame
  <2>4. CASE commitDraft(p) /\ ~Clean
    <3>1. HEAD' = HEAD + 1 /\ UNCHANGED review /\ req[p].at \in Locked
      BY <2>4, MergeFacts DEF Locked
    <3> QED BY <1>2, <2>1, <2>2, <3>1, DutyWaits
  <2>5. CASE (compensateGit(p) \/ revertPublication(p) \/ restoreGit(p)) /\ ~UNCHANGED <<main, index>>
    <3>1. HEAD' = HEAD + 1 /\ UNCHANGED review /\ req[p].at \in Locked
      BY <2>5, RequestReverts
    <3> QED BY <1>2, <2>1, <2>2, <3>1, DutyWaits
  <2>6. squashDraft(p) => UNCHANGED main
    BY DEF squashDraft
  <2> QED BY <2>3, <2>4, <2>5, <2>6, EveryGitStep DEF GitStep
<1> QED BY <1>2, <1>3, <1>4

\* Most steps of a request only move it on.
LEMMA OwnDutyCarries ==
  ASSUME TypeInv, GitInv, [Next]_vars, NEW p \in Requests, req[p].at # "idle", UNCHANGED main,
         NEW x \in Phases, Goto(p, x), x \notin {"claimed", "compensate", "exact"},
         x \in {"git", "squashed"} => req[p].at \in {"claimed", "git"} /\ UNCHANGED review,
         x \in {"committed", "finalize"} \/ (x = "catch" /\ req[p].revision # 0) =>
           Merged(req[p]) /\ UNCHANGED review
  PROVE  Duty(req[p])'
<1>1. PICK s, t : s = req[p] /\ t = req'[p]
  OBVIOUS
<1>2. s \in Active /\ RowStep(s.review) /\ Duty(s)
  BY <1>1, RequestRow, EveryRowStep DEF GitInv
<1>3. t \in Active /\ t.at = x /\ t.revision = s.revision /\ Resumes(t, s)
  BY <1>1, GotoFacts DEF TypeInv
<1>4. Merged(t) => Merged(s) /\ UNCHANGED review
  BY <1>1, <1>3 DEF Merged
<1>5. Duty(t)'
  BY <1>1, <1>2, <1>3, <1>4, DutyCarries DEF Resumes
<1> QED BY <1>1, <1>5

LEMMA OwnDutyEnds ==
  ASSUME TypeInv, NEW p \in Requests, End(p)
  PROVE  Duty(req[p])'
BY EndFacts DEF Duty, TypeInv

LEMMA SharedDuty ==
  ASSUME TypeInv, GitInv, [Next]_vars, NEW p \in Requests, SharedStep(p)
  PROVE  Duty(req[p])'
<1> USE DEF gitVars, rowVars, Phases, Locked
<1>1. CASE acquireLock(p)
  <2>1. req[p].at = "ready" /\ UNCHANGED main /\ (Goto(p, "locked") \/ End(p))
    BY <1>1 DEF acquireLock
  <2> QED BY <2>1, OwnDutyCarries, OwnDutyEnds
<1>2. CASE renewPublicationLock(p)
  <2>1. /\ req[p].at \in {"claimed", "committed"} /\ UNCHANGED <<main, review>>
        /\ \/ Goto(p, "catch")
           \/ req[p].at = "claimed" /\ Goto(p, "git")
           \/ req[p].at = "committed" /\ Goto(p, "finalize")
    BY <1>2 DEF renewPublicationLock
  <2>2. req[p].at = "claimed" => req[p].revision = 0
    BY RequestRow DEF RequestFits, Begun
  <2> QED BY <2>1, <2>2, OwnDutyCarries DEF Merged
<1>3. CASE auditDecision(p) \/ cleanupPublished(p)
  <2>1. req[p].at # "idle" /\ UNCHANGED main /\ (Goto(p, "cleanup") \/ Goto(p, "release"))
    BY <1>3 DEF auditDecision, cleanupPublished
  <2> QED BY <2>1, OwnDutyCarries
<1>4. CASE requireRecovery(p)
  <2>1. req[p].at # "idle" /\ UNCHANGED main /\ Goto(p, "release")
    BY <1>4 DEF requireRecovery
  <2> QED BY <2>1, OwnDutyCarries
<1>5. CASE releaseLock(p)
  BY <1>5, OwnDutyEnds DEF releaseLock
<1> QED BY <1>1, <1>2, <1>3, <1>4, <1>5 DEF SharedStep

LEMMA FaultDuty ==
  ASSUME Faults \subseteq {"crash", "fail"}, TypeInv, GitInv, [Next]_vars, NEW p \in Requests, Fault(p)
  PROVE  Duty(req[p])'
<1> USE DEF gitVars, rowVars, Phases, Locked
<1>1. CASE StepFails(p)
  <2>1. /\ UNCHANGED <<main, review>> /\ req[p].at # "idle"
        /\ \/ Goto(p, "release") \/ Goto(p, "ambiguous")
           \/ Goto(p, "catch") /\ req[p].at \in {"locked", "claimed", "git", "committed", "finalize"}
    BY <1>1 DEF StepFails
  <2>2. req[p].at \in {"locked", "claimed", "git"} => req[p].revision = 0
    BY RequestRow DEF RequestFits, Begun
  <2> QED BY <2>1, <2>2, OwnDutyCarries DEF Merged
<1>2. CASE Crash(p)
  BY <1>2, OwnDutyEnds DEF Crash
<1>3. ~LateFailure(p) /\ ~CommitTorn(p)
  BY DEF LateFailure, CommitTorn, Spend
<1> QED BY <1>1, <1>2, <1>3 DEF Fault

LEMMA ReconcileDutyKept ==
  ASSUME TypeInv, GitInv, [Next]_vars, NEW p \in Requests, ReconcileStep(p)
  PROVE  Duty(req[p])'
<1> USE DEF gitVars, rowVars, At
<1>1. CASE attributeMain(p)
  <2>1. CASE Goto(p, "release")
    BY <1>1, <2>1, OwnDutyCarries DEF attributeMain, Phases, Locked
  <2>2. CASE ~Goto(p, "release")
    <3>1. PICK x : x = IF IsExactPublication(req[p].review) THEN "exact" ELSE "inexact"
      OBVIOUS
    <3>2. /\ req' = [req EXCEPT ![p].at = x, ![p].draft = review[req[p].review].draft,
                                ![p].revision = HEAD]
          /\ req[p].op = "reconcile" /\ req[p].at # "idle" /\ UNCHANGED main
      BY <1>1, <2>2, <3>1 DEF attributeMain
    <3>3. /\ req[p] \in ReconcileRequest /\ req[p].review \in Reviews /\ req \in [Requests -> RequestState]
          /\ review[req[p].review] \in Row
      BY <3>2, RequestRow, RequestOf DEF TypeInv, TypeOK
    <3>4. PICK t : t = [req[p] EXCEPT !.at = x, !.draft = review[req[p].review].draft, !.revision = HEAD]
      OBVIOUS
    <3>5. t.op = "reconcile" /\ t.at = x /\ t.review = req[p].review /\ t.revision = HEAD
      BY <3>2, <3>3, <3>4 DEF ReconcileRequest
    <3>6. req'[p] = t
      BY <3>2, <3>3, <3>4
    <3>7. x = "exact" => \E h \in Heads : h[1] = t.review /\ main[HEAD].subject = {h}
      <4>1. HeadOf(req[p].review) \in Heads /\ HeadOf(req[p].review)[1] = req[p].review
        BY <3>3 DEF HeadOf, Heads, Row
      <4> QED BY <3>1, <3>5, <4>1 DEF IsExactPublication
    <3>8. Duty(t)'
      BY <3>2, <3>5, <3>7 DEF Duty, ReconcileDuty, HEAD
    <3> QED BY <3>6, <3>8
  <2> QED BY <2>1, <2>2
<1>2. CASE recoverPublication(p) \/ refuseRecovery(p)
  <2>1. req[p].at # "idle" /\ UNCHANGED main /\ (Goto(p, "cleanup") \/ Goto(p, "release"))
    BY <1>2 DEF recoverPublication, refuseRecovery
  <2> QED BY <2>1, OwnDutyCarries DEF Phases, Locked
<1> QED BY <1>1, <1>2 DEF ReconcileStep

LEMMA ApproveDutyKept ==
  ASSUME TypeInv, GitInv, [Next]_vars, NEW p \in Requests, ApproveStep(p)
  PROVE  Duty(req[p])'
<1> USE DEF gitVars, rowVars, At
<1>1. /\ req[p].at # "idle" /\ req[p].op = "approve" /\ RequestFits(req[p])
      /\ req[p] \in ApproveRequest /\ req[p].review \in Reviews /\ ApproveDuty(req[p])
      /\ Standing(req[p].review) /\ HEAD \in Nat \ {0} /\ req[p].base \in Nat
  <2>1. req[p].at # "idle" /\ req[p].op = "approve"
    BY DEF ApproveStep, recordReviewApproval, claimReviewForPublication, squashDraft, commitDraft,
           finalizeApproval, compensateGit, compensateReview
  <2>2. RequestFits(req[p]) /\ req[p] \in ApproveRequest /\ req[p].review \in Reviews /\ HEAD \in Nat \ {0}
    BY <2>1, RequestRow, MoreParts
  <2> QED BY <2>1, <2>2, SMTT(30) DEF GitInv, Duty, ApproveRequest
<1>2. review \in [Reviews -> Row] /\ review[req[p].review] \in Row
  BY <1>1, MoreParts DEF RowTypes
<1>3. PICK s, t : s = req[p] /\ t = req'[p]
  OBVIOUS
<1>4. CASE recordReviewApproval(p)
  <2>1. CASE End(p)
    BY <2>1, OwnDutyEnds
  <2>2. CASE ~End(p)
    <3>1. PICK c : req' = [req EXCEPT ![p].at = "ready", ![p].approved = c]
      BY <1>4, <2>2 DEF recordReviewApproval
    <3>2. t = [s EXCEPT !.at = "ready", !.approved = c]
      BY <1>3, <3>1 DEF TypeInv, TypeOK
    <3>3. t.op = "approve" /\ t.at = "ready" /\ t.review = s.review /\ t.base = s.base
      BY <1>1, <1>3, <3>2 DEF ApproveRequest
    <3>4. UNCHANGED main /\ HEAD' = HEAD /\ \A r : Holds(r)' = Holds(r)
      BY <1>4 DEF recordReviewApproval, Holds, Tree, HEAD
    <3>5. ApproveDuty(t)'
      BY <1>1, <1>3, <3>3, <3>4 DEF ApproveDuty, Merged
    <3>6. Duty(t)'
      BY <3>3, <3>5 DEF Duty
    <3> QED BY <1>3, <3>6
  <2> QED BY <2>1, <2>2
<1>5. CASE claimReviewForPublication(p)
  <2>1. CASE Goto(p, "release")
    BY <1>1, <1>5, <2>1, OwnDutyCarries DEF claimReviewForPublication, Phases, Locked
  <2>2. CASE ~Goto(p, "release")
    <3>1. /\ review[s.review].status \in Open /\ review' = [review EXCEPT ![s.review].status = "PUBLISHING"]
          /\ Goto(p, "claimed") /\ UNCHANGED main
      BY <1>3, <1>5, <2>2 DEF claimReviewForPublication
    <3>2. t.at = "claimed" /\ t.op = "approve" /\ t.review = s.review /\ t.base = s.base
      BY <1>1, <1>3, <3>1, GotoFacts DEF TypeInv, Phases, Locked, Resumes
    <3>3. review'[s.review].status = "PUBLISHING"
      BY <1>1, <1>3, <3>1, StatusTurns DEF Turns
    <3>4. ~Holds(s.review)
      BY <1>1, <1>3, <3>1 DEF Standing, Decided, Open
    <3>5. HEAD' = HEAD /\ \A r : Holds(r)' = Holds(r)
      BY <3>1 DEF Holds, Tree, HEAD
    <3>6. ApproveDuty(t)'
      BY <1>1, <1>3, <3>2, <3>3, <3>4, <3>5 DEF ApproveDuty, Merged
    <3>7. Duty(t)'
      BY <3>2, <3>6 DEF Duty
    <3> QED BY <1>3, <3>7
  <2> QED BY <2>1, <2>2
<1>6. CASE squashDraft(p)
  <2>1. req[p].at = "git" /\ UNCHANGED <<main, review>> /\ (Goto(p, "squashed") \/ Goto(p, "catch"))
    BY <1>6 DEF squashDraft
  <2>2. req[p].revision = 0
    BY <1>1, <2>1 DEF RequestFits, Begun
  <2> QED BY <1>1, <2>1, <2>2, OwnDutyCarries DEF Phases, Locked
<1>7. CASE commitDraft(p)
  <2>1. CASE Clean
    <3>1. req[p].at = "squashed" /\ UNCHANGED <<main, review>> /\ Goto(p, "catch")
      BY <1>7, <2>1 DEF commitDraft
    <3>2. req[p].revision = 0
      BY <1>1, <3>1 DEF RequestFits, Begun
    <3> QED BY <1>1, <3>1, <3>2, OwnDutyCarries DEF Phases, Locked
  <2>2. CASE ~Clean
    <3>1. PICK h \in Heads : /\ h[1] = s.review /\ main'[HEAD'].subject = {h}
                             /\ review[h[1]].status = "PUBLISHING"
      BY <1>3, <1>7, <2>2, MergePublishes
    <3>2. /\ HEAD' = HEAD + 1 /\ UNCHANGED review
          /\ t.at = "committed" /\ t.revision = HEAD + 1
          /\ t.op = "approve" /\ t.review = s.review /\ t.base = s.base
      BY <1>1, <1>3, <1>7, <2>2, MergeFacts DEF Resumes
    <3>3. ApproveDuty(t)'
      BY <1>1, <1>3, <3>1, <3>2 DEF ApproveDuty, Merged
    <3>4. Duty(t)'
      BY <3>2, <3>3 DEF Duty
    <3> QED BY <1>3, <3>4
  <2> QED BY <2>1, <2>2
<1>8. CASE finalizeApproval(p)
  <2>1. /\ req[p].at = "finalize" /\ UNCHANGED main
        /\ Goto(p, "audit") \/ (Goto(p, "catch") /\ UNCHANGED review)
    BY <1>8 DEF finalizeApproval
  <2> QED BY <1>1, <2>1, OwnDutyCarries DEF Phases, Locked, Merged
<1>9. CASE compensateGit(p)
  <2>1. CASE Goto(p, "ambiguous") /\ UNCHANGED main
    BY <1>1, <2>1, OwnDutyCarries DEF Phases, Locked
  <2>2. CASE UNCHANGED <<main, index>> /\ ~Goto(p, "ambiguous")
    <3>1. s.revision = 0 /\ HEAD = s.base /\ GotoWith(p, "compensate", HEAD)
      BY <1>1, <1>3, <1>9, <2>2, RevertFacts DEF compensateGit, RequestFits, GotoWith, HEAD, TypeInv
    <3>2. t.at = "compensate" /\ t.op = "approve" /\ t.review = s.review /\ t.base = s.base
      BY <1>1, <1>3, <3>1, GotoWithFacts DEF TypeInv, Phases, Locked, Resumes
    <3>3. HEAD' = HEAD /\ \A r : Holds(r)' = Holds(r)
      BY <2>2 DEF Holds, Tree, HEAD
    <3>4. ~Holds(s.review)
      BY <1>1, <1>3, <3>1 DEF ApproveDuty
    <3>5. ApproveDuty(t)'
      BY <1>1, <1>3, <3>2, <3>3, <3>4 DEF ApproveDuty, Merged
    <3>6. Duty(t)'
      BY <3>2, <3>5 DEF Duty
    <3> QED BY <1>3, <3>6
  <2>3. CASE ~UNCHANGED <<main, index>>
    <3>1. PICK h \in Heads : /\ h[1] = s.review /\ Tree(HEAD)' = Tree(HEAD) \ {h} /\ Publishes(HEAD, h)
      BY <1>3, <1>9, <2>3, RequestReverts
    <3>2. HEAD' = HEAD + 1 /\ UNCHANGED review
      BY <1>9, <2>3, RequestReverts
    <3>3. ~Holds(s.review)'
      BY <3>1 DEF Publishes, Holds
    <3>4. GotoWith(p, "compensate", HEAD + 1)
      BY <1>9, <2>3 DEF compensateGit, GotoWith
    <3>5. t.at = "compensate" /\ t.op = "approve" /\ t.review = s.review /\ t.base = s.base
      BY <1>1, <1>3, <3>4, GotoWithFacts DEF TypeInv, Phases, Locked, Resumes
    <3>6. ApproveDuty(t)'
      BY <1>1, <1>3, <3>2, <3>3, <3>5 DEF ApproveDuty, Merged
    <3>7. Duty(t)'
      BY <3>5, <3>6 DEF Duty
    <3> QED BY <1>3, <3>7
  <2> QED BY <1>9, <2>1, <2>2, <2>3 DEF compensateGit
<1>10. CASE compensateReview(p)
  <2>1. UNCHANGED main /\ (Goto(p, "release") \/ Goto(p, "ambiguous"))
    BY <1>10 DEF compensateReview
  <2> QED BY <1>1, <2>1, OwnDutyCarries DEF Phases, Locked
<1> QED BY <1>4, <1>5, <1>6, <1>7, <1>8, <1>9, <1>10 DEF ApproveStep

LEMMA RollbackDutyKept ==
  ASSUME TypeInv, GitInv, [Next]_vars, NEW p \in Requests, RollbackStep(p)
  PROVE  Duty(req[p])'
<1> USE DEF gitVars, rowVars, At
<1>1. /\ req[p].at # "idle" /\ req[p].op = "rollback" /\ RequestFits(req[p])
      /\ req[p] \in RollbackRequest /\ req[p].review \in Reviews /\ RollbackDuty(req[p])
      /\ HEAD \in Nat \ {0}
  <2>1. req[p].at # "idle" /\ req[p].op = "rollback"
    BY DEF RollbackStep, claimRollback, revertPublication, finalizeRollback, restoreGit, restoreReview
  <2>2. RequestFits(req[p]) /\ req[p] \in Active /\ req[p].review \in Reviews /\ HEAD \in Nat \ {0}
    BY <2>1, RequestRow, MoreParts
  <2>3. req[p] \in RollbackRequest
    BY <2>1, RequestOf DEF TypeInv
  <2> QED BY <2>1, <2>2, <2>3 DEF GitInv, Duty
<1>2. PICK s, t : s = req[p] /\ t = req'[p]
  OBVIOUS
<1>3. CASE claimRollback(p)
  <2>1. CASE Goto(p, "release")
    BY <1>1, <1>3, <2>1, OwnDutyCarries DEF claimRollback, Phases, Locked
  <2>2. CASE ~Goto(p, "release")
    <3>1. /\ review' = [review EXCEPT ![s.review].status = "ROLLING_BACK"]
          /\ Goto(p, "claimed") /\ UNCHANGED main
      BY <1>2, <1>3, <2>2 DEF claimRollback
    <3>2. t.at = "claimed" /\ t.op = "rollback" /\ t.review = s.review /\ t.merged = s.merged
      BY <1>1, <1>2, <3>1, GotoFacts DEF TypeInv, Phases, Locked, Resumes
    <3>3. review'[s.review].status = "ROLLING_BACK" /\ review'[s.review].merged = review[s.review].merged
      BY <1>1, <1>2, <3>1, StatusTurns DEF Turns, KeepsCommit
    <3>4. RollbackDuty(t)'
      BY <1>1, <1>2, <3>2, <3>3 DEF RollbackDuty, Merged, Published
    <3>5. Duty(t)'
      BY <3>2, <3>4 DEF Duty
    <3> QED BY <1>2, <3>5
  <2> QED BY <2>1, <2>2
<1>4. CASE revertPublication(p)
  <2>1. CASE Goto(p, "catch") /\ UNCHANGED main
    <3>1. req[p].at = "git" /\ req[p].revision = 0
      BY <1>1, <1>4 DEF revertPublication, RequestFits, Begun
    <3> QED BY <1>1, <2>1, <3>1, OwnDutyCarries DEF Phases, Locked
  <2>2. CASE ~(Goto(p, "catch") /\ UNCHANGED main)
    <3>1. GotoWith(p, "committed", HEAD + 1) /\ rollbackMain(s.merged) /\ s.at = "git"
          /\ s.merged \in 2..HEAD
      BY <1>1, <1>2, <1>4, <2>2 DEF revertPublication, GotoWith, RequestFits
    <3>2. t.at = "committed" /\ t.revision = HEAD + 1 /\ t.op = "rollback"
          /\ t.review = s.review /\ t.merged = s.merged
      BY <1>1, <1>2, <3>1, GotoWithFacts DEF TypeInv, Phases, Locked, Resumes
    <3>3. HEAD' = HEAD + 1 /\ \A k \in 1..HEAD : main'[k] = main[k]
      BY <3>1, RevertFacts DEF TypeInv
    <3>4. ~UNCHANGED <<main, index>>
      BY <1>1, <3>3 DEF HEAD
    <3>5. PICK h \in Heads :
            /\ h[1] = s.review /\ Tree(HEAD)' = Tree(HEAD) \ {h} /\ h \in Tree(HEAD)
            /\ review[h[1]].status \in Published => main[review[h[1]].merged].subject = {h}
      BY <1>2, <1>4, <3>4, RequestReverts
    <3>6. /\ review[s.review].status = "ROLLING_BACK" /\ review[s.review].merged = s.merged
          /\ UNCHANGED review
      BY <1>1, <1>2, <1>4, <3>1 DEF RollbackDuty, revertPublication
    <3>7. main'[s.merged].subject = {h}
      BY <1>1, <3>1, <3>3, <3>5, <3>6 DEF Published
    <3>8. PICK n \in Nat : n = HEAD + 1
      BY <1>1
    <3>9. h \in Tree(n - 1)' /\ Tree(n)' = Tree(n - 1)' \ {h} /\ HEAD' = n
      BY <1>1, <3>3, <3>5, <3>8 DEF Tree
    <3>10. RollbackDuty(t)'
      BY <3>2, <3>6, <3>7, <3>8, <3>9 DEF RollbackDuty, Merged, Published
    <3>11. Duty(t)'
      BY <3>2, <3>10 DEF Duty
    <3> QED BY <1>2, <3>11
  <2> QED BY <2>1, <2>2
<1>5. CASE finalizeRollback(p)
  <2>1. /\ req[p].at = "finalize" /\ UNCHANGED main
        /\ Goto(p, "audit") \/ (Goto(p, "catch") /\ UNCHANGED review)
    BY <1>5 DEF finalizeRollback
  <2> QED BY <1>1, <2>1, OwnDutyCarries DEF Phases, Locked, Merged
<1>6. CASE restoreGit(p)
  <2>1. CASE Goto(p, "ambiguous") /\ UNCHANGED main
    BY <1>1, <2>1, OwnDutyCarries DEF Phases, Locked
  <2>2. CASE ~(Goto(p, "ambiguous") /\ UNCHANGED main)
    <3>1. UNCHANGED review /\ \E n \in Nat : GotoWith(p, "compensate", n)
      <4>1. HEAD + 1 \in Nat /\ req[p].merged \in Nat
        BY <1>1 DEF RollbackRequest
      <4> QED BY <1>6, <2>2, <4>1 DEF restoreGit, GotoWith
    <3>2. t.at = "compensate" /\ t.op = "rollback" /\ t.review = s.review /\ t.merged = s.merged
      BY <1>1, <1>2, <3>1, GotoWithFacts DEF TypeInv, Phases, Locked, Resumes
    <3>3. RollbackDuty(t)'
      BY <1>1, <1>2, <3>1, <3>2 DEF RollbackDuty, Merged
    <3>4. Duty(t)'
      BY <3>2, <3>3 DEF Duty
    <3> QED BY <1>2, <3>4
  <2> QED BY <2>1, <2>2
<1>7. CASE restoreReview(p)
  <2>1. UNCHANGED main /\ (Goto(p, "release") \/ Goto(p, "ambiguous"))
    BY <1>7 DEF restoreReview
  <2> QED BY <1>1, <2>1, OwnDutyCarries DEF Phases, Locked
<1> QED BY <1>3, <1>4, <1>5, <1>6, <1>7 DEF RollbackStep

\* A request that starts relies on what it has just read.
LEMMA ReaderDuty ==
  ASSUME TypeInv, GitInv, NEW p \in Requests, NEW r \in Reviews,
         readRollback(p, r) \/ readIntent(p, r) \/ \E a \in Reviewers : readReview(p, r, a)
  PROVE  Duty(req[p])'
<1> USE DEF gitVars, rowVars
<1>1. /\ req \in [Requests -> RequestState] /\ RowFits(r) /\ Standing(r) /\ HEAD \in Nat
  BY MoreParts DEF TypeInv, TypeOK, GitInv
<1>2. UNCHANGED <<main, review>> /\ HEAD' = HEAD /\ \A i : Holds(i)' = Holds(i)
  BY DEF readRollback, readIntent, readReview, Holds, Tree, HEAD
<1>3. CASE readRollback(p, r)
  <2>1. PICK t : t = [op |-> "rollback", at |-> "ready", review |-> r,
                      merged |-> review[r].merged, revision |-> 0]
    OBVIOUS
  <2>2. req'[p] = t /\ review[r].status = "APPROVED"
    BY <1>1, <1>3, <2>1 DEF readRollback
  <2>3. t.op = "rollback" /\ t.at = "ready" /\ t.review = r /\ t.merged = review[r].merged
    BY <2>1
  <2>4. Duty(t)'
    BY <1>2, <2>2, <2>3 DEF Duty, RollbackDuty, Merged, Published
  <2> QED BY <2>2, <2>4
<1>4. CASE readIntent(p, r)
  <2>1. PICK t : t = [op |-> "reconcile", at |-> "ready", review |-> r, draft |-> 1, revision |-> 0]
    OBVIOUS
  <2>2. req'[p] = t
    BY <1>1, <1>4, <2>1 DEF readIntent
  <2>3. t.op = "reconcile" /\ t.at = "ready"
    BY <2>1
  <2>4. Duty(t)'
    BY <2>3 DEF Duty, ReconcileDuty
  <2> QED BY <2>2, <2>4
<1>5. CASE \E a \in Reviewers : readReview(p, r, a)
  <2>1. PICK a \in Reviewers : readReview(p, r, a)
    BY <1>5
  <2>2. PICK t : t = [op |-> "approve", at |-> "read", review |-> r, reviewer |-> a,
                      draft |-> review[r].draft, base |-> review[r].base,
                      approved |-> [draft |-> 0, round |-> 0, policy |-> 0], revision |-> 0]
    OBVIOUS
  <2>3. req'[p] = t /\ review[r].status \in Open
    BY <1>1, <2>1, <2>2 DEF readReview
  <2>4. t.op = "approve" /\ t.at = "read" /\ t.review = r /\ t.base = review[r].base
    BY <2>2
  <2>5. ~Holds(r) /\ review[r].base <= HEAD
    BY <1>1, <2>3 DEF Standing, Decided, Open, RowFits
  <2>6. Duty(t)'
    BY <1>2, <2>4, <2>5 DEF Duty, ApproveDuty, Merged
  <2> QED BY <2>3, <2>6
<1> QED BY <1>3, <1>4, <1>5

LEMMA StepKeepsDuty ==
  ASSUME Faults \subseteq {"crash", "fail"}, TypeInv, GitInv, [Next]_vars, NEW q \in Requests
  PROVE  Duty(req[q])'
<1>1. CASE \E p \in Requests : RequestStep(p) \/ Fault(p)
  <2>1. PICK p \in Requests : RequestStep(p) \/ Fault(p)
    BY <1>1
  <2>2. CASE q = p
    BY <2>1, <2>2, ApproveDutyKept, RollbackDutyKept, ReconcileDutyKept, SharedDuty, FaultDuty
    DEF RequestStep
  <2>3. CASE q # p
    BY <2>1, <2>3, OtherDuty
  <2> QED BY <2>2, <2>3
<1>2. CASE OtherStep
  <2>1. CASE req'[q] = req[q]
    <3>1. PICK s : s = req[q]
      OBVIOUS
    <3>2. req'[q] = s /\ Duty(s) /\ UNCHANGED main
      BY <1>2, <2>1, <3>1, OtherStepsWait DEF GitInv
    <3>3. CASE s.at = "idle"
      BY <3>2, <3>3 DEF Duty
    <3>4. ASSUME s.at # "idle" PROVE Duty(s)'
      <4>1. s \in Active /\ RowStep(s.review) /\ s.review \in Reviews
        BY <3>1, <3>4, RequestRow, EveryRowStep
      <4>2. review'[s.review] = review[s.review] \/ review[s.review].status \in Open \cup {"NONE"}
        BY <1>2, <4>1, OtherRows
      <4> QED BY <3>2, <4>1, <4>2, DutyFrame
    <3> QED BY <3>2, <3>3, <3>4
  <2>2. CASE req'[q] # req[q]
    <3>1. ~(\/ activateProfile \/ LockExpires \/ UNCHANGED vars
            \/ \E r \in Reviews : AuthorStep(r) \/ requestChanges(r) \/ reject(r))
      BY <2>2 DEF activateProfile, LockExpires, vars, AuthorStep, createReviewDraft, submit, reviseDraft,
                  reviseUpdate, cleanupSuperseded, AuthorCrash, reviseThrows, requestChanges, reject
    <3>2. PICK p \in Requests, r \in Reviews :
            readRollback(p, r) \/ readIntent(p, r) \/ \E a \in Reviewers : readReview(p, r, a)
      BY <1>2, <3>1 DEF OtherStep
    <3>3. p = q
      BY <2>2, <3>2, ReadersWait
    <3> QED BY <3>2, <3>3, ReaderDuty
  <2> QED BY <2>1, <2>2
<1> QED BY <1>1, <1>2, EveryStep

\* Rows, commits and requests stay in line.
LEMMA MainIsKept ==
  ASSUME Faults \subseteq {"crash", "fail"}
  PROVE  Spec => []GitInv
<1>1. "torn" \notin Faults /\ "stall" \notin Faults
  OBVIOUS
<1>2. Init => GitInv
  <2> SUFFICES ASSUME Init PROVE GitInv
    OBVIOUS
  <2>1. /\ DOMAIN main = {1} /\ HEAD = 1 /\ main[1].subject = {} /\ main[1].tree = {} /\ index = {}
    BY DEF Init, HEAD
  <2>2. \A p \in Requests : req[p].at = "idle"
    BY DEF Init, Idle
  <2>3. \A r \in Reviews : review[r].status = "NONE"
    BY DEF Init
  <2>4. Commits
    BY <2>1 DEF Commits
  <2>5. \A r \in Reviews : Standing(r)
    BY <2>1, <2>3 DEF Standing, Holds, Tree, Published
  <2> QED BY <2>1, <2>2, <2>4, <2>5 DEF GitInv, LockHeld, IndexSettled, Clean, Tree, Locked, Duty
<1>3. TypeInv /\ GitInv /\ [Next]_vars => GitInv'
  <2> SUFFICES ASSUME TypeInv, GitInv, [Next]_vars PROVE GitInv'
    OBVIOUS
  <2>1. LockHeld' /\ IndexSettled'
    BY <1>1, StepHoldsLock, StepSettlesIndex DEF GitInv
  <2>2. Commits'
    BY <1>1, StepKeepsCommits
  <2>3. \A r \in Reviews : Standing(r)'
    BY <1>1, StepKeepsStanding
  <2>4. \A p \in Requests : Duty(req[p])'
    BY StepKeepsDuty
  <2> QED BY <2>1, <2>2, <2>3, <2>4 DEF GitInv
<1> QED BY <1>2, <1>3, RowsAreTyped, PTL DEF Spec

\* main holds no content whose review is back in discussion, rejected or rolled
\* back, however often requests crash and their steps fail: compensation and
\* rollback reach Git before the row.
THEOREM MainHoldsDecisions ==
  ASSUME Faults \subseteq {"crash", "fail"}
  PROVE  Spec => []CanonicalIsDecided
<1>1. TypeInv /\ GitInv => CanonicalIsDecided
  <2> SUFFICES ASSUME TypeInv, GitInv, NEW h \in Tree(HEAD) PROVE review[h[1]].status \in Decided
    BY DEF CanonicalIsDecided, Decided
  <2>1. h \in Heads /\ h[1] \in Reviews
    BY HeadIsPositive DEF TypeInv, Trees, Heads
  <2> QED BY <2>1 DEF GitInv, Standing, Holds
<1> QED BY <1>1, MainIsKept, RowsAreTyped, PTL

-----------------------------------------------------------------------------
(* One fault at most.                                                           *)

\* A rollback request that will hand the row back as it found it.
Restores(s) == (s.at = "catch" /\ s.revision = 0) \/ s.at = "compensate"

\* It has taken nothing off main yet, or has put it back.
RollbackHolds(s) ==
  s.at # "idle" /\ s.op = "rollback" =>
    /\ s.at \in {"claimed", "git"} => Holds(s.review)
    /\ Restores(s) /\ review[s.review].status = "ROLLING_BACK" => Holds(s.review)

\* A rollback request that answers for content that is off main.
Undoes(s, r) ==
  s.at # "idle" /\ s.op = "rollback" /\ s.review = r /\ (Merged(s) \/ s.at = "ambiguous")

OneFaultInv ==
  /\ \A r \in Reviews : review[r].status = "APPROVED" => Holds(r)
  /\ \A p \in Requests : RollbackHolds(req[p])
  /\ budget = MaxFaults =>
       \A r \in Reviews : review[r].status = "ROLLING_BACK" =>
         Holds(r) \/ \E p \in Requests : Undoes(req[p], r)

\* Content leaves main when a publication that failed or a rollback takes it back.
LEMMA HoldsLost ==
  ASSUME "torn" \notin Faults, TypeInv, GitInv, [Next]_vars, NEW r \in Reviews, Holds(r), ~Holds(r)'
  PROVE  \E p \in Requests :
           /\ r = req[p].review /\ req[p].at \in Locked /\ UNCHANGED review
           /\ \/ compensateGit(p) /\ review[r].status = "PUBLISHING"
              \/ /\ revertPublication(p) /\ review[r].status = "ROLLING_BACK"
                 /\ req'[p].at = "committed" /\ Resumes(req'[p], req[p])
<1>1. ~UNCHANGED main /\ ~OtherStep
  BY OtherStepsWait DEF Holds, Tree, HEAD
<1>2. PICK p \in Requests : RequestStep(p) \/ Fault(p)
  BY <1>1, EveryStep
<1>3. CASE commitDraft(p) /\ ~Clean
  <2>1. Tree(HEAD) \subseteq Tree(HEAD)'
    BY <1>3, MergePublishes
  <2> QED BY <2>1 DEF Holds
<1>4. CASE (compensateGit(p) \/ revertPublication(p) \/ restoreGit(p)) /\ ~UNCHANGED <<main, index>>
  <2>1. PICK h \in Heads :
          /\ h[1] = req[p].review
          /\ compensateGit(p) \/ revertPublication(p) => Tree(HEAD)' = Tree(HEAD) \ {h}
          /\ restoreGit(p) => Tree(HEAD)' = Tree(HEAD) \cup {h}
    BY <1>4, RequestReverts
  <2>2. ~restoreGit(p) /\ r = req[p].review
    BY <1>4, <2>1 DEF Holds
  <2>3. req[p].at \in Locked /\ req[p].at # "idle" /\ UNCHANGED review /\ Duty(req[p]) /\ RequestFits(req[p])
    BY <1>4, RequestReverts, RequestRow DEF GitInv
  <2>4. CASE compensateGit(p)
    <3>1. Merged(req[p]) /\ ApproveDuty(req[p])
      BY <1>4, <2>3, <2>4 DEF compensateGit, At, Duty, Merged
    <3> QED BY <2>2, <2>3, <2>4, <3>1 DEF ApproveDuty
  <2>5. CASE revertPublication(p)
    <3>1. req[p].at = "git" /\ RollbackDuty(req[p])
      BY <2>3, <2>5 DEF revertPublication, At, Duty
    <3>2. GotoWith(p, "committed", HEAD + 1) /\ HEAD + 1 \in Nat
      BY <1>4, <2>5, MoreParts DEF revertPublication, GotoWith
    <3>3. req'[p].at = "committed" /\ Resumes(req'[p], req[p])
      BY <2>3, <3>2, GotoWithFacts DEF TypeInv, Phases, Locked
    <3> QED BY <2>2, <2>3, <2>5, <3>1, <3>3 DEF RollbackDuty
  <2> QED BY <1>4, <2>2, <2>4, <2>5
<1>5. squashDraft(p) => UNCHANGED main
  BY DEF squashDraft
<1> QED BY <1>1, <1>2, <1>3, <1>4, <1>5, EveryGitStep DEF GitStep

\* The budget is only full while no fault has struck.
LEMMA NoFaultYet ==
  ASSUME Faults \subseteq {"crash", "fail"}, TypeInv, [Next]_vars, budget' = MaxFaults
  PROVE  budget = MaxFaults /\ \A p \in Requests : ~Fault(p)
<1> USE DEF gitVars, rowVars
<1>1. budget \in 0..MaxFaults /\ MaxFaults \in Nat
  BY BoundAssumption DEF TypeInv, TypeOK
<1>2. ASSUME NEW p \in Requests, Fault(p) PROVE FALSE
  <2>1. budget > 0 /\ budget' = budget - 1
    BY <1>2 DEF Fault, StepFails, LateFailure, CommitTorn, Crash, Spend
  <2> QED BY <1>1, <2>1
<1>3. UNCHANGED budget
  <2>1. CASE OtherStep
    <3>1. CASE LockExpires
      BY <3>1 DEF LockExpires, Spend
    <3>2. CASE \E p \in Requests, r \in Reviews :
                 readRollback(p, r) \/ readIntent(p, r) \/ \E a \in Reviewers : readReview(p, r, a)
      BY <3>2, SMTT(30) DEF readRollback, readIntent, readReview
    <3>3. CASE \/ activateProfile \/ UNCHANGED vars
               \/ \E r \in Reviews : \/ AuthorStep(r) /\ ~reviseThrows(r)
                                     \/ requestChanges(r) \/ reject(r)
      BY <3>3, ZenonT(60) DEF activateProfile, vars, AuthorStep, createReviewDraft, submit, reviseDraft,
                  reviseUpdate, cleanupSuperseded, AuthorCrash, requestChanges, reject
    <3>4. ASSUME NEW r \in Reviews, reviseThrows(r) PROVE FALSE
      <4>1. budget > 0 /\ budget' = budget - 1
        BY <3>4 DEF reviseThrows, Spend
      <4> QED BY <1>1, <4>1
    <3> QED BY <2>1, <3>1, <3>2, <3>3, <3>4 DEF OtherStep
  <2>2. CASE \E p \in Requests : RequestStep(p)
    BY <2>2, ZenonT(60) DEF RequestStep, ApproveStep, RollbackStep, ReconcileStep, SharedStep,
           recordReviewApproval, claimReviewForPublication, squashDraft, commitDraft, finalizeApproval,
           compensateGit, compensateReview, claimRollback, revertPublication, finalizeRollback,
           restoreGit, restoreReview, attributeMain, recoverPublication, refuseRecovery, acquireLock,
           renewPublicationLock, auditDecision, cleanupPublished, requireRecovery, releaseLock
  <2> QED BY <1>2, <2>1, <2>2, EveryStep
<1> QED BY <1>2, <1>3

LEMMA ApprovedHolds ==
  ASSUME "torn" \notin Faults, TypeInv, GitInv, OneFaultInv, [Next]_vars,
         NEW r \in Reviews, review'[r].status = "APPROVED"
  PROVE  Holds(r)'
<1>1. CASE review[r].status = "APPROVED"
  <2>1. Holds(r)
    BY <1>1 DEF OneFaultInv
  <2> QED BY <1>1, <2>1, HoldsLost
<1>2. CASE review[r].status # "APPROVED"
  <2>1. ~OtherStep
    BY <1>2, OtherRows DEF Open
  <2>2. PICK p \in Requests : RequestStep(p) \/ Fault(p)
    BY <2>1, EveryStep
  <2>3. /\ r = req[p].review /\ req[p].at # "idle"
        /\ \/ /\ finalizeApproval(p) \/ recoverPublication(p)
           \/ restoreReview(p) /\ review[r].status = "ROLLING_BACK"
    BY <1>2, <2>2, RowTurns
  <2>4. Duty(req[p]) /\ RollbackHolds(req[p]) /\ HEAD \in DOMAIN main
    BY HeadIsPositive DEF GitInv, OneFaultInv, TypeInv
  <2>5. Holds(r)
    <3>1. CASE finalizeApproval(p) \/ recoverPublication(p)
      <4>1. PICK h \in Heads : h[1] = r /\ main[HEAD].subject = {h}
        BY <2>3, <2>4, <3>1 DEF finalizeApproval, recoverPublication, At, Duty, ApproveDuty,
                                ReconcileDuty, Merged
      <4>2. Publishes(HEAD, h)
        BY <2>4, <4>1 DEF GitInv, Commits
      <4> QED BY <4>1, <4>2 DEF Publishes, Holds
    <3>2. CASE restoreReview(p) /\ review[r].status = "ROLLING_BACK"
      BY <2>3, <2>4, <3>2 DEF restoreReview, At, RollbackHolds, Restores
    <3> QED BY <2>3, <3>1, <3>2
  <2>6. UNCHANGED main
    BY <2>3 DEF finalizeApproval, recoverPublication, restoreReview, gitVars
  <2> QED BY <2>5, <2>6 DEF Holds, Tree, HEAD
<1> QED BY <1>1, <1>2

\* A row starts to roll back while main has its content.
LEMMA RollingBackStarts ==
  ASSUME TypeInv, OneFaultInv, [Next]_vars, NEW r \in Reviews,
         review[r].status # "ROLLING_BACK", review'[r].status = "ROLLING_BACK"
  PROVE  Holds(r)'
<1>1. ~OtherStep
  BY OtherRows DEF Open
<1>2. PICK p \in Requests : RequestStep(p) \/ Fault(p)
  BY <1>1, EveryStep
<1>3. claimRollback(p) /\ review[r].status = "APPROVED"
  BY <1>2, RowTurns
<1>4. Holds(r) /\ UNCHANGED main
  BY <1>3 DEF OneFaultInv, claimRollback, gitVars
<1> QED BY <1>4 DEF Holds, Tree, HEAD

\* How a request gets to where it must hold content, or would hand the row back.
LEMMA RollbackMoves ==
  ASSUME "late" \notin Faults, "torn" \notin Faults, TypeInv, GitInv,
         NEW p \in Requests, RequestStep(p) \/ Fault(p), req'[p].at # "idle",
         req'[p].op = "rollback", req'[p].at \in {"claimed", "git"} \/ Restores(req'[p])
  PROVE  /\ Resumes(req'[p], req[p]) /\ req[p].at # "idle" /\ req[p].at \in Locked
         /\ req[p].op = "rollback"
         /\ \/ claimRollback(p) /\ review[req[p].review].status = "APPROVED"
            \/ /\ UNCHANGED <<main, review>> /\ req[p].at \in {"claimed", "git"}
               /\ req'[p].at # "compensate"
            \/ restoreGit(p) /\ UNCHANGED review /\ req'[p].at = "compensate"
            \/ Fault(p) /\ req[p].at = "locked" /\ UNCHANGED <<main, review>> /\ req'[p].at = "catch"
<1> USE DEF gitVars, rowVars, At
<1>0. req'[p].at \in {"claimed", "git", "catch", "compensate"}
  BY DEF Restores
<1>1. ~End(p)
  BY EndFacts DEF TypeInv
<1>2. ASSUME req[p].at # "idle", NEW x \in Phases, Goto(p, x)
      PROVE  /\ req'[p].at = x /\ req'[p].revision = req[p].revision /\ Resumes(req'[p], req[p])
             /\ req[p].op = "rollback"
  <2>1. req'[p].at = x /\ req'[p].revision = req[p].revision /\ Resumes(req'[p], req[p])
    BY <1>2, GotoFacts DEF TypeInv
  <2> QED BY <2>1 DEF Resumes
<1>3. ASSUME req[p].at # "idle", NEW x \in Phases, NEW n \in Nat, GotoWith(p, x, n)
      PROVE  /\ req'[p].at = x /\ Resumes(req'[p], req[p]) /\ req[p].op = "rollback"
             /\ req'[p].revision = n
  <2>1. req'[p].at = x /\ Resumes(req'[p], req[p]) /\ req'[p].revision = n
    BY <1>3, GotoWithFacts DEF TypeInv
  <2> QED BY <2>1 DEF Resumes
<1>4. req[p].at # "idle" => /\ RequestFits(req[p]) /\ Duty(req[p]) /\ req[p].revision \in Nat
                            /\ HEAD + 1 \in Nat
                            /\ req[p].op = "rollback" => req[p].merged \in Nat
  <2> SUFFICES ASSUME req[p].at # "idle"
               PROVE  /\ RequestFits(req[p]) /\ Duty(req[p]) /\ req[p].revision \in Nat
                      /\ HEAD + 1 \in Nat
                      /\ req[p].op = "rollback" => req[p].merged \in Nat
    OBVIOUS
  <2>1. req[p].op = "rollback" => req[p] \in RollbackRequest
    BY RequestOf DEF TypeInv
  <2> QED BY <2>1, RequestRow, RequestOf, MoreParts DEF GitInv, TypeInv, RollbackRequest
<1>5. CASE SharedStep(p)
  <2>1. CASE renewPublicationLock(p)
    <3>1. /\ req[p].at \in {"claimed", "committed"} /\ UNCHANGED <<main, review>>
          /\ Goto(p, "catch") \/ (Goto(p, "git") /\ req[p].at = "claimed") \/ Goto(p, "finalize")
      BY <2>1 DEF renewPublicationLock
    <3>2. req[p].at = "committed" => req[p].revision # 0
      BY <1>4 DEF RequestFits
    <3> QED BY <1>0, <1>2, <3>1, <3>2 DEF Phases, Locked, Restores
  <2>2. CASE ~renewPublicationLock(p)
    <3>1. req[p].at # "idle"
      BY <1>5, <2>2 DEF SharedStep, acquireLock, auditDecision, cleanupPublished, requireRecovery, releaseLock
    <3>2. Goto(p, "locked") \/ Goto(p, "cleanup") \/ Goto(p, "release")
      BY <1>1, <1>5, <2>2 DEF SharedStep, acquireLock, auditDecision, cleanupPublished, requireRecovery,
                              releaseLock
    <3>3. "locked" \in Phases /\ "cleanup" \in Phases /\ "release" \in Phases
      BY DEF Phases, Locked
    <3> QED BY <1>0, <1>2, <3>1, <3>2, <3>3
  <2> QED BY <2>1, <2>2
<1>6. CASE Fault(p)
  <2>1. StepFails(p)
    BY <1>1, <1>6 DEF Fault, Crash, LateFailure, CommitTorn, Spend
  <2>2. /\ UNCHANGED <<main, review>> /\ req[p].at # "idle"
        /\ \/ Goto(p, "release") \/ Goto(p, "ambiguous")
           \/ Goto(p, "catch") /\ req[p].at \in {"locked", "claimed", "git", "committed", "finalize"}
    BY <2>1 DEF StepFails
  <2>3. req[p].at \in {"committed", "finalize"} => req[p].revision # 0
    BY <1>4, <2>2 DEF RequestFits
  <2>4. "release" \in Phases /\ "ambiguous" \in Phases /\ "catch" \in Phases
    BY DEF Phases, Locked
  <2>5. Goto(p, "catch") /\ req'[p].at = "catch" /\ req'[p].revision = req[p].revision
        /\ Resumes(req'[p], req[p]) /\ req[p].op = "rollback"
    BY <1>0, <1>2, <2>2, <2>4
  <2>6. req[p].at \in {"locked", "claimed", "git", "committed", "finalize"}
    BY <1>0, <1>2, <2>2, <2>4
  <2> QED BY <1>6, <2>2, <2>3, <2>5, <2>6 DEF Restores, Locked
<1>7. CASE RollbackStep(p)
  <2>1. CASE claimRollback(p)
    <3>1. req[p].at = "locked" /\ (Goto(p, "release") \/ (Goto(p, "claimed") /\ review[req[p].review].status = "APPROVED"))
      BY <2>1 DEF claimRollback
    <3> QED BY <1>0, <1>2, <2>1, <3>1 DEF Phases, Locked
  <2>2. CASE revertPublication(p)
    <3>1. req[p].at = "git" /\ ((Goto(p, "catch") /\ UNCHANGED <<main, review>>) \/ GotoWith(p, "committed", HEAD + 1))
      BY <2>2 DEF revertPublication, GotoWith
    <3> QED BY <1>0, <1>2, <1>3, <1>4, <3>1 DEF Phases, Locked
  <2>3. CASE finalizeRollback(p)
    <3>1. req[p].at = "finalize" /\ (Goto(p, "catch") \/ Goto(p, "audit"))
      BY <2>3 DEF finalizeRollback
    <3>2. req[p].revision # 0
      BY <1>4, <3>1 DEF RequestFits
    <3> QED BY <1>0, <1>2, <3>1, <3>2 DEF Phases, Locked, Restores
  <2>4. CASE restoreGit(p)
    <3>1. /\ req[p].at = "catch" /\ req[p].op = "rollback" /\ UNCHANGED review
          /\ \/ GotoWith(p, "compensate", HEAD + 1) \/ GotoWith(p, "compensate", req[p].merged)
             \/ Goto(p, "ambiguous")
      BY <2>4 DEF restoreGit, GotoWith
    <3> QED BY <1>0, <1>2, <1>3, <1>4, <2>4, <3>1 DEF Phases, Locked
  <2>5. CASE restoreReview(p)
    <3>1. req[p].at = "compensate" /\ (Goto(p, "release") \/ Goto(p, "ambiguous"))
      BY <2>5 DEF restoreReview
    <3> QED BY <1>0, <1>2, <3>1 DEF Phases, Locked
  <2> QED BY <1>7, <2>1, <2>2, <2>3, <2>4, <2>5 DEF RollbackStep
<1>8. CASE ApproveStep(p)
  <2>1. req[p].at # "idle" /\ req[p].op = "approve" /\ req[p] \in ApproveRequest
    <3>1. req[p].at # "idle" /\ req[p].op = "approve"
      BY <1>8 DEF ApproveStep, recordReviewApproval, claimReviewForPublication, squashDraft, commitDraft,
             finalizeApproval, compensateGit, compensateReview
    <3> QED BY <3>1, RequestOf, SMTT(30) DEF TypeInv
  <2>2. CASE recordReviewApproval(p)
    <3>1. PICK c : req' = [req EXCEPT ![p].at = "ready", ![p].approved = c]
      BY <1>1, <2>2 DEF recordReviewApproval
    <3>2. req'[p] = [req[p] EXCEPT !.at = "ready", !.approved = c]
      BY <3>1 DEF TypeInv, TypeOK
    <3>3. req'[p].at = "ready"
      BY <2>1, <3>2 DEF ApproveRequest
    <3> QED BY <1>0, <3>3
  <2>3. CASE ~recordReviewApproval(p)
    <3>1. (\E x \in Phases : Goto(p, x)) \/ (\E x \in Phases, n \in Nat : GotoWith(p, x, n))
      <4>1. CASE commitDraft(p)
        <5>1. Goto(p, "catch") \/ GotoWith(p, "committed", HEAD + 1)
          BY <4>1 DEF commitDraft, GotoWith
        <5> QED BY <1>4, <2>1, <5>1 DEF Phases, Locked
      <4>2. CASE compensateGit(p)
        <5>1. Goto(p, "ambiguous") \/ GotoWith(p, "compensate", HEAD + 1) \/ GotoWith(p, "compensate", HEAD)
          BY <4>2 DEF compensateGit, GotoWith
        <5>2. HEAD \in Nat
          BY MoreParts
        <5> QED BY <1>4, <2>1, <5>1, <5>2 DEF Phases, Locked
      <4>3. CASE ~commitDraft(p) /\ ~compensateGit(p)
        <5>1. Goto(p, "claimed") \/ Goto(p, "release") \/ Goto(p, "squashed") \/ Goto(p, "catch")
              \/ Goto(p, "audit") \/ Goto(p, "ambiguous")
          BY <1>8, <2>3, <4>3 DEF ApproveStep, claimReviewForPublication, squashDraft, finalizeApproval,
                           compensateReview
        <5> QED BY <5>1 DEF Phases, Locked
      <4> QED BY <4>1, <4>2, <4>3
    <3> QED BY <1>2, <1>3, <2>1, <3>1
  <2> QED BY <2>2, <2>3
<1>9. CASE ReconcileStep(p)
  <2>1. req[p].at # "idle" /\ req[p].op = "reconcile" /\ req[p] \in ReconcileRequest
    <3>1. \/ req[p].at = "locked" /\ req[p].op = "reconcile"
          \/ req[p].at = "exact" /\ req[p].op = "reconcile"
          \/ req[p].at = "inexact" /\ req[p].op = "reconcile"
      BY <1>9 DEF ReconcileStep, attributeMain, recoverPublication, refuseRecovery
    <3> QED BY <3>1, RequestOf DEF TypeInv
  <2>2. CASE attributeMain(p) /\ ~Goto(p, "release")
    <3>1. PICK x : x = IF IsExactPublication(req[p].review) THEN "exact" ELSE "inexact"
      OBVIOUS
    <3>2. req'[p] = [req[p] EXCEPT !.at = x, !.draft = review[req[p].review].draft, !.revision = HEAD]
      BY <2>2, <3>1 DEF attributeMain, TypeInv, TypeOK
    <3>3. req'[p].op = "reconcile"
      BY <2>1, <3>2 DEF ReconcileRequest
    <3> QED BY <3>3
  <2>3. CASE ~(attributeMain(p) /\ ~Goto(p, "release"))
    <3>1. Goto(p, "release") \/ Goto(p, "cleanup")
      BY <1>9, <2>3 DEF ReconcileStep, attributeMain, recoverPublication, refuseRecovery
    <3> QED BY <1>2, <2>1, <3>1 DEF Phases, Locked
  <2> QED BY <2>2, <2>3
<1> QED BY <1>5, <1>6, <1>7, <1>8, <1>9 DEF RequestStep

LEMMA RollbackHoldsKept ==
  ASSUME Faults \subseteq {"crash", "fail"}, MaxFaults <= 1, TypeInv, GitInv, OneFaultInv,
         [Next]_vars, NEW q \in Requests
  PROVE  RollbackHolds(req[q])'
<1>0. "torn" \notin Faults /\ "late" \notin Faults
  OBVIOUS
<1>1. PICK s, t : s = req[q] /\ t = req'[q]
  OBVIOUS
<1>2. SUFFICES ASSUME t.at # "idle", t.op = "rollback",
                      \/ t.at \in {"claimed", "git"}
                      \/ Restores(t) /\ review'[t.review].status = "ROLLING_BACK"
               PROVE  Holds(t.review)'
  <2>1. Restores(t)' = Restores(t)
    BY DEF Restores
  <2>2. RollbackHolds(t)'
    BY <1>2, <2>1 DEF RollbackHolds
  <2> QED BY <1>1, <2>2
<1>3. ASSUME t = s PROVE Holds(t.review)'
  <2>1. s.at \in Locked /\ s.review \in Reviews /\ RollbackHolds(s) /\ s.op = "rollback"
    BY <1>1, <1>2, <1>3, RequestRow DEF OneFaultInv, Restores, Locked
  <2>2. CASE review[s.review].status # "ROLLING_BACK" /\ review'[s.review].status = "ROLLING_BACK"
    BY <1>3, <2>1, <2>2, RollingBackStarts
  <2>3. CASE ~(review[s.review].status # "ROLLING_BACK" /\ review'[s.review].status = "ROLLING_BACK")
    <3>1. Holds(s.review)
      BY <1>2, <1>3, <2>1, <2>3 DEF RollbackHolds
    <3>2. ASSUME ~Holds(s.review)' PROVE FALSE
      <4>1. PICK p \in Requests : /\ req[p].at \in Locked
                                  /\ \/ compensateGit(p)
                                     \/ revertPublication(p) /\ req'[p].at = "committed"
        BY <1>0, <2>1, <3>1, <3>2, HoldsLost
      <4>2. p = q
        BY <1>1, <2>1, <4>1, LockExcludes DEF GitInv
      <4>3. ~compensateGit(p)
        BY <1>1, <2>1, <4>2 DEF compensateGit, At
      <4>4. s.at = "git" /\ t.at = "committed"
        BY <1>1, <4>1, <4>2, <4>3 DEF revertPublication, At
      <4> QED BY <1>3, <4>4
    <3> QED BY <1>3, <3>2
  <2> QED BY <2>2, <2>3
<1>4. ASSUME t # s PROVE Holds(t.review)'
  <2>1. t.at \notin {"read", "ready"}
    BY <1>2 DEF Restores
  <2>2. ~OtherStep
    BY <1>1, <1>4, <2>1, OtherStepsWait
  <2>3. RequestStep(q) \/ Fault(q)
    BY <1>1, <1>4, <2>2, EveryStep, WhoSteps
  <2>4. /\ Resumes(t, s) /\ s.at # "idle" /\ s.at \in Locked /\ s.op = "rollback"
        /\ \/ claimRollback(q) /\ review[s.review].status = "APPROVED"
           \/ UNCHANGED <<main, review>> /\ s.at \in {"claimed", "git"} /\ t.at # "compensate"
           \/ restoreGit(q) /\ UNCHANGED review /\ t.at = "compensate"
           \/ Fault(q) /\ s.at = "locked" /\ UNCHANGED <<main, review>> /\ t.at = "catch"
    BY <1>0, <1>1, <1>2, <2>3, RollbackMoves
  <2>5. t.review = s.review /\ s.review \in Reviews /\ RollbackHolds(s) /\ RequestFits(s)
    BY <1>1, <2>4, RequestRow DEF OneFaultInv, Resumes
  <2>6. UNCHANGED main => Holds(s.review)' = Holds(s.review)
    BY DEF Holds, Tree, HEAD
  <2>7. CASE claimRollback(q) /\ review[s.review].status = "APPROVED"
    <3>1. UNCHANGED main /\ Holds(s.review)
      BY <2>5, <2>7 DEF claimRollback, gitVars, OneFaultInv
    <3> QED BY <2>5, <2>6, <3>1
  <2>8. CASE UNCHANGED <<main, review>> /\ s.at \in {"claimed", "git"}
    BY <2>4, <2>5, <2>6, <2>8 DEF RollbackHolds
  <2>9. CASE restoreGit(q) /\ UNCHANGED review /\ t.at = "compensate"
    <3>1. review[s.review].status = "ROLLING_BACK"
      BY <1>2, <2>5, <2>9
    <3>2. CASE UNCHANGED <<main, index>>
      <4>1. s.at = "catch" /\ s.revision = 0
        <5>1. s.revision # 0 => HEAD' = HEAD + 1 \/ Goto(q, "ambiguous")
          <6>1. s.revision # 0 /\ s.at = "catch" => s.revision \in 2..HEAD
            BY <2>5 DEF RequestFits
          <6> QED BY <1>1, <2>9, <6>1, RevertFacts DEF restoreGit, At, TypeInv
        <5>2. ~Goto(q, "ambiguous")
          BY <1>1, <2>4, <2>9, GotoFacts DEF TypeInv, Phases, Locked
        <5>3. HEAD' # HEAD + 1
          BY <3>2, MoreParts DEF HEAD
        <5> QED BY <1>1, <2>9, <5>1, <5>2, <5>3 DEF restoreGit, At
      <4> QED BY <2>4, <2>5, <2>6, <3>1, <3>2, <4>1 DEF RollbackHolds, Restores
    <3>3. CASE ~UNCHANGED <<main, index>>
      <4>1. PICK h \in Heads : h[1] = s.review /\ Tree(HEAD)' = Tree(HEAD) \cup {h}
        BY <1>1, <2>9, <3>3, RequestReverts
      <4> QED BY <2>5, <4>1 DEF Holds
    <3> QED BY <3>2, <3>3
  <2>10. CASE Fault(q) /\ s.at = "locked" /\ UNCHANGED <<main, review>> /\ t.at = "catch"
    <3>1. budget = MaxFaults
      <4>1. budget > 0
        BY <2>10 DEF Fault, StepFails, LateFailure, CommitTorn, Crash, Spend
      <4> QED BY <4>1, BoundAssumption DEF TypeInv, TypeOK
    <3>2. review[s.review].status = "ROLLING_BACK"
      BY <1>2, <2>5, <2>10
    <3>3. ASSUME NEW p \in Requests, Undoes(req[p], s.review) PROVE FALSE
      <4>1. req[p].at \in Locked
        BY <3>3 DEF Undoes, Merged, Locked
      <4>2. p = q
        BY <1>1, <2>4, <4>1, LockExcludes DEF GitInv
      <4> QED BY <1>1, <2>10, <3>3, <4>2 DEF Undoes, Merged
    <3>4. Holds(s.review)
      BY <2>5, <3>1, <3>2, <3>3 DEF OneFaultInv
    <3> QED BY <2>5, <2>6, <2>10, <3>4
  <2> QED BY <2>4, <2>7, <2>8, <2>9, <2>10
<1> QED BY <1>3, <1>4

\* A request that took content off main answers for it until it is back or the
\* row says so.
LEMMA UndoesMoves ==
  ASSUME TypeInv, GitInv, NEW q \in Requests, NEW r \in Reviews,
         RequestStep(q), Undoes(req[q], r), review'[r].status = "ROLLING_BACK"
  PROVE  Holds(r)' \/ Undoes(req[q], r)'
<1> USE DEF gitVars, rowVars, At
<1>1. /\ req[q].at \in {"committed", "finalize", "catch", "ambiguous"} /\ req[q].at # "idle"
      /\ req[q].op = "rollback" /\ req[q].review = r
      /\ req[q].at = "catch" => req[q].revision # 0
  BY DEF Undoes, Merged
<1>2. RequestFits(req[q])
  BY <1>1, RequestRow
<1>3. req[q].at # "ambiguous" => req[q].revision # 0
  BY <1>1, <1>2 DEF RequestFits
<1>4. ASSUME NEW x \in Phases, Goto(q, x),
             x = "ambiguous" \/ (x \in {"finalize", "catch"} /\ req[q].revision # 0)
      PROVE  Undoes(req[q], r)'
  <2>1. req'[q].at = x /\ req'[q].revision = req[q].revision /\ Resumes(req'[q], req[q])
    BY <1>1, <1>4, GotoFacts DEF TypeInv
  <2> QED BY <1>1, <1>4, <2>1 DEF Undoes, Merged, Resumes
<1>5. CASE renewPublicationLock(q)
  <2>1. req[q].at = "committed" /\ (Goto(q, "finalize") \/ Goto(q, "catch"))
    BY <1>1, <1>5 DEF renewPublicationLock
  <2> QED BY <1>3, <1>4, <2>1 DEF Phases, Locked
<1>6. CASE finalizeRollback(q)
  <2>1. CASE Goto(q, "catch")
    BY <1>1, <1>3, <1>4, <1>6, <2>1 DEF finalizeRollback, Phases, Locked
  <2>2. CASE ~Goto(q, "catch")
    <3>1. review' = [review EXCEPT ![r].status = "ROLLED_BACK"]
      BY <1>1, <1>6, <2>2 DEF finalizeRollback
    <3>2. review'[r].status = "ROLLED_BACK"
      BY <3>1, StatusTurns DEF Turns
    <3> QED BY <3>2
  <2> QED BY <2>1, <2>2
<1>7. CASE restoreGit(q)
  <2>1. CASE Goto(q, "ambiguous")
    BY <1>4, <2>1 DEF Phases, Locked
  <2>2. CASE ~Goto(q, "ambiguous")
    <3>1. req[q].revision \in 2..HEAD /\ rollbackMain(req[q].revision)
      BY <1>1, <1>2, <1>7, <2>2 DEF restoreGit, RequestFits
    <3>2. ~UNCHANGED <<main, index>>
      BY <3>1, RevertFacts, MoreParts DEF TypeInv, HEAD
    <3>3. PICK h \in Heads : h[1] = r /\ Tree(HEAD)' = Tree(HEAD) \cup {h}
      BY <1>1, <1>7, <3>2, RequestReverts
    <3> QED BY <3>3 DEF Holds
  <2> QED BY <2>1, <2>2
<1>8. CASE requireRecovery(q)
  <2>1. review' = IF review[r].status = "ROLLING_BACK"
                  THEN [review EXCEPT ![r].status = "ROLLBACK_RECOVERY_REQUIRED"] ELSE review
    BY <1>1, <1>8 DEF requireRecovery, FailClosed
  <2>2. CASE review[r].status = "ROLLING_BACK"
    <3>1. review'[r].status = "ROLLBACK_RECOVERY_REQUIRED"
      BY <2>1, <2>2, StatusTurns DEF Turns
    <3> QED BY <3>1
  <2> QED BY <2>1, <2>2
<1>9. CASE \/ ApproveStep(q) \/ ReconcileStep(q)
           \/ claimRollback(q) \/ revertPublication(q) \/ restoreReview(q)
           \/ acquireLock(q) \/ auditDecision(q) \/ cleanupPublished(q) \/ releaseLock(q)
  BY <1>1, <1>9
  DEF ApproveStep, recordReviewApproval, claimReviewForPublication, squashDraft, commitDraft,
      finalizeApproval, compensateGit, compensateReview, ReconcileStep, attributeMain,
      recoverPublication, refuseRecovery, claimRollback, revertPublication, restoreReview,
      acquireLock, auditDecision, cleanupPublished, releaseLock
<1> QED BY <1>5, <1>6, <1>7, <1>8, <1>9 DEF RequestStep, RollbackStep, SharedStep

LEMMA RollingBackIsOwned ==
  ASSUME Faults \subseteq {"crash", "fail"}, TypeInv, GitInv, OneFaultInv, [Next]_vars,
         budget' = MaxFaults, NEW r \in Reviews, review'[r].status = "ROLLING_BACK"
  PROVE  Holds(r)' \/ \E p \in Requests : Undoes(req[p], r)'
<1>1. budget = MaxFaults /\ \A p \in Requests : ~Fault(p)
  BY NoFaultYet
<1>2. CASE review[r].status # "ROLLING_BACK"
  BY <1>2, RollingBackStarts
<1>3. CASE review[r].status = "ROLLING_BACK" /\ Holds(r) /\ ~Holds(r)'
  <2>1. PICK p \in Requests : /\ r = req[p].review
                              /\ revertPublication(p) /\ req'[p].at = "committed" /\ Resumes(req'[p], req[p])
    BY <1>3, HoldsLost
  <2>2. Undoes(req[p], r)'
    BY <2>1 DEF revertPublication, At, Undoes, Merged, Resumes
  <2> QED BY <2>2
<1>4. CASE review[r].status = "ROLLING_BACK" /\ ~Holds(r)
  <2>1. PICK q \in Requests : Undoes(req[q], r)
    BY <1>1, <1>4 DEF OneFaultInv
  <2>2. CASE req'[q] = req[q]
    BY <2>1, <2>2 DEF Undoes, Merged
  <2>3. CASE req'[q] # req[q]
    <3>1. ~OtherStep
      BY <2>1, <2>3, OtherStepsWait DEF Undoes
    <3>2. RequestStep(q)
      BY <1>1, <2>3, <3>1, EveryStep, WhoSteps
    <3> QED BY <2>1, <3>2, UndoesMoves
  <2> QED BY <2>2, <2>3
<1> QED BY <1>2, <1>3, <1>4

\* Rows and Git agree at every moment: types, exact publications, one writer,
\* each lifecycle announced once, approved content on main and nothing there
\* that is back in discussion, rejected or rolled back, whichever request
\* crashes or has a step fail, once.
THEOREM RowsAgreeWithGit ==
  ASSUME Faults \subseteq {"crash", "fail"}, MaxFaults <= 1
  PROVE  Spec => []RowsAndGitAgree
<1>1. "torn" \notin Faults /\ "stall" \notin Faults
  OBVIOUS
<1>2. Init => OneFaultInv
  BY DEF Init, OneFaultInv, RollbackHolds, Idle
<1>3. TypeInv /\ GitInv /\ OneFaultInv /\ [Next]_vars => OneFaultInv'
  <2> SUFFICES ASSUME TypeInv, GitInv, OneFaultInv, [Next]_vars PROVE OneFaultInv'
    OBVIOUS
  <2>1. \A r \in Reviews : review'[r].status = "APPROVED" => Holds(r)'
    BY <1>1, ApprovedHolds
  <2>2. \A p \in Requests : RollbackHolds(req[p])'
    BY RollbackHoldsKept
  <2>3. budget' = MaxFaults =>
          \A r \in Reviews : review'[r].status = "ROLLING_BACK" =>
            Holds(r)' \/ \E p \in Requests : Undoes(req[p], r)'
    BY RollingBackIsOwned
  <2> QED BY <2>1, <2>2, <2>3 DEF OneFaultInv
<1>4. Spec => []GitInv
  BY MainIsKept
<1>5. TypeInv /\ OneFaultInv => TypeOK /\ ApprovedIsCanonical
  BY DEF TypeInv, OneFaultInv, ApprovedIsCanonical, Holds
<1>6. Spec => []OneFaultInv
  BY <1>2, <1>3, <1>4, RowsAreTyped, PTL DEF Spec
<1>7. Spec => []OneDraftPerPublication
  BY <1>1, PublicationsAreExact
<1>8. Spec => []OneWriter
  BY <1>1, MainHasOneWriter
<1>9. Spec => []CanonicalIsDecided
  BY MainHoldsDecisions
<1>10. TypeOK /\ ApprovedIsCanonical /\ OneDraftPerPublication /\ OneWriter /\ CanonicalIsDecided
       /\ PublishedOnce => RowsAndGitAgree
  BY DEF RowsAndGitAgree
<1> QED BY <1>5, <1>6, <1>7, <1>8, <1>9, <1>10, LifecyclesAreAnnouncedOnce, RowsAreTyped, PTL
=============================================================================
