---------------------------- MODULE AssuranceRun ----------------------------
(***************************************************************************)
(* Continuous Assurance: runs that workers claim under a lease and resume  *)
(* from a durable cursor, and the findings they keep                       *)
(* (packages/postgres/src/assurance.ts, apps/worker/src/assurance-worker.ts)*)
(*                                                                         *)
(* A run goes through its detectors, and through the pages of what each    *)
(* finds wrong; the world it looks at changes meanwhile.  What is wrong is *)
(* a set of numbered targets, and the number is the order of the pages.    *)
(* The findings of a page are kept in one transaction, which holds the     *)
(* run's row, and the rows of the findings, until it commits.              *)
(***************************************************************************)
EXTENDS Integers, FiniteSets, FiniteSetsExt

CONSTANTS
  Workers, NoWorker,
  LastRun,       \* runs are numbered as they are submitted
  LastDetector,  \* the detectors of a run, in order
  Targets,       \* what may be wrong: numbers
  PageSize,      \* ASSURANCE_DETECTOR_SCAN_PAGE_SIZE
  MaxAttempts,   \* max_attempts
  Verdicts,      \* the statuses operators choose from
  MaxFaults,     \* bound: crashes, errors and leases lost
  MaxChanges,    \* bound: changes of what is wrong
  MaxVerdicts    \* bound: transitions by operators

Runs == 1 .. LastRun
Detectors == 1 .. LastDetector
Keys == Detectors \X Targets
Pages == 0 .. Cardinality(Targets)
Statuses == {"none", "OPEN", "ACKNOWLEDGED", "RESOLVED", "FALSE_POSITIVE"}

ASSUME CountAssumption == /\ LastRun \in Nat /\ LastDetector \in Nat
                          /\ PageSize \in Nat \ {0} /\ MaxAttempts \in Nat \ {0}
                          /\ MaxFaults \in Nat /\ MaxChanges \in Nat /\ MaxVerdicts \in Nat
ASSUME VerdictAssumption == Verdicts \subseteq Statuses \ {"none"}
ASSUME TargetAssumption == Targets \subseteq Nat /\ IsFiniteSet(Targets)
ASSUME WorkerAssumption == NoWorker \notin Workers

\* live: the lease has not expired; waits: the next attempt is not due yet.
Run == [status : {"none", "PENDING", "RUNNING", "COMPLETED", "FAILED", "CANCELLED"},
        attempts : 0 .. MaxAttempts, owner : Workers \cup {NoWorker},
        token : 0 .. MaxAttempts, live : BOOLEAN, waits : BOOLEAN,
        index : 1 .. LastDetector + 1, page : Pages]
NoRun == [status |-> "none", attempts |-> 0, owner |-> NoWorker, token |-> 0,
          live |-> FALSE, waits |-> FALSE, index |-> 1, page |-> 0]

\* left: the findings of the page still to write; seen: the status read before
\* one is written; wrote: the writes of the open transaction, and whether each
\* has an event.
Worker == [at : {"idle", "scan", "begin", "look", "write", "renew", "complete", "fail"},
           run : 0 .. LastRun, token : 0 .. MaxAttempts, index : 1 .. LastDetector + 1,
           page : Pages, left : SUBSET Targets, full : BOOLEAN, seen : Statuses,
           wrote : SUBSET [target : Targets, to : Statuses, told : BOOLEAN]]
Idle == [at |-> "idle", run |-> 0, token |-> 0, index |-> 1, page |-> 0, left |-> {},
         full |-> FALSE, seen |-> "none", wrote |-> {}]

\* Of a run that may still complete, since it was submitted: what was wrong all the time, the detectors
\* that had something put right, and what the run has kept.
NoHistory == [steady |-> {}, shifted |-> {}, kept |-> {}]
History == [steady : SUBSET Keys, shifted : SUBSET Detectors, kept : SUBSET Keys]

VARIABLES
  run,      \* assurance_runs
  finding,  \* assurance_findings: the status of each
  journal,  \* assurance_finding_events: the to_status of each finding's last
  worker,
  wrong,    \* what the detectors' queries would return
  history,  \* of the runs, for the properties
  spent     \* faults, changes and verdicts so far

rows == <<run, finding, journal>>
vars == <<rows, worker, wrong, history, spent>>

Init ==
  /\ run = [r \in Runs |-> NoRun]
  /\ finding = [k \in Keys |-> "none"]
  /\ journal = [k \in Keys |-> "none"]
  /\ worker = [w \in Workers |-> Idle]
  /\ wrong = [d \in Detectors |-> Targets]
  /\ history = [r \in Runs |-> NoHistory]
  /\ spent = [faults |-> 0, changes |-> 0, verdicts |-> 0]

-----------------------------------------------------------------------------
(* Rows and locks.                                                           *)

Holds(w) == worker[w].at \in {"look", "write"}

\* The transaction of a page holds the row of its run,
RunFree(r) == ~\E w \in Workers : Holds(w) /\ worker[w].run = r

\* and the rows of the findings it has read or written.
KeyOf(w, x) == <<worker[w].index, x>>

\* Mutation: a finding is read without a lock.
WrittenKeys(w) == {KeyOf(w, e.target) : e \in worker[w].wrote}

HeldKeys(w) ==
  IF ~Holds(w) THEN {}
  ELSE {KeyOf(w, e.target) : e \in worker[w].wrote} \cup
       (IF worker[w].at = "write" /\ worker[w].seen # "none"
        THEN {KeyOf(w, Min(worker[w].left))} ELSE {})

KeyFree(k, ws) == \A w \in ws : k \notin HeldKeys(w)

\* Mutation: whoever claimed the run may write to it.
OwnsRunning(w) == run[worker[w].run].status = "RUNNING"

Owns(w) ==
  LET r == run[worker[w].run]
  IN  r.status = "RUNNING" /\ r.owner = w /\ r.token = worker[w].token /\ r.live

Move(w, rec) == worker' = [worker EXCEPT ![w] = rec]

-----------------------------------------------------------------------------
(* Runs.                                                                     *)

\* The second submission of a key answers with the run of the first.
submitAssuranceRun(r) ==
  /\ run[r].status = "none"
  /\ \A q \in 1 .. r - 1 : run[q].status # "none"
  /\ run' = [run EXCEPT ![r] = [NoRun EXCEPT !.status = "PENDING"]]
  /\ history' = [history EXCEPT ![r].steady = {k \in Keys : k[2] \in wrong[k[1]]}]
  /\ UNCHANGED <<finding, journal, worker, wrong, spent>>

\* Mutation: a run that was claimed is not claimed again.
ClaimableOnce(r) == run[r].status = "PENDING" /\ run[r].attempts < MaxAttempts /\ ~run[r].waits

Claimable(r) ==
  /\ run[r].status \in {"PENDING", "RUNNING"}
  /\ run[r].attempts < MaxAttempts
  /\ ~run[r].waits
  /\ run[r].status = "PENDING" \/ ~run[r].live

\* The oldest that is not locked.
claimNextAssuranceRun(w) ==
  LET free == {r \in Runs : Claimable(r) /\ RunFree(r)}
      r == Min(free)
  IN  /\ worker[w].at = "idle" /\ free # {}
      /\ run' = [run EXCEPT ![r] = [@ EXCEPT !.status = "RUNNING", !.attempts = run[r].attempts + 1,
                                             !.owner = w, !.token = run[r].token + 1, !.live = TRUE]]
      /\ Move(w, [Idle EXCEPT !.at = IF run[r].index > LastDetector THEN "complete" ELSE "scan",
                              !.run = r, !.token = run[r].token + 1,
                              !.index = run[r].index, !.page = run[r].page])
      /\ UNCHANGED <<finding, journal, wrong, history, spent>>

cancelAssuranceRun(r) ==
  /\ run[r].status \in {"PENDING", "RUNNING"} /\ RunFree(r)
  /\ run' = [run EXCEPT ![r] = [@ EXCEPT !.status = "CANCELLED", !.owner = NoWorker,
                                         !.live = FALSE, !.waits = FALSE]]
  /\ history' = [history EXCEPT ![r] = NoHistory]
  /\ UNCHANGED <<finding, journal, worker, wrong, spent>>

-----------------------------------------------------------------------------
(* A page.                                                                   *)

Rank(x, xs) == Cardinality({y \in xs : y < x})
PageOf(xs, p) == {x \in xs : Rank(x, xs) \in p * PageSize .. (p + 1) * PageSize - 1}

\* A page without findings is not appended.
collectDetectorFindings(w) ==
  LET page == PageOf(wrong[worker[w].index], worker[w].page)
  IN  /\ worker[w].at = "scan"
      /\ Move(w, [worker[w] EXCEPT !.at = IF page = {} THEN "renew" ELSE "begin", !.left = page,
                                   !.full = Cardinality(page) = PageSize])
      /\ UNCHANGED <<rows, wrong, history, spent>>

\* The run's row is locked if the worker owns it; if not, the error sends it to
\* fail the run.
beginAppend(w) ==
  /\ worker[w].at = "begin"
  /\ RunFree(worker[w].run)
  /\ Move(w, IF Owns(w) THEN [worker[w] EXCEPT !.at = "look"]
             ELSE [worker[w] EXCEPT !.at = "fail", !.left = {}, !.full = FALSE])
  /\ UNCHANGED <<rows, wrong, history, spent>>

\* A finding that is there is locked.
lookFinding(w) ==
  LET k == KeyOf(w, Min(worker[w].left))
  IN  /\ worker[w].at = "look"
      /\ finding[k] # "none" => KeyFree(k, Workers \ {w})
      /\ Move(w, [worker[w] EXCEPT !.at = "write", !.seen = finding[k]])
      /\ UNCHANGED <<rows, wrong, history, spent>>

\* What becomes of a finding that is found again.
foundAgain(status) == IF status \in {"none", "RESOLVED"} THEN "OPEN" ELSE status

\* The writes become visible when the last of the page commits them.
writeFinding(w) ==
  LET x == Min(worker[w].left)
      k == KeyOf(w, x)
      to == foundAgain(finding[k])
      told == worker[w].seen = "none" \/ (worker[w].seen = "RESOLVED" /\ to = "OPEN")
      wrote == worker[w].wrote \cup {[target |-> x, to |-> to, told |-> told]}
      left == worker[w].left \ {x}
      last == left = {}
      Of(e) == KeyOf(w, e.target)
  IN  /\ worker[w].at = "write"
      /\ KeyFree(k, Workers \ {w})
      /\ Move(w, IF last THEN [worker[w] EXCEPT !.at = "renew", !.left = {}, !.seen = "none", !.wrote = {}]
                 ELSE [worker[w] EXCEPT !.at = "look", !.left = left, !.seen = "none", !.wrote = wrote])
      /\ IF last
         THEN /\ finding' = [q \in Keys |-> IF \E e \in wrote : Of(e) = q
                                            THEN (CHOOSE e \in wrote : Of(e) = q).to ELSE finding[q]]
              /\ journal' = [q \in Keys |-> IF \E e \in wrote : Of(e) = q /\ e.told
                                            THEN (CHOOSE e \in wrote : Of(e) = q).to ELSE journal[q]]
              /\ history' = [history EXCEPT ![worker[w].run].kept = @ \cup {Of(e) : e \in wrote}]
         ELSE UNCHANGED <<finding, journal, history>>
      /\ UNCHANGED <<run, wrong, spent>>

-----------------------------------------------------------------------------
(* The cursor, and the end of a run.                                         *)

\* Mutation: the cursor passes to the next detector after a page.
nextDetector(w) == <<worker[w].index + 1, 0>>

\* After a full page, the next; else the next detector.
nextCursor(w) ==
  IF worker[w].full THEN <<worker[w].index, worker[w].page + 1>> ELSE <<worker[w].index + 1, 0>>

renewAssuranceRunLease(w) ==
  LET r == worker[w].run
      next == nextCursor(w)
  IN  /\ worker[w].at = "renew" /\ RunFree(r)
      /\ IF Owns(w)
         THEN /\ run' = [run EXCEPT ![r] = [@ EXCEPT !.index = next[1], !.page = next[2]]]
              /\ Move(w, [worker[w] EXCEPT !.at = IF next[1] > LastDetector THEN "complete" ELSE "scan",
                                           !.index = next[1], !.page = next[2],
                                           !.full = FALSE])
         ELSE Move(w, Idle) /\ UNCHANGED run
      /\ UNCHANGED <<finding, journal, wrong, history, spent>>

completeAssuranceRun(w) ==
  LET r == worker[w].run
  IN  /\ worker[w].at = "complete" /\ RunFree(r)
      /\ run' = IF Owns(w) THEN [run EXCEPT ![r] = [@ EXCEPT !.status = "COMPLETED", !.owner = NoWorker,
                                                             !.live = FALSE]]
                ELSE run
      /\ Move(w, Idle)
      /\ UNCHANGED <<finding, journal, wrong, history, spent>>

failAssuranceRun(w) ==
  LET r == worker[w].run
      again == run[r].attempts < MaxAttempts
  IN  /\ worker[w].at = "fail" /\ RunFree(r)
      /\ run' = IF Owns(w)
                THEN [run EXCEPT ![r] = [@ EXCEPT !.status = IF again THEN "PENDING" ELSE "FAILED",
                                                  !.waits = again, !.owner = NoWorker, !.live = FALSE,
                                                  !.index = worker[w].index, !.page = worker[w].page]]
                ELSE run
      /\ history' = IF Owns(w) /\ ~again THEN [history EXCEPT ![r] = NoHistory] ELSE history
      /\ Move(w, Idle)
      /\ UNCHANGED <<finding, journal, wrong, spent>>

-----------------------------------------------------------------------------
(* Faults, time and the world.                                               *)

Fault == spent.faults < MaxFaults /\ spent' = [spent EXCEPT !.faults = spent.faults + 1]

\* An error of a step, which rolls its transaction back.  If it is the renewal
\* that fails the cursor has moved already.
StepFails(w, moved) ==
  LET next == IF moved THEN nextCursor(w) ELSE <<worker[w].index, worker[w].page>>
  IN  /\ worker[w].at \notin {"idle", "fail"}
      /\ moved => worker[w].at = "renew"
      /\ Fault
      /\ Move(w, [worker[w] EXCEPT !.at = "fail", !.left = {}, !.full = FALSE, !.seen = "none",
                                   !.wrote = {},
                                   !.index = next[1], !.page = next[2]])
      /\ UNCHANGED <<rows, wrong, history>>

Crash(w) ==
  /\ worker[w].at # "idle"
  /\ Fault
  /\ Move(w, Idle)
  /\ UNCHANGED <<rows, wrong, history>>

Abandoned(r) == ~\E w \in Workers : worker[w].run = r /\ worker[w].token = run[r].token

\* The lease of a run that somebody works on may lapse: it is only renewed
\* between pages.
LeaseLapses(r) ==
  /\ run[r].live
  /\ IF Abandoned(r) THEN UNCHANGED spent ELSE Fault
  /\ run' = [run EXCEPT ![r] = [@ EXCEPT !.live = FALSE]]
  /\ UNCHANGED <<finding, journal, worker, wrong, history>>

BackoffElapses(r) ==
  /\ run[r].waits
  /\ run' = [run EXCEPT ![r] = [@ EXCEPT !.waits = FALSE]]
  /\ UNCHANGED <<finding, journal, worker, wrong, history, spent>>

\* Something becomes wrong, or is put right.
WorldChanges(d, x) ==
  LET right == x \in wrong[d]
  IN  /\ spent.changes < MaxChanges
      /\ spent' = [spent EXCEPT !.changes = spent.changes + 1]
      /\ wrong' = [wrong EXCEPT ![d] = IF right THEN wrong[d] \ {x} ELSE wrong[d] \cup {x}]
      /\ history' = IF right
                    THEN [r \in Runs |-> IF run[r].status \notin {"PENDING", "RUNNING"} THEN history[r] ELSE
                           [history[r] EXCEPT !.steady = history[r].steady \ {<<d, x>>},
                                              !.shifted = history[r].shifted \cup {d}]]
                    ELSE history
      /\ UNCHANGED <<rows, worker>>

\* An operator's verdict, with its event.
transitionAssuranceFindingStatus(k, status) ==
  /\ spent.verdicts < MaxVerdicts
  /\ finding[k] \notin {"none", status} /\ KeyFree(k, Workers)
  /\ spent' = [spent EXCEPT !.verdicts = spent.verdicts + 1]
  /\ finding' = [finding EXCEPT ![k] = status]
  /\ journal' = [journal EXCEPT ![k] = status]
  /\ UNCHANGED <<run, worker, wrong, history>>

-----------------------------------------------------------------------------

WorkerStep(w) ==
  \/ claimNextAssuranceRun(w)
  \/ collectDetectorFindings(w) \/ beginAppend(w) \/ lookFinding(w) \/ writeFinding(w)
  \/ renewAssuranceRunLease(w) \/ completeAssuranceRun(w) \/ failAssuranceRun(w)

Next ==
  \/ \E w \in Workers : WorkerStep(w) \/ Crash(w) \/ \E moved \in BOOLEAN : StepFails(w, moved)
  \/ \E r \in Runs : \/ submitAssuranceRun(r) \/ cancelAssuranceRun(r)
                     \/ LeaseLapses(r) \/ BackoffElapses(r)
  \/ \E d \in Detectors, x \in Targets : WorldChanges(d, x)
  \/ \E k \in Keys, status \in Verdicts : transitionAssuranceFindingStatus(k, status)

Spec == Init /\ [][Next]_vars

\* Workers poll and go on; time passes.
Fairness ==
  /\ \A w \in Workers : WF_vars(WorkerStep(w))
  /\ \A r \in Runs : WF_vars(Abandoned(r) /\ LeaseLapses(r)) /\ WF_vars(BackoffElapses(r))

FairSpec == Spec /\ Fairness

-----------------------------------------------------------------------------
(* Properties.                                                               *)

TypeOK ==
  /\ run \in [Runs -> Run]
  /\ finding \in [Keys -> Statuses]
  /\ journal \in [Keys -> Statuses]
  /\ worker \in [Workers -> Worker]
  /\ wrong \in [Detectors -> SUBSET Targets]
  /\ history \in [Runs -> History]
  /\ spent \in [faults : 0 .. MaxFaults, changes : 0 .. MaxChanges, verdicts : 0 .. MaxVerdicts]

\* A run that completed has kept everything that was wrong from its submission
\* to its end, whatever crashed, failed or was taken over on the way.  It holds
\* for the detectors that had nothing put right meanwhile: a row that leaves
\* moves the rows behind it to earlier pages, over the cursor.
CompletedKeptAll ==
  \A r \in Runs : run[r].status = "COMPLETED" =>
    \A k \in history[r].steady \ history[r].kept : k[1] \in history[r].shifted

\* The last event of a finding tells its status, whoever raced: runs that find
\* it, and operators who judge it.
JournalTellsStatus == \A k \in Keys : journal[k] = finding[k]

\* The findings and their journal agree, and so do the runs that write them.
FindingsAgree == TypeOK /\ JournalTellsStatus

\* A worker that was taken over undoes nothing of its successor: only the one
\* with the run's latest lease keeps findings, though its lease may lapse before
\* it commits, and the durable cursor of a run never goes back.
LatestLeaseWrites ==
  [][/\ \A k \in Keys : finding'[k] # finding[k] /\ spent'.verdicts = spent.verdicts =>
          \E w \in Workers :
            worker[w].at = "write" /\ worker[w].token = run[worker[w].run].token
     /\ \A r \in Runs : \/ run'[r].index > run[r].index
                        \/ run'[r].index = run[r].index /\ run'[r].page >= run[r].page
    ]_<<run, finding>>

\* With fewer faults than attempts, every run that is submitted ends.
RunsEnd == \A r \in Runs : []<>(run[r].status \notin {"PENDING", "RUNNING"})
=============================================================================
