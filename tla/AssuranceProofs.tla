-------------------------- MODULE AssuranceProofs --------------------------
(***************************************************************************)
(* Proofs about the runs of AssuranceRun: that only the latest lease of a  *)
(* run writes, that the journal of a finding tells its status, and that a  *)
(* run that completes has kept all that was wrong the whole time.          *)
(*                                                                         *)
(* The last rests on what pages are: a page is the elements of a set whose *)
(* ranks lie in an interval, so a page that is not full is the last one.   *)
(***************************************************************************)
EXTENDS AssuranceRun, FiniteSetTheorems, WellFoundedInduction, TLAPS

-----------------------------------------------------------------------------
(* Ranks and pages.                                                          *)

\* A set of numbers that is not empty has a least one.
LEMMA MinIsLeast ==
  ASSUME NEW S \in SUBSET Nat, S # {}
  PROVE  /\ Min(S) \in S
         /\ \A y \in S : Min(S) <= y
<1>1. PICK x \in S : \A y \in S : ~(<<y, x>> \in OpToRel(<, Nat))
  BY NatLessThanWellFounded, WFMin, Zenon
<1>2. \A y \in S : x <= y
  <2> TAKE y \in S
  <2>1. x \in Nat /\ y \in Nat
    OBVIOUS
  <2>2. ~(y < x)
    BY <1>1, <2>1 DEF OpToRel
  <2> QED
    BY <2>1, <2>2
<1> QED
  BY <1>2 DEF Min

\* A rank counts, and grows with the set.
LEMMA RankType ==
  ASSUME NEW xs \in SUBSET Targets, NEW x \in Targets
  PROVE  /\ IsFiniteSet(xs) /\ Cardinality(xs) \in Nat
         /\ Cardinality(xs) <= Cardinality(Targets)
         /\ IsFiniteSet({y \in xs : y < x})
         /\ Rank(x, xs) \in Nat
<1>1. IsFiniteSet(xs) /\ Cardinality(xs) <= Cardinality(Targets)
  BY FS_Subset, TargetAssumption
<1>2. IsFiniteSet({y \in xs : y < x})
  <2>1. {y \in xs : y < x} \in SUBSET xs
    OBVIOUS
  <2> QED
    BY <1>1, <2>1, FS_Subset
<1> QED
  BY <1>1, <1>2, FS_CardinalityType DEF Rank

LEMMA RankGrows ==
  ASSUME NEW xs \in SUBSET Targets, NEW ys \in SUBSET Targets, xs \subseteq ys,
         NEW x \in Targets
  PROVE  Rank(x, xs) <= Rank(x, ys)
<1>1. {y \in xs : y < x} \in SUBSET {y \in ys : y < x}
  OBVIOUS
<1> QED
  BY <1>1, RankType, FS_Subset DEF Rank

\* Ranks are in the order of the elements,
LEMMA RankOrders ==
  ASSUME NEW xs \in SUBSET Targets, NEW x \in xs, NEW y \in xs, x < y
  PROVE  Rank(x, xs) < Rank(y, xs)
<1> DEFINE below == {z \in xs : z < x}
<1>1. IsFiniteSet(below) /\ x \notin below
  BY RankType, TargetAssumption
<1>2. Cardinality(below \cup {x}) = Cardinality(below) + 1
  BY <1>1, FS_AddElement
<1>3. below \cup {x} \in SUBSET {z \in xs : z < y}
  <2>1. \A z \in below : z \in Nat /\ z < y
    BY TargetAssumption
  <2> QED
    BY <2>1
<1>4. IsFiniteSet({z \in xs : z < y})
  BY RankType
<1>5. Cardinality(below \cup {x}) <= Cardinality({z \in xs : z < y})
  BY <1>3, <1>4, FS_Subset
<1>6. Rank(x, xs) \in Nat /\ Rank(y, xs) \in Nat
  BY RankType
<1> QED
  BY <1>2, <1>5, <1>6 DEF Rank

\* two elements never share one,
LEMMA RanksDiffer ==
  ASSUME NEW xs \in SUBSET Targets, NEW x \in xs, NEW y \in xs, Rank(x, xs) = Rank(y, xs)
  PROVE  x = y
<1>1. x \in Nat /\ y \in Nat /\ Rank(x, xs) \in Nat
  BY RankType, TargetAssumption
<1>2. ~(x < y) /\ ~(y < x)
  BY <1>1, RankOrders
<1> QED
  BY <1>1, <1>2

\* and they are smaller than the size of the set.
LEMMA RankBound ==
  ASSUME NEW xs \in SUBSET Targets, NEW x \in xs
  PROVE  Rank(x, xs) < Cardinality(xs)
<1> DEFINE below == {z \in xs : z < x}
<1>1. IsFiniteSet(below) /\ x \notin below
  BY RankType, TargetAssumption
<1>2. Cardinality(below \cup {x}) = Cardinality(below) + 1
  BY <1>1, FS_AddElement
<1>3. below \cup {x} \in SUBSET xs
  OBVIOUS
<1>4. Cardinality(below \cup {x}) <= Cardinality(xs)
  BY <1>3, RankType, FS_Subset
<1>5. Rank(x, xs) \in Nat /\ Cardinality(xs) \in Nat
  BY RankType
<1> QED
  BY <1>2, <1>4, <1>5 DEF Rank

\* So they are the numbers from 0 on, each the rank of an element.
LEMMA RanksAreAll ==
  ASSUME NEW xs \in SUBSET Targets, NEW i \in Nat, i < Cardinality(xs)
  PROVE  \E x \in xs : Rank(x, xs) = i
<1> DEFINE n == Cardinality(xs)
           f == [x \in xs |-> Rank(x, xs)]
<1>1. IsFiniteSet(xs) /\ n \in Nat
  BY FS_CardinalityType, FS_Subset, TargetAssumption
<1>2. f \in Injection(xs, 0 .. n - 1)
  <2>1. \A x \in xs : Rank(x, xs) \in 0 .. n - 1
    <3> TAKE x \in xs
    <3>1. Rank(x, xs) \in Nat /\ Rank(x, xs) < n
      BY RankType, RankBound
    <3> QED
      BY <3>1, <1>1
  <2>2. \A a, b \in xs : f[a] = f[b] => a = b
    BY RanksDiffer
  <2> QED
    BY <2>1, <2>2 DEF Injection, IsInjective
<1>3. IsFiniteSet(0 .. n - 1) /\ Cardinality(0 .. n - 1) = n
  <2> HIDE DEF n
  <2>1. 0 \in Int /\ n - 1 \in Int
    BY <1>1
  <2> QED
    BY <1>1, <2>1, FS_Interval
<1>4. f \in Surjection(xs, 0 .. n - 1)
  BY <1>2, <1>3, FS_Injection, Zenon
<1>5. i \in 0 .. n - 1
  BY <1>1
<1> QED
  BY <1>4, <1>5 DEF Surjection

\* The ranks of page p.
PageRanks(p) == p * PageSize .. (p + 1) * PageSize - 1

LEMMA PageRanksSize ==
  ASSUME NEW p \in Nat
  PROVE  /\ p * PageSize \in Nat /\ (p + 1) * PageSize \in Nat
         /\ (p + 1) * PageSize = p * PageSize + PageSize
         /\ p + 1 <= (p + 1) * PageSize
         /\ IsFiniteSet(PageRanks(p)) /\ Cardinality(PageRanks(p)) = PageSize
<1>1. PageSize \in Nat /\ PageSize >= 1
  BY CountAssumption
<1>2. /\ p * PageSize \in Nat /\ (p + 1) * PageSize \in Nat
      /\ (p + 1) * PageSize = p * PageSize + PageSize
  BY <1>1
<1>3. p * PageSize >= p
  BY <1>1
<1>4. IsFiniteSet(PageRanks(p)) /\ Cardinality(PageRanks(p)) = PageSize
  <2> DEFINE a == p * PageSize
             b == (p + 1) * PageSize - 1
  <2>1. a \in Int /\ b \in Int /\ b - a + 1 = PageSize /\ ~(a > b)
    BY <1>1, <1>2
  <2> HIDE DEF a, b
  <2>2. IsFiniteSet(a .. b) /\ Cardinality(a .. b) = PageSize
    BY <2>1, FS_Interval
  <2> QED
    BY <2>2 DEF PageRanks, a, b
<1> QED
  BY <1>1, <1>2, <1>3, <1>4

\* The ranks of a page's elements.
LEMMA PageIsInjected ==
  ASSUME NEW xs \in SUBSET Targets, NEW p \in Nat
  PROVE  /\ PageOf(xs, p) \in SUBSET xs
         /\ \A x \in xs : x \in PageOf(xs, p) <=> Rank(x, xs) \in PageRanks(p)
         /\ [x \in PageOf(xs, p) |-> Rank(x, xs)] \in Injection(PageOf(xs, p), PageRanks(p))
<1>1. /\ PageOf(xs, p) \in SUBSET xs
      /\ \A x \in xs : x \in PageOf(xs, p) <=> Rank(x, xs) \in PageRanks(p)
  BY DEF PageOf, PageRanks
<1>2. \A a, b \in xs : Rank(a, xs) = Rank(b, xs) => a = b
  BY RanksDiffer
<1> QED
  BY <1>1, <1>2 DEF Injection, IsInjective

\* A full page reaches its last rank, so there are as many targets.
LEMMA FullPageIsInTargets ==
  ASSUME NEW xs \in SUBSET Targets, NEW p \in Nat, Cardinality(PageOf(xs, p)) = PageSize
  PROVE  (p + 1) * PageSize <= Cardinality(Targets)
<1> DEFINE P == PageOf(xs, p)
           f == [x \in P |-> Rank(x, xs)]
           i == (p + 1) * PageSize - 1
<1>1. f \in Surjection(P, PageRanks(p))
  BY PageIsInjected, PageRanksSize, FS_Injection, Zenon
<1>2. i \in PageRanks(p)
  BY PageRanksSize, CountAssumption DEF PageRanks
<1>3. PICK x \in P : f[x] = i
  BY <1>1, <1>2 DEF Surjection
<1>4. x \in xs /\ Rank(x, xs) = i
  BY <1>3, PageIsInjected
<1>5. Rank(x, xs) < Cardinality(xs)
  BY <1>4, RankBound
<1>6. /\ Cardinality(xs) \in Nat /\ Cardinality(xs) <= Cardinality(Targets)
      /\ (p + 1) * PageSize \in Nat /\ Cardinality(Targets) \in Nat
  BY <1>4, RankType, PageRanksSize, FS_CardinalityType, TargetAssumption
<1> HIDE DEF P, f
<1> QED
  BY <1>4, <1>5, <1>6

\* A page before a rank that is taken is full: a page that is not is the last.
LEMMA PageBeforeIsFull ==
  ASSUME NEW xs \in SUBSET Targets, NEW p \in Nat, NEW x \in xs,
         Rank(x, xs) >= (p + 1) * PageSize
  PROVE  Cardinality(PageOf(xs, p)) = PageSize
<1> DEFINE P == PageOf(xs, p)
           f == [y \in P |-> Rank(y, xs)]
<1>1. f \in Injection(P, PageRanks(p))
  BY PageIsInjected
<1>2. \A i \in PageRanks(p) : \E y \in P : f[y] = i
  <2> TAKE i \in PageRanks(p)
  <2>1. Rank(x, xs) \in Nat /\ Rank(x, xs) < Cardinality(xs) /\ Cardinality(xs) \in Nat
    BY RankType, RankBound
  <2>2. i \in Nat /\ i < Cardinality(xs)
    <3> DEFINE a == p * PageSize
               b == (p + 1) * PageSize
    <3>1. a \in Nat /\ b \in Nat /\ i \in a .. b - 1 /\ Rank(x, xs) >= b
      BY PageRanksSize DEF PageRanks
    <3> HIDE DEF a, b
    <3> QED
      BY <2>1, <3>1
  <2>3. PICK y \in xs : Rank(y, xs) = i
    BY <2>2, RanksAreAll
  <2>4. y \in P
    BY <2>3, PageIsInjected
  <2> QED
    BY <2>3, <2>4
<1>3. f \in Surjection(P, PageRanks(p))
  BY <1>1, <1>2 DEF Surjection, Injection
<1> QED
  BY <1>1, <1>3, PageRanksSize, FS_Injection, Zenon

-----------------------------------------------------------------------------
(* Types, and what goes with each place a worker can be at.                  *)

InPage == {"begin", "look", "write"}

WorkerOK(k) ==
  /\ k \in Worker
  /\ k.at # "idle" => k.run \in Runs /\ k.token > 0
  /\ k.at \in InPage \cup {"scan", "renew"} => k.index <= LastDetector
  /\ k.at = "complete" => k.index > LastDetector
  /\ k.at \in InPage => k.left # {}
  /\ k.at \notin InPage => k.left = {}
  /\ k.full => (k.page + 1) * PageSize <= Cardinality(Targets)
  /\ k.at \notin {"look", "write"} => k.wrote = {}
  /\ k.at # "write" => k.seen = "none"

\* Every claim is an attempt, and takes the next token.
RunOK(s) ==
  /\ s \in Run
  /\ s.token = s.attempts
  /\ s.status = "none" => s = NoRun

TypeInv ==
  /\ TypeOK
  /\ \A w \in Workers : WorkerOK(worker[w])
  /\ \A r \in Runs : RunOK(run[r])

LEMMA ConstantTypes ==
  /\ LastRun \in Nat /\ LastDetector \in Nat /\ PageSize \in Nat \ {0} /\ MaxAttempts \in Nat \ {0}
  /\ Cardinality(Targets) \in Nat
  /\ \A x \in Targets : x \in Nat
BY CountAssumption, TargetAssumption, FS_CardinalityType

\* A record with the fields of a worker.
LEMMA WorkerFields ==
  ASSUME NEW k \in Worker
  PROVE  /\ k.at \in {"idle", "scan", "begin", "look", "write", "renew", "complete", "fail"}
         /\ k.run \in 0 .. LastRun /\ k.run \in Nat
         /\ k.token \in 0 .. MaxAttempts /\ k.token \in Nat
         /\ k.index \in 1 .. LastDetector + 1 /\ k.index \in Nat
         /\ k.page \in Pages /\ k.page \in Nat
         /\ k.left \in SUBSET Targets /\ k.full \in BOOLEAN /\ k.seen \in Statuses
         /\ k.wrote \in SUBSET [target : Targets, to : Statuses, told : BOOLEAN]
BY ConstantTypes DEF Worker, Pages

LEMMA RunFields ==
  ASSUME NEW s \in Run
  PROVE  /\ s.status \in {"none", "PENDING", "RUNNING", "COMPLETED", "FAILED", "CANCELLED"}
         /\ s.attempts \in 0 .. MaxAttempts /\ s.attempts \in Nat
         /\ s.owner \in Workers \cup {NoWorker}
         /\ s.token \in 0 .. MaxAttempts /\ s.token \in Nat
         /\ s.live \in BOOLEAN /\ s.waits \in BOOLEAN
         /\ s.index \in 1 .. LastDetector + 1 /\ s.index \in Nat
         /\ s.page \in Pages /\ s.page \in Nat
BY ConstantTypes DEF Run, Pages

LEMMA IdleIsWorker ==
  /\ WorkerOK(Idle)
  /\ Idle.at = "idle" /\ Idle.run = 0 /\ Idle.token = 0 /\ Idle.index = 1 /\ Idle.page = 0
  /\ Idle.left = {} /\ Idle.full = FALSE /\ Idle.seen = "none" /\ Idle.wrote = {}
BY ConstantTypes DEF WorkerOK, Worker, Idle, Pages, Statuses, InPage

\* j has the lease of k, and works at the same page.
SameLease(j, k) == j.run = k.run /\ j.token = k.token
SamePage(j, k) == SameLease(j, k) /\ j.index = k.index /\ j.page = k.page

\* One worker moves.
Only(w, k) ==
  /\ worker' \in [Workers -> Worker]
  /\ worker'[w] = k
  /\ \A v \in Workers : v # w => worker'[v] = worker[v]

LEMMA MoveFacts ==
  ASSUME TypeInv, NEW w \in Workers, NEW k, WorkerOK(k), Move(w, k)
  PROVE  Only(w, k) /\ \A v \in Workers : WorkerOK(worker'[v])
BY DEF TypeInv, TypeOK, Move, WorkerOK, Only

\* One row changes.
OnlyRow(r, s) ==
  /\ run' \in [Runs -> Run]
  /\ run'[r] = s
  /\ \A q \in Runs : q # r => run'[q] = run[q]

LEMMA RowFacts ==
  ASSUME TypeInv, NEW r \in Runs, NEW s, RunOK(s), run' = [run EXCEPT ![r] = s]
  PROVE  OnlyRow(r, s) /\ \A q \in Runs : RunOK(run'[q])
BY DEF TypeInv, TypeOK, RunOK, OnlyRow

\* A row that keeps its lease, and one that keeps its cursor.
SameToken(s, t) == s.token = t.token
SameCursor(s, t) == s.index = t.index /\ s.page = t.page

\* submitAssuranceRun adds a row at the first page of the first detector.
LEMMA SubmitFacts ==
  ASSUME TypeInv, NEW r \in Runs, submitAssuranceRun(r)
  PROVE  /\ TypeInv'
         /\ run[r] = NoRun /\ OnlyRow(r, run'[r])
         /\ SameToken(run'[r], run[r]) /\ SameCursor(run'[r], run[r])
         /\ run'[r].token = 0 /\ run'[r].index = 1 /\ run'[r].page = 0 /\ run'[r].status = "PENDING"
         /\ history'[r] = [history[r] EXCEPT !.steady = {k \in Keys : k[2] \in wrong[k[1]]}]
         /\ \A q \in Runs : q # r => history'[q] = history[q]
<1>1. run[r] = NoRun
  BY DEF TypeInv, RunOK, submitAssuranceRun
<1>2. PICK s : s = [NoRun EXCEPT !.status = "PENDING"]
  OBVIOUS
<1>3. RunOK(s) /\ s.token = 0 /\ s.index = 1 /\ s.page = 0 /\ s.status = "PENDING"
  <2>1. 0 \in 0 .. MaxAttempts /\ 1 \in 1 .. LastDetector + 1 /\ 0 \in Pages
    BY ConstantTypes DEF Pages
  <2>2. s = [status |-> "PENDING", attempts |-> 0, owner |-> NoWorker, token |-> 0,
             live |-> FALSE, waits |-> FALSE, index |-> 1, page |-> 0]
    BY <1>2 DEF NoRun
  <2> QED
    BY <2>1, <2>2 DEF RunOK, Run
<1>4. OnlyRow(r, s) /\ \A q \in Runs : RunOK(run'[q])
  BY <1>2, <1>3, RowFacts DEF submitAssuranceRun
<1>5. history' \in [Runs -> History]
  <2>1. [history[r] EXCEPT !.steady = {k \in Keys : k[2] \in wrong[k[1]]}] \in History
    BY DEF TypeInv, TypeOK, History
  <2> QED
    BY <2>1 DEF submitAssuranceRun, TypeInv, TypeOK
<1>6. TypeInv'
  BY <1>4, <1>5 DEF TypeInv, TypeOK, OnlyRow, submitAssuranceRun
<1>7. /\ history'[r] = [history[r] EXCEPT !.steady = {k \in Keys : k[2] \in wrong[k[1]]}]
      /\ \A q \in Runs : q # r => history'[q] = history[q]
  BY DEF submitAssuranceRun, TypeInv, TypeOK
<1>8. NoRun.token = 0 /\ NoRun.index = 1 /\ NoRun.page = 0
  BY DEF NoRun
<1> QED
  BY <1>1, <1>3, <1>4, <1>6, <1>7, <1>8 DEF OnlyRow, SameToken, SameCursor

\* claimNextAssuranceRun gives the row the next token, and the worker the token
\* and the cursor of the row.
LEMMA ClaimFacts ==
  ASSUME TypeInv, NEW w \in Workers, claimNextAssuranceRun(w)
  PROVE  /\ TypeInv'
         /\ worker[w].at = "idle" /\ Only(w, worker'[w])
         /\ worker'[w].at \in {"complete", "scan"} /\ worker'[w].run \in Runs
         /\ LET r == worker'[w].run
            IN  /\ run[r].status \in {"PENDING", "RUNNING"} /\ RunFree(r)
                /\ OnlyRow(r, run'[r]) /\ SameCursor(run'[r], run[r])
                /\ run'[r].status = "RUNNING" /\ run'[r].token = run[r].token + 1
                /\ worker'[w].token = run'[r].token
                /\ worker'[w].index = run'[r].index /\ worker'[w].page = run'[r].page
<1> DEFINE free == {r \in Runs : Claimable(r) /\ RunFree(r)}
<1>1. PICK r : r = Min(free)
  OBVIOUS
<1>2. r \in Runs /\ Claimable(r) /\ RunFree(r)
  <2>1. free \in SUBSET Nat /\ free # {}
    BY ConstantTypes DEF claimNextAssuranceRun, Runs
  <2>2. r \in free
    BY <2>1, <1>1, MinIsLeast
  <2> QED
    BY <2>2
<1>3. PICK s : s = run[r]
  OBVIOUS
<1>4. RunOK(s) /\ s.status \in {"PENDING", "RUNNING"} /\ s.attempts < MaxAttempts
  BY <1>2, <1>3 DEF TypeInv, Claimable
<1>5. PICK t : t = [s EXCEPT !.status = "RUNNING", !.attempts = s.attempts + 1, !.owner = w,
                             !.token = s.token + 1, !.live = TRUE]
  OBVIOUS
<1>6. RunOK(t) /\ t.status = "RUNNING" /\ t.token = s.token + 1 /\ SameCursor(t, s)
  <2>1. s \in Run /\ s.token = s.attempts /\ s.attempts + 1 \in 0 .. MaxAttempts
    BY <1>4, RunFields, ConstantTypes DEF RunOK
  <2> QED
    BY <2>1, <1>5 DEF RunOK, Run, SameCursor
<1>7. run' = [run EXCEPT ![r] = t]
  BY <1>1, <1>3, <1>5 DEF claimNextAssuranceRun
<1>8. OnlyRow(r, t) /\ \A q \in Runs : RunOK(run'[q])
  BY <1>2, <1>6, <1>7, RowFacts
<1>9. PICK at : at = IF s.index > LastDetector THEN "complete" ELSE "scan"
  OBVIOUS
<1>10. PICK k : k = [Idle EXCEPT !.at = at, !.run = r, !.token = s.token + 1,
                                 !.index = s.index, !.page = s.page]
  OBVIOUS
<1>11. /\ WorkerOK(k) /\ k.at = at /\ k.run = r /\ k.token = s.token + 1
       /\ k.index = s.index /\ k.page = s.page
  <2>1. s.token + 1 \in 0 .. MaxAttempts /\ s.token + 1 > 0
    BY <1>4, RunFields, ConstantTypes DEF RunOK
  <2>2. s.index \in 1 .. LastDetector + 1 /\ s.page \in Pages /\ s.index \in Nat
    BY <1>4, RunFields DEF RunOK
  <2>3. r \in 0 .. LastRun
    BY <1>2, ConstantTypes DEF Runs
  <2>4. at \in {"complete", "scan"} /\ (at = "complete" <=> s.index > LastDetector)
    BY <1>9
  <2>5. k \in Worker
    BY <1>10, <2>1, <2>2, <2>3, <2>4, IdleIsWorker DEF WorkerOK, Worker
  <2>6. /\ k.at = at /\ k.run = r /\ k.token = s.token + 1 /\ k.index = s.index /\ k.page = s.page
        /\ k.left = {} /\ k.full = FALSE /\ k.seen = "none" /\ k.wrote = {}
    BY <1>10, IdleIsWorker DEF Idle
  <2> QED
    BY <2>1, <2>2, <2>4, <2>5, <2>6, <1>2, ConstantTypes DEF WorkerOK, InPage
<1>12. Move(w, k)
  BY <1>1, <1>3, <1>9, <1>10 DEF claimNextAssuranceRun
<1>13. Only(w, k) /\ \A v \in Workers : WorkerOK(worker'[v])
  BY <1>11, <1>12, MoveFacts, SMTT(30)
<1>14. TypeInv'
  BY <1>8, <1>13 DEF TypeInv, TypeOK, OnlyRow, Only, claimNextAssuranceRun
<1>15. at \in {"complete", "scan"}
  BY <1>9
<1>16. worker'[w] = k /\ run'[r] = t
  BY <1>8, <1>13 DEF OnlyRow, Only
<1>17. worker[w].at = "idle"
  BY DEF claimNextAssuranceRun
<1> QED
  BY <1>2, <1>3, <1>4, <1>6, <1>8, <1>11, <1>13, <1>14, <1>15, <1>16, <1>17 DEF SameCursor

\* cancelAssuranceRun ends a run that nobody has locked, and keeps its lease's
\* token.
LEMMA CancelFacts ==
  ASSUME TypeInv, NEW r \in Runs, cancelAssuranceRun(r)
  PROVE  /\ TypeInv'
         /\ RunFree(r)
         /\ OnlyRow(r, run'[r]) /\ SameToken(run'[r], run[r]) /\ SameCursor(run'[r], run[r])
         /\ run[r].status \in {"PENDING", "RUNNING"} /\ run'[r].status = "CANCELLED"
         /\ \A q \in Runs : q # r => history'[q] = history[q]
<1>1. PICK t : t = [run[r] EXCEPT !.status = "CANCELLED", !.owner = NoWorker, !.live = FALSE,
                                  !.waits = FALSE]
  OBVIOUS
<1>2. RunOK(run[r]) /\ run[r].status \in {"PENDING", "RUNNING"} /\ RunFree(r)
  BY DEF TypeInv, cancelAssuranceRun
<1>3. PICK s : s = run[r]
  OBVIOUS
<1>4. RunOK(t) /\ SameToken(t, s) /\ SameCursor(t, s) /\ t.status = "CANCELLED"
  BY <1>1, <1>2, <1>3 DEF RunOK, Run, SameToken, SameCursor
<1>5. run' = [run EXCEPT ![r] = t]
  BY <1>1 DEF cancelAssuranceRun
<1>6. OnlyRow(r, t) /\ \A q \in Runs : RunOK(run'[q])
  BY <1>4, <1>5, RowFacts
<1>7. NoHistory \in History
  BY DEF NoHistory, History
<1>8. history' \in [Runs -> History] /\ \A q \in Runs : q # r => history'[q] = history[q]
  BY <1>7 DEF cancelAssuranceRun, TypeInv, TypeOK
<1>9. TypeInv'
  BY <1>6, <1>8 DEF TypeInv, TypeOK, OnlyRow, cancelAssuranceRun
<1> QED
  BY <1>2, <1>3, <1>4, <1>6, <1>8, <1>9 DEF OnlyRow

\* A worker that is not idle has a run, and its detector while it works.
LEMMA WorkerOf ==
  ASSUME TypeInv, NEW w \in Workers
  PROVE  /\ WorkerOK(worker[w]) /\ worker[w] \in Worker
         /\ worker[w].at # "idle" => worker[w].run \in Runs /\ RunOK(run[worker[w].run])
         /\ worker[w].at \in InPage \cup {"scan", "renew"} => worker[w].index \in Detectors
<1>1. WorkerOK(worker[w]) /\ worker[w] \in Worker
  BY DEF TypeInv, WorkerOK
<1>2. worker[w].index \in 1 .. LastDetector + 1
  BY <1>1, WorkerFields
<1> QED
  BY <1>1, <1>2, ConstantTypes DEF TypeInv, WorkerOK, Detectors

\* collectDetectorFindings takes the page of its cursor.
LEMMA ScanFacts ==
  ASSUME TypeInv, NEW w \in Workers, collectDetectorFindings(w)
  PROVE  /\ TypeInv'
         /\ worker[w].at = "scan" /\ Only(w, worker'[w])
         /\ worker'[w].at \in {"begin", "renew"} /\ SamePage(worker'[w], worker[w])
         /\ worker'[w].left = PageOf(wrong[worker[w].index], worker[w].page)
         /\ worker'[w].full <=>
              Cardinality(PageOf(wrong[worker[w].index], worker[w].page)) = PageSize
<1>1. PICK k : k = worker[w]
  OBVIOUS
<1>2. WorkerOK(k) /\ k \in Worker /\ k.at = "scan" /\ k.index \in Detectors
  BY <1>1, WorkerOf DEF collectDetectorFindings
<1>3. PICK xs : xs = wrong[k.index]
  OBVIOUS
<1>4. xs \in SUBSET Targets
  BY <1>2, <1>3 DEF TypeInv, TypeOK
<1>5. PICK page : page = PageOf(xs, k.page)
  OBVIOUS
<1>6. page \in SUBSET Targets
  BY <1>4, <1>5 DEF PageOf
<1>7. PICK full \in BOOLEAN : full <=> Cardinality(page) = PageSize
  OBVIOUS
<1>8. full => (k.page + 1) * PageSize <= Cardinality(Targets)
  BY <1>2, <1>4, <1>5, <1>7, WorkerFields, FullPageIsInTargets
<1>9. PICK at : at = IF page = {} THEN "renew" ELSE "begin"
  OBVIOUS
<1>10. PICK t : t = [k EXCEPT !.at = at, !.left = page, !.full = full]
  OBVIOUS
<1>11. WorkerOK(t) /\ SamePage(t, k) /\ t.at = at /\ t.left = page /\ t.full = full
  BY <1>2, <1>6, <1>8, <1>9, <1>10 DEF WorkerOK, Worker, InPage, SamePage, SameLease
<1>12. full = (Cardinality(page) = PageSize)
  BY <1>7
<1>13. Move(w, t)
  BY <1>1, <1>3, <1>5, <1>9, <1>10, <1>12 DEF collectDetectorFindings
<1>14. Only(w, t) /\ \A v \in Workers : WorkerOK(worker'[v])
  BY <1>11, <1>13, MoveFacts
<1>15. worker'[w] = t
  BY <1>14 DEF Only
<1>16. TypeInv'
  BY <1>14 DEF TypeInv, TypeOK, Only, collectDetectorFindings, rows
<1> QED
  BY <1>1, <1>2, <1>3, <1>5, <1>7, <1>9, <1>11, <1>14, <1>15, <1>16

\* beginAppend locks the row of a worker that owns its run.
LEMMA BeginFacts ==
  ASSUME TypeInv, NEW w \in Workers, beginAppend(w)
  PROVE  /\ TypeInv'
         /\ worker[w].at = "begin" /\ RunFree(worker[w].run) /\ Only(w, worker'[w])
         /\ SamePage(worker'[w], worker[w]) /\ worker'[w].wrote = {} /\ worker'[w].seen = "none"
         /\ \/ /\ Owns(w) /\ worker'[w].at = "look"
               /\ worker'[w].left = worker[w].left /\ worker'[w].full = worker[w].full
            \/ worker'[w].at = "fail"
<1>1. PICK k : k = worker[w]
  OBVIOUS
<1>2. WorkerOK(k) /\ k \in Worker /\ k.at = "begin"
  BY <1>1, WorkerOf DEF beginAppend
<1>3. CASE Owns(w)
  <2>1. PICK t : t = [k EXCEPT !.at = "look"]
    OBVIOUS
  <2>2. /\ WorkerOK(t) /\ SamePage(t, k) /\ t.at = "look" /\ t.left = k.left /\ t.full = k.full
        /\ t.wrote = {} /\ t.seen = "none"
    BY <1>2, <2>1 DEF WorkerOK, Worker, InPage, SamePage, SameLease
  <2>3. Move(w, t)
    BY <1>1, <1>3, <2>1 DEF beginAppend
  <2>4. Only(w, t) /\ \A v \in Workers : WorkerOK(worker'[v])
    BY <2>2, <2>3, MoveFacts
  <2>5. TypeInv'
    BY <2>4 DEF TypeInv, TypeOK, Only, beginAppend, rows
  <2> QED
    BY <1>1, <1>2, <1>3, <2>2, <2>4, <2>5 DEF Only, beginAppend
<1>4. CASE ~Owns(w)
  <2>1. PICK t : t = [k EXCEPT !.at = "fail", !.left = {}, !.full = FALSE]
    OBVIOUS
  <2>2. /\ WorkerOK(t) /\ SamePage(t, k) /\ t.at = "fail" /\ t.wrote = {} /\ t.seen = "none"
    BY <1>2, <2>1 DEF WorkerOK, Worker, InPage, SamePage, SameLease
  <2>3. Move(w, t)
    BY <1>1, <1>4, <2>1 DEF beginAppend
  <2>4. Only(w, t) /\ \A v \in Workers : WorkerOK(worker'[v])
    BY <2>2, <2>3, MoveFacts
  <2>5. TypeInv'
    BY <2>4 DEF TypeInv, TypeOK, Only, beginAppend, rows
  <2> QED
    BY <1>1, <1>2, <2>2, <2>4, <2>5 DEF Only, beginAppend
<1> QED
  BY <1>3, <1>4

\* lookFinding reads the status of the least finding of the page, and locks it if
\* it is there.
LEMMA LookFacts ==
  ASSUME TypeInv, NEW w \in Workers, lookFinding(w)
  PROVE  /\ TypeInv'
         /\ worker[w].at = "look" /\ Only(w, worker'[w])
         /\ worker'[w].at = "write" /\ SamePage(worker'[w], worker[w])
         /\ worker'[w].left = worker[w].left /\ worker'[w].full = worker[w].full
         /\ worker'[w].wrote = worker[w].wrote
         /\ Min(worker[w].left) \in worker[w].left
         /\ KeyOf(w, Min(worker[w].left)) \in Keys
         /\ worker'[w].seen = finding[KeyOf(w, Min(worker[w].left))]
         /\ worker'[w].seen # "none" => KeyFree(KeyOf(w, Min(worker[w].left)), Workers \ {w})
<1>1. PICK k : k = worker[w]
  OBVIOUS
<1>2. WorkerOK(k) /\ k \in Worker /\ k.at = "look" /\ k.index \in Detectors /\ k.left # {}
  BY <1>1, WorkerOf DEF lookFinding, InPage, WorkerOK
<1>3. k.left \in SUBSET Targets
  BY <1>2, WorkerFields
<1>4. Min(k.left) \in k.left
  BY <1>2, <1>3, MinIsLeast, TargetAssumption
<1>5. KeyOf(w, Min(k.left)) \in Keys
  BY <1>1, <1>2, <1>3, <1>4 DEF KeyOf, Keys
<1>6. PICK seen : seen = finding[KeyOf(w, Min(k.left))]
  OBVIOUS
<1>7. seen \in Statuses
  BY <1>5, <1>6 DEF TypeInv, TypeOK
<1>8. PICK t : t = [k EXCEPT !.at = "write", !.seen = seen]
  OBVIOUS
<1>9. /\ WorkerOK(t) /\ SamePage(t, k) /\ t.at = "write" /\ t.left = k.left /\ t.full = k.full
      /\ t.wrote = k.wrote /\ t.seen = seen
  BY <1>2, <1>7, <1>8 DEF WorkerOK, Worker, InPage, SamePage, SameLease
<1>10. Move(w, t)
  BY <1>1, <1>6, <1>8 DEF lookFinding
<1>11. Only(w, t) /\ \A v \in Workers : WorkerOK(worker'[v])
  BY <1>9, <1>10, MoveFacts
<1>12. TypeInv'
  BY <1>11 DEF TypeInv, TypeOK, Only, lookFinding, rows
<1>13. seen # "none" => KeyFree(KeyOf(w, Min(k.left)), Workers \ {w})
  BY <1>1, <1>6 DEF lookFinding
<1>14. worker'[w] = t
  BY <1>11 DEF Only
<1> QED
  BY <1>1, <1>2, <1>4, <1>5, <1>6, <1>9, <1>11, <1>12, <1>13, <1>14

\* What writeFinding writes.
NewWrite(w) ==
  LET x == Min(worker[w].left)
      to == foundAgain(finding[KeyOf(w, x)])
  IN  [target |-> x, to |-> to,
       told |-> worker[w].seen = "none" \/ (worker[w].seen = "RESOLVED" /\ to = "OPEN")]

\* All that the transaction has written then.
AllWrites(w) == worker[w].wrote \cup {NewWrite(w)}

\* The key of a write, and what the commit makes of a column of the findings.
Of(w, e) == KeyOf(w, e.target)
Committed(w, q) == (CHOOSE e \in AllWrites(w) : Of(w, e) = q).to

LEMMA NewWriteType ==
  ASSUME TypeInv, NEW w \in Workers, worker[w].at = "write"
  PROVE  /\ Min(worker[w].left) \in worker[w].left
         /\ worker[w].index \in Detectors
         /\ KeyOf(w, Min(worker[w].left)) \in Keys
         /\ NewWrite(w).target = Min(worker[w].left)
         /\ NewWrite(w).to = foundAgain(finding[KeyOf(w, Min(worker[w].left))])
         /\ NewWrite(w).told <=> \/ worker[w].seen = "none"
                                 \/ worker[w].seen = "RESOLVED" /\ NewWrite(w).to = "OPEN"
         /\ AllWrites(w) \in SUBSET [target : Targets, to : Statuses, told : BOOLEAN]
         /\ \A e \in AllWrites(w) : Of(w, e) \in Keys /\ e.to \in Statuses
<1>1. PICK k : k = worker[w]
  OBVIOUS
<1>2. WorkerOK(k) /\ k \in Worker /\ k.index \in Detectors /\ k.left # {}
  BY <1>1, WorkerOf DEF InPage, WorkerOK
<1>3. /\ k.left \in SUBSET Targets
      /\ k.wrote \in SUBSET [target : Targets, to : Statuses, told : BOOLEAN]
  BY <1>2, WorkerFields
<1>4. PICK x : x = Min(k.left)
  OBVIOUS
<1>5. x \in k.left
  BY <1>2, <1>3, <1>4, MinIsLeast, TargetAssumption
<1>6. KeyOf(w, x) \in Keys
  BY <1>1, <1>2, <1>3, <1>5 DEF KeyOf, Keys
<1>7. PICK to : to = foundAgain(finding[KeyOf(w, x)])
  OBVIOUS
<1>8. to \in Statuses
  BY <1>6, <1>7 DEF TypeInv, TypeOK, foundAgain, Statuses
<1>9. PICK told \in BOOLEAN : told = (k.seen = "none" \/ (k.seen = "RESOLVED" /\ to = "OPEN"))
  OBVIOUS
<1>10. NewWrite(w) = [target |-> x, to |-> to, told |-> told]
  BY <1>1, <1>4, <1>7, <1>9 DEF NewWrite
<1>11. NewWrite(w) \in [target : Targets, to : Statuses, told : BOOLEAN]
  BY <1>3, <1>5, <1>8, <1>10
<1>12. /\ NewWrite(w).target = x /\ NewWrite(w).to = to
       /\ NewWrite(w).told <=> k.seen = "none" \/ (k.seen = "RESOLVED" /\ to = "OPEN")
  <2>1. NewWrite(w).target = x /\ NewWrite(w).to = to /\ NewWrite(w).told = told
    BY <1>10
  <2>2. told <=> k.seen = "none" \/ (k.seen = "RESOLVED" /\ to = "OPEN")
    BY <1>9, Zenon
  <2> QED
    BY <2>1, <2>2
<1>13. AllWrites(w) \in SUBSET [target : Targets, to : Statuses, told : BOOLEAN]
  BY <1>1, <1>3, <1>11 DEF AllWrites
<1>14. \A e \in AllWrites(w) : Of(w, e) \in Keys /\ e.to \in Statuses
  BY <1>1, <1>2, <1>13 DEF Of, KeyOf, Keys
<1> QED
  BY <1>1, <1>2, <1>4, <1>5, <1>6, <1>7, <1>12, <1>13, <1>14

\* writeFinding writes one more, and commits with the last.
LEMMA WriteFacts ==
  ASSUME TypeInv, NEW w \in Workers, writeFinding(w)
  PROVE  /\ TypeInv'
         /\ worker[w].at = "write" /\ Only(w, worker'[w])
         /\ KeyFree(KeyOf(w, Min(worker[w].left)), Workers \ {w})
         /\ SamePage(worker'[w], worker[w]) /\ worker'[w].full = worker[w].full
         /\ worker'[w].seen = "none"
         /\ worker'[w].left = worker[w].left \ {Min(worker[w].left)}
         /\ \/ /\ worker'[w].at = "look" /\ worker'[w].wrote = AllWrites(w)
               /\ UNCHANGED <<finding, journal, history>>
            \/ /\ worker'[w].at = "renew" /\ worker'[w].wrote = {}
               /\ \A q \in Keys :
                    /\ finding'[q] = IF \E e \in AllWrites(w) : Of(w, e) = q
                                     THEN Committed(w, q) ELSE finding[q]
                    /\ journal'[q] = IF \E e \in AllWrites(w) : Of(w, e) = q /\ e.told
                                     THEN Committed(w, q) ELSE journal[q]
               /\ history'[worker[w].run].steady = history[worker[w].run].steady
               /\ history'[worker[w].run].shifted = history[worker[w].run].shifted
               /\ history'[worker[w].run].kept =
                    history[worker[w].run].kept \cup {Of(w, e) : e \in AllWrites(w)}
               /\ \A q \in Runs : q # worker[w].run => history'[q] = history[q]
<1>1. PICK k : k = worker[w]
  OBVIOUS
<1>2. /\ WorkerOK(k) /\ k \in Worker /\ k.at = "write" /\ k.index \in Detectors /\ k.left # {}
      /\ k.run \in Runs
  BY <1>1, WorkerOf DEF writeFinding, InPage, WorkerOK
<1>3. k.left \in SUBSET Targets
  BY <1>2, WorkerFields
<1>4. PICK left : left = k.left \ {Min(k.left)}
  OBVIOUS
<1>5. PICK wrote : wrote = AllWrites(w)
  OBVIOUS
<1>6. wrote \in SUBSET [target : Targets, to : Statuses, told : BOOLEAN]
  BY <1>1, <1>2, <1>5, NewWriteType
<1>7. CASE left # {}
  <2>1. PICK t : t = [k EXCEPT !.at = "look", !.left = left, !.seen = "none", !.wrote = wrote]
    OBVIOUS
  <2>2. /\ WorkerOK(t) /\ SamePage(t, k) /\ t.at = "look" /\ t.left = left /\ t.full = k.full
        /\ t.wrote = wrote /\ t.seen = "none"
    BY <1>2, <1>3, <1>4, <1>6, <1>7, <2>1 DEF WorkerOK, Worker, InPage, SamePage, SameLease, Statuses
  <2>3. Move(w, t) /\ UNCHANGED <<finding, journal, history>>
    BY <1>1, <1>4, <1>5, <1>7, <2>1 DEF writeFinding, AllWrites, NewWrite
  <2>4. Only(w, t) /\ \A v \in Workers : WorkerOK(worker'[v])
    BY <2>2, <2>3, MoveFacts
  <2>5. TypeInv'
    BY <2>3, <2>4 DEF TypeInv, TypeOK, Only, writeFinding
  <2>6. worker'[w] = t
    BY <2>4 DEF Only
  <2>7. KeyFree(KeyOf(w, Min(k.left)), Workers \ {w})
    BY <1>1 DEF writeFinding
  <2> QED
    BY <1>1, <1>2, <1>4, <1>5, <2>2, <2>3, <2>4, <2>5, <2>6, <2>7
<1>8. CASE left = {}
  <2>1. PICK t : t = [k EXCEPT !.at = "renew", !.left = {}, !.seen = "none", !.wrote = {}]
    OBVIOUS
  <2>2. /\ WorkerOK(t) /\ SamePage(t, k) /\ t.at = "renew" /\ t.left = left /\ t.full = k.full
        /\ t.wrote = {} /\ t.seen = "none"
    BY <1>2, <1>8, <2>1 DEF WorkerOK, Worker, InPage, SamePage, SameLease, Statuses
  <2>3. Move(w, t)
    BY <1>1, <1>4, <1>8, <2>1 DEF writeFinding
  <2>4. /\ finding' = [q \in Keys |-> IF \E e \in wrote : Of(w, e) = q
                                      THEN (CHOOSE e \in wrote : Of(w, e) = q).to ELSE finding[q]]
        /\ journal' = [q \in Keys |-> IF \E e \in wrote : Of(w, e) = q /\ e.told
                                      THEN (CHOOSE e \in wrote : Of(w, e) = q).to ELSE journal[q]]
        /\ history' = [history EXCEPT ![k.run].kept = @ \cup {Of(w, e) : e \in wrote}]
    <3> DEFINE to == foundAgain(finding[KeyOf(w, Min(k.left))])
               told == k.seen = "none" \/ (k.seen = "RESOLVED" /\ to = "OPEN")
    <3>1. wrote = k.wrote \cup {[target |-> Min(k.left), to |-> to, told |-> told]}
      BY <1>1, <1>5, Zenon DEF AllWrites, NewWrite
    <3>2. k.left \ {Min(k.left)} = {}
      BY <1>4, <1>8
    <3>3. finding' = [q \in Keys |-> IF \E e \in wrote : Of(w, e) = q
                                      THEN (CHOOSE e \in wrote : Of(w, e) = q).to ELSE finding[q]]
      BY <1>1, <3>1, <3>2 DEF writeFinding, Of
    <3>4. journal' = [q \in Keys |-> IF \E e \in wrote : Of(w, e) = q /\ e.told
                                      THEN (CHOOSE e \in wrote : Of(w, e) = q).to ELSE journal[q]]
      BY <1>1, <3>1, <3>2 DEF writeFinding, Of
    <3>5. history' = [history EXCEPT ![k.run].kept = @ \cup {Of(w, e) : e \in wrote}]
      BY <1>1, <3>1, <3>2, Zenon DEF writeFinding, Of
    <3> QED BY <3>3, <3>4, <3>5
  <2>5. Only(w, t) /\ \A v \in Workers : WorkerOK(worker'[v])
    BY <2>2, <2>3, MoveFacts
  <2>6. \A e \in wrote : Of(w, e) \in Keys /\ e.to \in Statuses
    BY <1>1, <1>2, <1>5, NewWriteType
  <2>7. \A q \in Keys : (\E e \in wrote : Of(w, e) = q) =>
          (CHOOSE e \in wrote : Of(w, e) = q).to \in Statuses
    BY <2>6
  <2>8. finding' \in [Keys -> Statuses] /\ journal' \in [Keys -> Statuses]
    BY <2>4, <2>7 DEF TypeInv, TypeOK
  <2>9. PICK h : h = history[k.run]
    OBVIOUS
  <2>10. PICK g : g = [h EXCEPT !.kept = h.kept \cup {Of(w, e) : e \in wrote}]
    OBVIOUS
  <2>11. h \in History
    BY <1>2, <2>9 DEF TypeInv, TypeOK
  <2>12. /\ g \in History /\ g.steady = h.steady /\ g.shifted = h.shifted
         /\ g.kept = h.kept \cup {Of(w, e) : e \in wrote}
    BY <2>6, <2>10, <2>11 DEF History
  <2>13. /\ history' \in [Runs -> History] /\ history'[k.run] = g
         /\ \A q \in Runs : q # k.run => history'[q] = history[q]
    BY <1>2, <2>4, <2>9, <2>10, <2>12 DEF TypeInv, TypeOK
  <2>14. TypeInv'
    BY <2>5, <2>8, <2>13 DEF TypeInv, TypeOK, Only, writeFinding
  <2>15. \A q \in Keys :
           /\ finding'[q] = IF \E e \in AllWrites(w) : Of(w, e) = q
                            THEN Committed(w, q) ELSE finding[q]
           /\ journal'[q] = IF \E e \in AllWrites(w) : Of(w, e) = q /\ e.told
                            THEN Committed(w, q) ELSE journal[q]
    BY <1>5, <2>4 DEF Committed
  <2>16. worker'[w] = t
    BY <2>5 DEF Only
  <2>17. KeyFree(KeyOf(w, Min(k.left)), Workers \ {w})
    BY <1>1 DEF writeFinding
  <2> QED
    BY <1>1, <1>2, <1>4, <1>5, <2>2, <2>5, <2>9, <2>12, <2>13, <2>14, <2>15, <2>16, <2>17
<1> QED
  BY <1>7, <1>8, SMTT(30)

-----------------------------------------------------------------------------
(* The cursor and the faults.                                                *)

LEMMA NextCursorType ==
  ASSUME TypeInv, NEW w \in Workers, worker[w].at = "renew"
  PROVE  /\ nextCursor(w)[1] \in 1 .. LastDetector + 1 /\ nextCursor(w)[2] \in Pages
         /\ \/ /\ worker[w].full
               /\ nextCursor(w)[1] = worker[w].index /\ nextCursor(w)[2] = worker[w].page + 1
            \/ /\ ~worker[w].full
               /\ nextCursor(w)[1] = worker[w].index + 1 /\ nextCursor(w)[2] = 0
<1>1. PICK k : k = worker[w]
  OBVIOUS
<1>2. /\ k \in Worker /\ k.index \in Detectors
      /\ k.full => (k.page + 1) * PageSize <= Cardinality(Targets)
  BY <1>1, WorkerOf DEF WorkerOK
<1>3. CASE k.full
  <2>1. k.page \in Nat /\ k.index \in 1 .. LastDetector + 1
    BY <1>2, WorkerFields
  <2>2. k.page + 1 <= (k.page + 1) * PageSize /\ (k.page + 1) * PageSize \in Nat
    BY <2>1, PageRanksSize
  <2>3. PICK n \in Nat : n = (k.page + 1) * PageSize
    BY <2>2
  <2>4. k.page + 1 \in Pages
    BY <1>2, <1>3, <2>1, <2>2, <2>3, ConstantTypes DEF Pages
  <2>5. nextCursor(w) = <<k.index, k.page + 1>>
    BY <1>1, <1>3 DEF nextCursor
  <2> QED
    BY <1>1, <1>3, <2>1, <2>4, <2>5
<1>4. CASE ~k.full
  <2>1. nextCursor(w) = <<k.index + 1, 0>>
    BY <1>1, <1>4 DEF nextCursor
  <2>2. k.index + 1 \in 1 .. LastDetector + 1 /\ 0 \in Pages
    BY <1>2, ConstantTypes DEF Detectors, Pages
  <2> QED
    BY <1>1, <1>4, <2>1, <2>2
<1> QED
  BY <1>3, <1>4

\* renewAssuranceRunLease moves the cursor of a worker that owns its run, and
\* the row's with it.
LEMMA RenewFacts ==
  ASSUME TypeInv, NEW w \in Workers, renewAssuranceRunLease(w)
  PROVE  /\ TypeInv'
         /\ worker[w].at = "renew" /\ RunFree(worker[w].run) /\ Only(w, worker'[w])
         /\ \/ /\ Owns(w) /\ worker'[w].at \in {"complete", "scan"}
               /\ SameLease(worker'[w], worker[w])
               /\ worker'[w].index = nextCursor(w)[1] /\ worker'[w].page = nextCursor(w)[2]
               /\ OnlyRow(worker[w].run, run'[worker[w].run])
               /\ SameToken(run'[worker[w].run], run[worker[w].run])
               /\ run'[worker[w].run].status = run[worker[w].run].status
               /\ SameCursor(run'[worker[w].run], worker'[w])
            \/ worker'[w].at = "idle" /\ UNCHANGED run
<1>1. PICK k : k = worker[w]
  OBVIOUS
<1>2. /\ WorkerOK(k) /\ k \in Worker /\ k.at = "renew" /\ k.run \in Runs
      /\ RunOK(run[k.run])
  BY <1>1, WorkerOf DEF renewAssuranceRunLease
<1>3. CASE Owns(w)
  <2>1. PICK i \in 1 .. LastDetector + 1 : i = nextCursor(w)[1]
    BY <1>1, <1>2, NextCursorType
  <2>2. PICK p \in Pages : p = nextCursor(w)[2]
    BY <1>1, <1>2, NextCursorType
  <2>3. PICK at : at = IF i > LastDetector THEN "complete" ELSE "scan"
    OBVIOUS
  <2>4. PICK t : t = [k EXCEPT !.at = at, !.index = i, !.page = p, !.full = FALSE]
    OBVIOUS
  <2>5. WorkerOK(t) /\ SameLease(t, k) /\ t.at = at /\ t.index = i /\ t.page = p
    <3>1. at \in {"complete", "scan"} /\ (at = "complete" <=> i > LastDetector)
      BY <2>3
    <3>2. at = "scan" => i <= LastDetector
      BY <2>3, ConstantTypes
    <3>3. t \in Worker /\ t.at = at /\ t.index = i /\ t.page = p /\ SameLease(t, k)
      BY <1>2, <2>4, <3>1 DEF Worker, SameLease
    <3>4. t.left = k.left /\ t.full = FALSE /\ t.wrote = k.wrote /\ t.seen = k.seen
      BY <1>2, <2>4 DEF Worker
    <3> QED
      BY <1>2, <3>1, <3>2, <3>3, <3>4 DEF WorkerOK, InPage, SameLease
  <2>6. Move(w, t)
    BY <1>1, <1>3, <2>1, <2>2, <2>3, <2>4 DEF renewAssuranceRunLease
  <2>7. Only(w, t) /\ \A v \in Workers : WorkerOK(worker'[v])
    BY <2>5, <2>6, MoveFacts
  <2>8. PICK s : s = run[k.run]
    OBVIOUS
  <2>9. PICK u : u = [s EXCEPT !.index = i, !.page = p]
    OBVIOUS
  <2>10. s.status # "none"
    BY <1>1, <1>3, <2>8 DEF Owns
  <2>11. RunOK(u) /\ SameToken(u, s) /\ u.status = s.status /\ u.index = i /\ u.page = p
    BY <1>2, <2>8, <2>9, <2>10 DEF RunOK, Run, SameToken
  <2>12. run' = [run EXCEPT ![k.run] = u]
    BY <1>1, <1>3, <2>1, <2>2, <2>8, <2>9 DEF renewAssuranceRunLease
  <2>13. OnlyRow(k.run, u) /\ \A q \in Runs : RunOK(run'[q])
    BY <1>2, <2>11, <2>12, RowFacts
  <2>14. TypeInv'
    BY <2>7, <2>13 DEF TypeInv, TypeOK, Only, OnlyRow, renewAssuranceRunLease
  <2>15. worker'[w] = t /\ run'[k.run] = u
    BY <2>7, <2>13 DEF Only, OnlyRow
  <2>16. at \in {"complete", "scan"}
    BY <2>3
  <2>17. worker[w].at = "renew" /\ RunFree(worker[w].run)
    BY DEF renewAssuranceRunLease
  <2>18. SameCursor(u, t)
    BY <2>5, <2>11 DEF SameCursor
  <2> QED
    BY <1>1, <1>3, <2>1, <2>2, <2>5, <2>7, <2>8, <2>11, <2>13, <2>14, <2>15, <2>16, <2>17, <2>18
<1>4. CASE ~Owns(w)
  <2>1. Move(w, Idle) /\ UNCHANGED run
    BY <1>4 DEF renewAssuranceRunLease
  <2>2. Only(w, Idle) /\ \A v \in Workers : WorkerOK(worker'[v])
    BY <2>1, IdleIsWorker, MoveFacts
  <2>3. TypeInv'
    BY <2>1, <2>2 DEF TypeInv, TypeOK, Only, renewAssuranceRunLease
  <2> QED
    BY <2>1, <2>2, <2>3, IdleIsWorker DEF Only, renewAssuranceRunLease
<1> QED
  BY <1>3, <1>4

\* completeAssuranceRun ends the run of a worker that owns it.
LEMMA CompleteFacts ==
  ASSUME TypeInv, NEW w \in Workers, completeAssuranceRun(w)
  PROVE  /\ TypeInv'
         /\ worker[w].at = "complete" /\ RunFree(worker[w].run)
         /\ Only(w, worker'[w]) /\ worker'[w].at = "idle"
         /\ \/ /\ Owns(w)
               /\ OnlyRow(worker[w].run, run'[worker[w].run])
               /\ SameToken(run'[worker[w].run], run[worker[w].run])
               /\ SameCursor(run'[worker[w].run], run[worker[w].run])
               /\ run'[worker[w].run].status = "COMPLETED"
            \/ UNCHANGED run
<1>1. Only(w, Idle) /\ \A v \in Workers : WorkerOK(worker'[v])
  BY IdleIsWorker, MoveFacts DEF completeAssuranceRun
<1>2. PICK r \in Runs : r = worker[w].run
  BY WorkerOf DEF completeAssuranceRun
<1>3. CASE Owns(w)
  <2>1. PICK s : s = run[r]
    OBVIOUS
  <2>2. PICK u : u = [s EXCEPT !.status = "COMPLETED", !.owner = NoWorker, !.live = FALSE]
    OBVIOUS
  <2>3. RunOK(s) /\ s.status # "none"
    BY <1>2, <1>3, <2>1 DEF TypeInv, Owns
  <2>4. RunOK(u) /\ SameToken(u, s) /\ SameCursor(u, s) /\ u.status = "COMPLETED"
    BY <2>2, <2>3 DEF RunOK, Run, SameToken, SameCursor
  <2>5. run' = [run EXCEPT ![r] = u]
    BY <1>2, <1>3, <2>1, <2>2 DEF completeAssuranceRun
  <2>6. OnlyRow(r, u) /\ \A q \in Runs : RunOK(run'[q])
    BY <2>4, <2>5, RowFacts
  <2>7. TypeInv'
    BY <1>1, <2>6 DEF TypeInv, TypeOK, Only, OnlyRow, completeAssuranceRun
  <2> QED
    BY <1>1, <1>2, <1>3, <2>1, <2>4, <2>6, <2>7, IdleIsWorker DEF Only, OnlyRow, completeAssuranceRun
<1>4. CASE ~Owns(w)
  <2>1. UNCHANGED run
    BY <1>4 DEF completeAssuranceRun
  <2>2. TypeInv'
    BY <1>1, <2>1 DEF TypeInv, TypeOK, Only, completeAssuranceRun
  <2> QED
    BY <1>1, <2>1, <2>2, IdleIsWorker DEF Only, completeAssuranceRun
<1> QED
  BY <1>3, <1>4

\* failAssuranceRun hands a run back, at the cursor of a worker that owns it; the
\* history of a run that may not be tried again ends.
LEMMA FailFacts ==
  ASSUME TypeInv, NEW w \in Workers, failAssuranceRun(w)
  PROVE  /\ TypeInv'
         /\ worker[w].at = "fail" /\ RunFree(worker[w].run)
         /\ Only(w, worker'[w]) /\ worker'[w].at = "idle"
         /\ \/ /\ Owns(w)
               /\ OnlyRow(worker[w].run, run'[worker[w].run])
               /\ SameToken(run'[worker[w].run], run[worker[w].run])
               /\ SameCursor(run'[worker[w].run], worker[w])
               /\ \/ run'[worker[w].run].status = "FAILED"
                  \/ /\ run'[worker[w].run].status = "PENDING"
                     /\ history'[worker[w].run] = history[worker[w].run]
               /\ \A q \in Runs : q # worker[w].run => history'[q] = history[q]
            \/ UNCHANGED <<run, history>>
<1>1. Only(w, Idle) /\ \A v \in Workers : WorkerOK(worker'[v])
  BY IdleIsWorker, MoveFacts DEF failAssuranceRun
<1>2. PICK r \in Runs : r = worker[w].run
  BY WorkerOf DEF failAssuranceRun
<1>3. CASE Owns(w)
  <2>1. PICK s : s = run[r]
    OBVIOUS
  <2>2. PICK again \in BOOLEAN : again <=> s.attempts < MaxAttempts
    OBVIOUS
  <2>3. PICK x : x = IF again THEN "PENDING" ELSE "FAILED"
    OBVIOUS
  <2>4. PICK k : k = worker[w]
    OBVIOUS
  <2>5. PICK u : u = [s EXCEPT !.status = x, !.waits = again, !.owner = NoWorker, !.live = FALSE,
                               !.index = k.index, !.page = k.page]
    OBVIOUS
  <2>6. RunOK(s) /\ s.status # "none"
    BY <1>2, <1>3, <2>1 DEF TypeInv, Owns
  <2>7. k.index \in 1 .. LastDetector + 1 /\ k.page \in Pages
    BY <2>4, WorkerOf, WorkerFields
  <2>8. x \in {"PENDING", "FAILED"} /\ (x = "PENDING" <=> again)
    BY <2>3
  <2>9. RunOK(u) /\ SameToken(u, s) /\ u.index = k.index /\ u.page = k.page /\ u.status = x
    BY <2>5, <2>6, <2>7, <2>8 DEF RunOK, Run, SameToken
  <2>10. run' = [run EXCEPT ![r] = u]
    <3>1. again = (s.attempts < MaxAttempts)
      BY <2>2
    <3> QED
      BY <1>2, <1>3, <2>1, <3>1, <2>3, <2>4, <2>5 DEF failAssuranceRun
  <2>11. OnlyRow(r, u) /\ \A q \in Runs : RunOK(run'[q])
    BY <2>9, <2>10, RowFacts
  <2>12. NoHistory \in History
    BY DEF NoHistory, History
  <2>13. history' = IF ~again THEN [history EXCEPT ![r] = NoHistory] ELSE history
    BY <1>2, <1>3, <2>1, <2>2 DEF failAssuranceRun
  <2>14. /\ history' \in [Runs -> History]
         /\ \A q \in Runs : q # r => history'[q] = history[q]
         /\ again => history'[r] = history[r]
    BY <2>12, <2>13 DEF TypeInv, TypeOK
  <2>15. TypeInv'
    BY <1>1, <2>11, <2>14 DEF TypeInv, TypeOK, Only, OnlyRow, failAssuranceRun
  <2>16. worker[w].at = "fail" /\ RunFree(r) /\ worker'[w] = Idle
    BY <1>1, <1>2 DEF Only, failAssuranceRun
  <2>17. run'[r] = u /\ SameCursor(u, k)
    BY <2>9, <2>11 DEF OnlyRow, SameCursor
  <2> QED
    BY <1>1, <1>2, <1>3, <2>1, <2>4, <2>8, <2>9, <2>11, <2>14, <2>15, <2>16, <2>17, IdleIsWorker
<1>4. CASE ~Owns(w)
  <2>1. UNCHANGED <<run, history>>
    BY <1>4 DEF failAssuranceRun
  <2>2. TypeInv'
    BY <1>1, <2>1 DEF TypeInv, TypeOK, Only, failAssuranceRun
  <2> QED
    BY <1>1, <2>1, <2>2, IdleIsWorker DEF Only, failAssuranceRun
<1> QED
  BY <1>3, <1>4

LEMMA SpentType ==
  ASSUME TypeInv
  PROVE  /\ spent \in [faults : 0 .. MaxFaults, changes : 0 .. MaxChanges, verdicts : 0 .. MaxVerdicts]
         /\ Fault => /\ spent' \in [faults : 0 .. MaxFaults, changes : 0 .. MaxChanges,
                                    verdicts : 0 .. MaxVerdicts]
                     /\ spent'.verdicts = spent.verdicts
<1>1. spent \in [faults : 0 .. MaxFaults, changes : 0 .. MaxChanges, verdicts : 0 .. MaxVerdicts]
  BY DEF TypeInv, TypeOK
<1>2. ASSUME Fault
      PROVE  /\ spent' \in [faults : 0 .. MaxFaults, changes : 0 .. MaxChanges,
                            verdicts : 0 .. MaxVerdicts]
             /\ spent'.verdicts = spent.verdicts
  <2>1. spent.faults + 1 \in 0 .. MaxFaults
    BY <1>1, <1>2, CountAssumption DEF Fault
  <2> QED
    BY <1>1, <1>2, <2>1 DEF Fault
<1> QED
  BY <1>1, <1>2

\* An error of a step leaves the worker to fail its run, at its cursor or at the
\* next if it was renewing.
LEMMA StepFailsFacts ==
  ASSUME TypeInv, NEW w \in Workers, NEW moved \in BOOLEAN, StepFails(w, moved)
  PROVE  /\ TypeInv'
         /\ worker[w].at \notin {"idle", "fail"} /\ Only(w, worker'[w])
         /\ worker'[w].at = "fail" /\ SameLease(worker'[w], worker[w])
         /\ worker'[w].wrote = {} /\ worker'[w].seen = "none"
         /\ \/ SamePage(worker'[w], worker[w])
            \/ /\ worker[w].at = "renew"
               /\ worker'[w].index = nextCursor(w)[1] /\ worker'[w].page = nextCursor(w)[2]
<1>1. PICK k : k = worker[w]
  OBVIOUS
<1>2. WorkerOK(k) /\ k \in Worker /\ k.at # "idle"
  BY <1>1, WorkerOf DEF StepFails
<1>3. PICK next : next = IF moved THEN nextCursor(w) ELSE <<k.index, k.page>>
  OBVIOUS
<1>4. next[1] \in 1 .. LastDetector + 1 /\ next[2] \in Pages
  <2>1. CASE moved
    BY <1>1, <1>3, <2>1, NextCursorType DEF StepFails
  <2>2. CASE ~moved
    BY <1>2, <1>3, <2>2, WorkerFields
  <2> QED
    BY <2>1, <2>2
<1>5. PICK i \in 1 .. LastDetector + 1 : i = next[1]
  BY <1>4
<1>6. PICK p \in Pages : p = next[2]
  BY <1>4
<1>7. PICK t : t = [k EXCEPT !.at = "fail", !.left = {}, !.full = FALSE, !.seen = "none",
                             !.wrote = {}, !.index = i, !.page = p]
  OBVIOUS
<1>8. /\ WorkerOK(t) /\ SameLease(t, k) /\ t.at = "fail" /\ t.index = i /\ t.page = p
      /\ t.left = {} /\ t.wrote = {} /\ t.seen = "none" /\ ~t.full
  BY <1>2, <1>7 DEF WorkerOK, Worker, Statuses, InPage, SameLease
<1>9. Move(w, t)
  BY <1>1, <1>3, <1>5, <1>6, <1>7 DEF StepFails
<1>10. Only(w, t) /\ \A v \in Workers : WorkerOK(worker'[v])
  BY <1>8, <1>9, MoveFacts
<1>11. TypeInv'
  BY <1>10, SpentType DEF TypeInv, TypeOK, Only, StepFails, rows
<1>12. \/ i = k.index /\ p = k.page
       \/ k.at = "renew" /\ i = nextCursor(w)[1] /\ p = nextCursor(w)[2]
  <2>1. CASE moved
    BY <1>1, <1>3, <1>5, <1>6, <2>1 DEF StepFails
  <2>2. CASE ~moved
    BY <1>3, <1>5, <1>6, <2>2
  <2> QED
    BY <2>1, <2>2
<1>13. worker'[w] = t
  BY <1>10 DEF Only
<1>14. worker[w].at \notin {"idle", "fail"}
  BY DEF StepFails
<1> QED
  BY <1>1, <1>8, <1>10, <1>11, <1>12, <1>13, <1>14 DEF SamePage

LEMMA CrashFacts ==
  ASSUME TypeInv, NEW w \in Workers, Crash(w)
  PROVE  TypeInv' /\ Only(w, worker'[w]) /\ worker'[w].at = "idle"
<1>1. Only(w, Idle) /\ \A v \in Workers : WorkerOK(worker'[v])
  BY IdleIsWorker, MoveFacts DEF Crash
<1>2. TypeInv'
  BY <1>1, SpentType DEF TypeInv, TypeOK, Only, Crash, rows
<1> QED
  BY <1>1, <1>2, IdleIsWorker DEF Only

\* A lease that lapses and a backoff that elapses touch only their own column.
LEMMA TimeFacts ==
  ASSUME TypeInv, NEW r \in Runs, LeaseLapses(r) \/ BackoffElapses(r)
  PROVE  /\ TypeInv'
         /\ OnlyRow(r, run'[r]) /\ SameToken(run'[r], run[r]) /\ SameCursor(run'[r], run[r])
         /\ run'[r].status = run[r].status
         /\ UNCHANGED <<finding, journal, worker, wrong, history>>
<1>1. PICK s : s = run[r]
  OBVIOUS
<1>2. RunOK(s)
  BY <1>1 DEF TypeInv
<1>3. CASE LeaseLapses(r)
  <2>1. PICK u : u = [s EXCEPT !.live = FALSE]
    OBVIOUS
  <2>2. s.live
    BY <1>1, <1>3 DEF LeaseLapses
  <2>3. NoRun.live = FALSE
    BY DEF NoRun
  <2>4. RunOK(u) /\ SameToken(u, s) /\ SameCursor(u, s) /\ u.status = s.status
    BY <1>2, <2>1, <2>2, <2>3 DEF RunOK, Run, SameToken, SameCursor
  <2>5. OnlyRow(r, u) /\ \A q \in Runs : RunOK(run'[q])
    BY <1>1, <1>3, <2>1, <2>4, RowFacts DEF LeaseLapses
  <2>6. /\ UNCHANGED <<finding, journal, worker, wrong, history>>
        /\ spent' \in [faults : 0 .. MaxFaults, changes : 0 .. MaxChanges, verdicts : 0 .. MaxVerdicts]
    BY <1>3, SpentType DEF LeaseLapses
  <2>7. TypeInv'
    BY <2>5, <2>6 DEF TypeInv, TypeOK, OnlyRow
  <2> QED
    BY <1>1, <2>4, <2>5, <2>6, <2>7 DEF OnlyRow
<1>4. CASE BackoffElapses(r)
  <2>1. PICK u : u = [s EXCEPT !.waits = FALSE]
    OBVIOUS
  <2>2. s.waits
    BY <1>1, <1>4 DEF BackoffElapses
  <2>3. NoRun.waits = FALSE
    BY DEF NoRun
  <2>4. RunOK(u) /\ SameToken(u, s) /\ SameCursor(u, s) /\ u.status = s.status
    BY <1>2, <2>1, <2>2, <2>3 DEF RunOK, Run, SameToken, SameCursor
  <2>5. OnlyRow(r, u) /\ \A q \in Runs : RunOK(run'[q])
    BY <1>1, <1>4, <2>1, <2>4, RowFacts DEF BackoffElapses
  <2>6. UNCHANGED <<finding, journal, worker, wrong, history, spent>>
    BY <1>4 DEF BackoffElapses
  <2>7. TypeInv'
    BY <2>5, <2>6 DEF TypeInv, TypeOK, OnlyRow
  <2> QED
    BY <1>1, <2>4, <2>5, <2>6, <2>7 DEF OnlyRow
<1> QED
  BY <1>3, <1>4

\* What is wrong changes in one place; a run that may still complete forgets what
\* is put right, and notes its detector.
LEMMA WorldFacts ==
  ASSUME TypeInv, NEW d \in Detectors, NEW x \in Targets, WorldChanges(d, x)
  PROVE  /\ TypeInv'
         /\ \A c \in Detectors : c # d => wrong'[c] = wrong[c]
         /\ \/ wrong'[d] = wrong[d] \cup {x} /\ UNCHANGED history
            \/ /\ wrong'[d] = wrong[d] \ {x}
               /\ \A r \in Runs :
                    \/ run[r].status \notin {"PENDING", "RUNNING"} /\ history'[r] = history[r]
                    \/ /\ history'[r].steady = history[r].steady \ {<<d, x>>}
                       /\ history'[r].shifted = history[r].shifted \cup {d}
                       /\ history'[r].kept = history[r].kept
         /\ UNCHANGED <<run, finding, journal, worker>>
<1>1. UNCHANGED <<run, finding, journal, worker>>
  BY DEF WorldChanges, rows
<1>2. /\ wrong' \in [Detectors -> SUBSET Targets]
      /\ wrong'[d] = IF x \in wrong[d] THEN wrong[d] \ {x} ELSE wrong[d] \cup {x}
      /\ \A c \in Detectors : c # d => wrong'[c] = wrong[c]
  BY DEF WorldChanges, TypeInv, TypeOK
<1>3. spent' \in [faults : 0 .. MaxFaults, changes : 0 .. MaxChanges, verdicts : 0 .. MaxVerdicts]
  <2>1. spent.changes + 1 \in 0 .. MaxChanges
    <3>1. spent.changes \in 0 .. MaxChanges /\ spent.changes < MaxChanges
      BY SpentType DEF WorldChanges
    <3> QED
      BY <3>1, CountAssumption
  <2> QED
    BY <2>1 DEF WorldChanges, TypeInv, TypeOK
<1>4. CASE x \notin wrong[d]
  <2>1. UNCHANGED history
    BY <1>4 DEF WorldChanges
  <2>2. TypeInv'
    BY <1>1, <1>2, <1>3, <2>1 DEF TypeInv, TypeOK
  <2> QED
    BY <1>1, <1>2, <1>4, <2>1, <2>2
<1>5. CASE x \in wrong[d]
  <2> DEFINE Ends(r) == run[r].status \notin {"PENDING", "RUNNING"}
             Noted(r) == [history[r] EXCEPT !.steady = history[r].steady \ {<<d, x>>},
                                            !.shifted = history[r].shifted \cup {d}]
  <2>1. history' = [r \in Runs |-> IF Ends(r) THEN history[r] ELSE Noted(r)]
    BY <1>5 DEF WorldChanges
  <2>2. \A r \in Runs : /\ history[r] \in History /\ Noted(r) \in History
                        /\ Noted(r).steady = history[r].steady \ {<<d, x>>}
                        /\ Noted(r).shifted = history[r].shifted \cup {d}
                        /\ Noted(r).kept = history[r].kept
    BY DEF TypeInv, TypeOK, History
  <2> HIDE DEF Noted
  <2>3. history' \in [Runs -> History]
    BY <2>1, <2>2
  <2>4. TypeInv'
    BY <1>1, <1>2, <1>3, <2>3 DEF TypeInv, TypeOK
  <2>5. \A r \in Runs : \/ Ends(r) /\ history'[r] = history[r]
                        \/ history'[r] = Noted(r)
    BY <2>1
  <2> QED
    BY <1>1, <1>2, <1>5, <2>2, <2>4, <2>5
<1> QED
  BY <1>4, <1>5

LEMMA VerdictFacts ==
  ASSUME TypeInv, NEW k \in Keys, NEW status \in Verdicts, transitionAssuranceFindingStatus(k, status)
  PROVE  /\ TypeInv'
         /\ KeyFree(k, Workers)
         /\ finding'[k] = status /\ journal'[k] = status
         /\ \A q \in Keys : q # k => finding'[q] = finding[q] /\ journal'[q] = journal[q]
         /\ spent'.verdicts # spent.verdicts
         /\ UNCHANGED <<run, worker, wrong, history>>
<1>1. status \in Statuses
  BY VerdictAssumption
<1>2. /\ finding' \in [Keys -> Statuses] /\ journal' \in [Keys -> Statuses]
      /\ finding'[k] = status /\ journal'[k] = status
      /\ \A q \in Keys : q # k => finding'[q] = finding[q] /\ journal'[q] = journal[q]
  BY <1>1 DEF transitionAssuranceFindingStatus, TypeInv, TypeOK
<1>3. /\ spent' \in [faults : 0 .. MaxFaults, changes : 0 .. MaxChanges, verdicts : 0 .. MaxVerdicts]
      /\ spent'.verdicts # spent.verdicts
  <2>1. spent.verdicts + 1 \in 0 .. MaxVerdicts /\ spent.verdicts + 1 # spent.verdicts
    BY CountAssumption DEF transitionAssuranceFindingStatus, TypeInv, TypeOK
  <2> QED
    BY <2>1 DEF transitionAssuranceFindingStatus, TypeInv, TypeOK
<1>4. TypeInv'
  BY <1>2, <1>3 DEF TypeInv, TypeOK, transitionAssuranceFindingStatus
<1> QED
  BY <1>2, <1>3, <1>4 DEF transitionAssuranceFindingStatus

\* The initial state.
LEMMA InitFacts ==
  ASSUME Init
  PROVE  /\ TypeInv
         /\ \A w \in Workers : worker[w] = Idle
         /\ \A r \in Runs : run[r] = NoRun
         /\ \A k \in Keys : finding[k] = "none" /\ journal[k] = "none"
<1>1. RunOK(NoRun)
  <2>1. 0 \in 0 .. MaxAttempts /\ 1 \in 1 .. LastDetector + 1 /\ 0 \in Pages
    BY ConstantTypes DEF Pages
  <2> QED
    BY <2>1 DEF RunOK, Run, NoRun
<1>2. WorkerOK(Idle) /\ Idle \in Worker /\ NoRun \in Run
  BY <1>1, IdleIsWorker DEF WorkerOK, RunOK
<1>3. NoHistory \in History
  BY DEF NoHistory, History
<1>4. spent \in [faults : 0 .. MaxFaults, changes : 0 .. MaxChanges, verdicts : 0 .. MaxVerdicts]
  BY CountAssumption DEF Init
<1>5. "none" \in Statuses
  BY DEF Statuses
<1>6. TypeOK
  BY <1>2, <1>3, <1>4, <1>5 DEF Init, TypeOK
<1> QED
  BY <1>1, <1>2, <1>6 DEF Init, TypeInv

\* A step keeps the types.
LEMMA TypesNext ==
  ASSUME TypeInv, [Next]_vars
  PROVE  TypeInv'
<1>1. CASE UNCHANGED vars
  BY <1>1 DEF TypeInv, TypeOK, vars, rows
<1>2. CASE Next
  <2>1. \A w \in Workers : WorkerStep(w) \/ Crash(w) => TypeInv'
    BY ClaimFacts, ScanFacts, BeginFacts, LookFacts, WriteFacts, RenewFacts, CompleteFacts,
       FailFacts, CrashFacts DEF WorkerStep
  <2>2. \A w \in Workers : \A moved \in BOOLEAN : StepFails(w, moved) => TypeInv'
    BY StepFailsFacts
  <2>3. \A r \in Runs : submitAssuranceRun(r) \/ cancelAssuranceRun(r) \/ LeaseLapses(r)
                        \/ BackoffElapses(r) => TypeInv'
    BY SubmitFacts, CancelFacts, TimeFacts
  <2>4. \A d \in Detectors : \A x \in Targets : WorldChanges(d, x) => TypeInv'
    BY WorldFacts
  <2>5. \A k \in Keys : \A status \in Verdicts :
          transitionAssuranceFindingStatus(k, status) => TypeInv'
    BY VerdictFacts
  <2> QED
    BY <1>2, <2>1, <2>2, <2>3, <2>4, <2>5, Zenon DEF Next
<1> QED
  BY <1>1, <1>2

\* Every row, finding, worker and history has its type, a run's token counts its
\* attempts, and a worker has of a page what its place asks for.
THEOREM RecordsAreTyped == Spec => []TypeInv
<1>1. Init => TypeInv
  BY InitFacts
<1>2. TypeInv /\ [Next]_vars => TypeInv'
  BY TypesNext
<1> QED
  BY <1>1, <1>2, PTL DEF Spec

-----------------------------------------------------------------------------
(* Leases.                                                                   *)

\* The worker of the latest claim of its run.
Latest(w) == worker[w].token = run[worker[w].run].token

\* j's cursor is not behind s's.
NotBehind(j, s) == j.index > s.index \/ (j.index = s.index /\ j.page >= s.page)

\* No worker has a token its run does not know, and no two have the same; whoever
\* holds the row of a run has its latest, and the latest works at the row's cursor,
\* which it only has gone beyond if its renewal failed.
LeaseOf(w) ==
  /\ worker[w].token <= run[worker[w].run].token
  /\ Holds(w) => Latest(w)
  /\ \A v \in Workers : worker[v].at # "idle" /\ SameLease(worker[v], worker[w]) => v = w
  /\ Latest(w) => NotBehind(worker[w], run[worker[w].run])
  /\ Latest(w) /\ worker[w].at # "fail" => SameCursor(worker[w], run[worker[w].run])

LeaseInv == \A w \in Workers : worker[w].at # "idle" => LeaseOf(w)

\* No worker moves, and no row's token or cursor does.
LEMMA LeaseStays ==
  ASSUME LeaseInv, TypeInv, UNCHANGED worker,
         \A q \in Runs : SameToken(run'[q], run[q]) /\ SameCursor(run'[q], run[q])
  PROVE  LeaseInv'
<1> SUFFICES ASSUME NEW w \in Workers, worker[w].at # "idle" PROVE LeaseOf(w)'
  BY DEF LeaseInv
<1>1. LeaseOf(w) /\ worker[w].run \in Runs
  BY WorkerOf DEF LeaseInv
<1>2. /\ run'[worker[w].run].token = run[worker[w].run].token
      /\ run'[worker[w].run].index = run[worker[w].run].index
      /\ run'[worker[w].run].page = run[worker[w].run].page
  BY <1>1 DEF SameToken, SameCursor
<1> QED
  BY <1>1, <1>2 DEF LeaseOf, Holds, Latest, SameLease, SameCursor, NotBehind

\* A worker moves, and no other row than the one whose latest it is.
LEMMA LeaseMoves ==
  ASSUME LeaseInv, TypeInv, NEW w \in Workers,
         \A v \in Workers : v # w => worker'[v] = worker[v],
         \A q \in Runs : SameToken(run'[q], run[q]),
         \A q \in Runs : \/ SameCursor(run'[q], run[q])
                         \/ worker[w].at # "idle" /\ worker[w].run = q /\ Latest(w),
         worker'[w].at # "idle" =>
           /\ worker[w].at # "idle" /\ SameLease(worker'[w], worker[w])
           /\ worker'[w].at \in {"look", "write"} => Latest(w)
           /\ Latest(w) => NotBehind(worker'[w], run'[worker[w].run])
           /\ Latest(w) /\ worker'[w].at # "fail" => SameCursor(worker'[w], run'[worker[w].run])
  PROVE  LeaseInv'
<1> SUFFICES ASSUME NEW v \in Workers, worker'[v].at # "idle" PROVE LeaseOf(v)'
  BY DEF LeaseInv
<1>1. \A u \in Workers : worker'[u].at # "idle" =>
        /\ worker[u].at # "idle" /\ SameLease(worker'[u], worker[u])
        /\ worker[u].run \in Runs /\ LeaseOf(u)
  <2> SUFFICES ASSUME NEW u \in Workers, worker'[u].at # "idle"
               PROVE  worker[u].at # "idle" /\ SameLease(worker'[u], worker[u])
    BY WorkerOf DEF LeaseInv
  <2>1. CASE u = w
    BY <2>1
  <2>2. CASE u # w
    BY <2>2 DEF SameLease
  <2> QED
    BY <2>1, <2>2
<1>2. PICK r \in Runs : r = worker[v].run /\ r = worker'[v].run
  BY <1>1 DEF SameLease
<1>3. run'[r].token = run[r].token /\ worker'[v].token = worker[v].token
  BY <1>1, <1>2 DEF SameToken, SameLease
<1>4. worker'[v].token <= run'[r].token
  BY <1>1, <1>2, <1>3, ZenonT(60) DEF LeaseOf
<1>5. \A u \in Workers : worker'[u].at # "idle" /\ SameLease(worker'[u], worker'[v]) => u = v
  BY <1>1 DEF LeaseOf, SameLease
<1>6. CASE v = w
  BY <1>1, <1>2, <1>3, <1>4, <1>5, <1>6 DEF LeaseOf, Latest, Holds
<1>7. CASE v # w
  <2>1. worker'[v] = worker[v]
    BY <1>7
  <2>2. Latest(v) => SameCursor(run'[r], run[r])
    <3>1. ASSUME Latest(v), worker[w].at # "idle", worker[w].run = r, Latest(w)
          PROVE  FALSE
      <4>1. SameLease(worker[w], worker[v])
        BY <1>2, <3>1 DEF Latest, SameLease
      <4> QED
        BY <1>1, <1>7, <3>1, <4>1 DEF LeaseOf
    <3> QED
      BY <1>2, <3>1
  <2>3. /\ Holds(v) => Latest(v)
        /\ Latest(v) => NotBehind(worker[v], run[r])
        /\ Latest(v) /\ worker[v].at # "fail" => SameCursor(worker[v], run[r])
    BY <1>1, <1>2 DEF LeaseOf
  <2>4. Latest(v)' <=> Latest(v)
    BY <1>2, <1>3 DEF Latest
  <2>5. Latest(v) => NotBehind(worker'[v], run'[r])
    BY <2>1, <2>2, <2>3 DEF NotBehind, SameCursor
  <2>6. Latest(v) /\ worker[v].at # "fail" => SameCursor(worker'[v], run'[r])
    BY <2>1, <2>2, <2>3 DEF SameCursor
  <2> QED
    BY <1>2, <1>4, <1>5, <2>1, <2>3, <2>4, <2>5, <2>6 DEF LeaseOf, Holds
<1> QED
  BY <1>6, <1>7

\* A cursor is not behind itself, nor is the next.
LEMMA Cursors ==
  ASSUME TypeInv, NEW w \in Workers, worker[w].at # "idle"
  PROVE  /\ \A j, s : SameCursor(j, s) /\ s.index \in Nat /\ s.page \in Nat => NotBehind(j, s)
         /\ worker[w].index \in Nat /\ worker[w].page \in Nat
         /\ run[worker[w].run].index \in Nat /\ run[worker[w].run].page \in Nat
         /\ run[worker[w].run].token \in Nat
         /\ \A j : worker[w].at = "renew" /\ j.index = nextCursor(w)[1] /\ j.page = nextCursor(w)[2]
               => NotBehind(j, worker[w])
<1>1. /\ worker[w].index \in Nat /\ worker[w].page \in Nat
      /\ run[worker[w].run].index \in Nat /\ run[worker[w].run].page \in Nat
      /\ run[worker[w].run].token \in Nat
  BY WorkerOf, WorkerFields, RunFields DEF RunOK
<1>2. \A j, s : SameCursor(j, s) /\ s.index \in Nat /\ s.page \in Nat => NotBehind(j, s)
  BY DEF SameCursor, NotBehind
<1>3. ASSUME worker[w].at = "renew", NEW j, j.index = nextCursor(w)[1], j.page = nextCursor(w)[2]
      PROVE  NotBehind(j, worker[w])
  <2>1. \/ j.index = worker[w].index /\ j.page = worker[w].page + 1
        \/ j.index = worker[w].index + 1 /\ j.page = 0
    BY <1>3, NextCursorType
  <2> QED
    BY <1>1, <2>1 DEF NotBehind
<1> QED
  BY <1>1, <1>2, <1>3

\* Who owns a run, or holds its row, has its latest lease.
LEMMA OwnerIsLatest ==
  ASSUME NEW w \in Workers
  PROVE  Owns(w) => Latest(w)
BY DEF Owns, Latest

\* All rows but one, or all, stay.
LEMMA RowsStay ==
  /\ UNCHANGED run => \A q \in Runs : SameToken(run'[q], run[q]) /\ SameCursor(run'[q], run[q])
  /\ \A r \in Runs : OnlyRow(r, run'[r]) /\ SameToken(run'[r], run[r]) =>
       /\ \A q \in Runs : SameToken(run'[q], run[q])
       /\ \A q \in Runs : q # r => SameCursor(run'[q], run[q])
       /\ SameCursor(run'[r], run[r]) => \A q \in Runs : SameCursor(run'[q], run[q])
BY DEF OnlyRow, SameToken, SameCursor

\* A worker goes on within its page, and no row changes.
LEMMA LeaseGoesOn ==
  ASSUME LeaseInv, TypeInv, NEW w \in Workers, Only(w, worker'[w]), UNCHANGED run,
         worker[w].at # "idle",
         \/ worker'[w].at = "idle"
         \/ /\ SamePage(worker'[w], worker[w]) /\ worker[w].at # "fail"
            /\ worker'[w].at \in {"look", "write"} => Latest(w)
  PROVE  LeaseInv'
<1>1. \A q \in Runs : SameToken(run'[q], run[q]) /\ SameCursor(run'[q], run[q])
  BY RowsStay
<1>2. \A v \in Workers : v # w => worker'[v] = worker[v]
  BY DEF Only
<1>3. LeaseOf(w) /\ worker[w].run \in Runs
  BY WorkerOf DEF LeaseInv
<1>4. CASE worker'[w].at = "idle"
  BY <1>1, <1>2, <1>4, LeaseMoves
<1>5. CASE /\ SamePage(worker'[w], worker[w]) /\ worker[w].at # "fail"
           /\ worker'[w].at \in {"look", "write"} => Latest(w)
  <2>1. Latest(w) => SameCursor(worker'[w], run'[worker[w].run])
    BY <1>3, <1>5 DEF LeaseOf, SamePage, SameCursor
  <2>2. Latest(w) => NotBehind(worker'[w], run'[worker[w].run])
    BY <2>1, Cursors
  <2>3. SameLease(worker'[w], worker[w])
    BY <1>5 DEF SamePage
  <2> QED
    BY <1>1, <1>2, <1>5, <2>1, <2>2, <2>3, LeaseMoves
<1> QED
  BY <1>4, <1>5

\* A claim takes a token that nobody has.
LEMMA LeaseClaim ==
  ASSUME LeaseInv, TypeInv, NEW w \in Workers, claimNextAssuranceRun(w)
  PROVE  LeaseInv'
<1>1. PICK r \in Runs : r = worker'[w].run
  BY ClaimFacts
<1>2. /\ worker[w].at = "idle" /\ Only(w, worker'[w]) /\ worker'[w].at \in {"complete", "scan"}
      /\ RunFree(r) /\ OnlyRow(r, run'[r]) /\ SameCursor(run'[r], run[r])
      /\ run'[r].token = run[r].token + 1 /\ worker'[w].token = run'[r].token
      /\ worker'[w].index = run'[r].index /\ worker'[w].page = run'[r].page
      /\ TypeInv'
  BY <1>1, ClaimFacts
<1>3. /\ run[r].token \in Nat /\ run'[r].token \in Nat
      /\ run'[r].index \in Nat /\ run'[r].page \in Nat
  <2>1. run[r] \in Run /\ run'[r] \in Run
    BY <1>2 DEF TypeInv, TypeOK, OnlyRow
  <2> QED
    BY <2>1, RunFields
<1> SUFFICES ASSUME NEW v \in Workers, worker'[v].at # "idle" PROVE LeaseOf(v)'
  BY DEF LeaseInv
<1>4. \A u \in Workers : u # w => worker'[u] = worker[u]
  BY <1>2 DEF Only
<1>5. \A u \in Workers : u # w /\ worker[u].at # "idle" =>
        /\ worker[u].run \in Runs /\ LeaseOf(u) /\ worker[u].token \in Nat
        /\ run[worker[u].run].token \in Nat
        /\ worker[u].run = r => worker[u].token < run'[r].token /\ ~Holds(u)
  <2> SUFFICES ASSUME NEW u \in Workers, u # w, worker[u].at # "idle"
               PROVE  /\ worker[u].run \in Runs /\ LeaseOf(u) /\ worker[u].token \in Nat
                      /\ run[worker[u].run].token \in Nat
                      /\ worker[u].run = r => worker[u].token < run'[r].token /\ ~Holds(u)
    OBVIOUS
  <2>1. worker[u].run \in Runs /\ LeaseOf(u) /\ worker[u].token \in Nat
        /\ run[worker[u].run].token \in Nat
    BY WorkerOf, WorkerFields, RunFields DEF LeaseInv, RunOK
  <2>2. worker[u].token <= run[worker[u].run].token
    BY <2>1 DEF LeaseOf
  <2>3. worker[u].run = r => ~Holds(u)
    BY <1>2 DEF RunFree
  <2> QED
    BY <1>2, <1>3, <2>1, <2>2, <2>3
<1>6. CASE v = w
  <2>1. \A u \in Workers : worker'[u].at # "idle" /\ SameLease(worker'[u], worker'[w]) => u = w
    <3> SUFFICES ASSUME NEW u \in Workers, u # w, worker'[u].at # "idle",
                        SameLease(worker'[u], worker'[w])
                 PROVE  FALSE
      OBVIOUS
    <3> QED
      BY <1>1, <1>2, <1>3, <1>4, <1>5 DEF SameLease
  <2>2. SameCursor(worker'[w], run'[r])
    BY <1>2 DEF SameCursor
  <2>3. NotBehind(worker'[w], run'[r])
    BY <1>2, <1>3 DEF NotBehind
  <2>4. worker'[w].token <= run'[r].token
    BY <1>2, <1>3
  <2>5. Latest(w)'
    BY <1>1, <1>2 DEF Latest
  <2> QED
    BY <1>1, <1>6, <2>1, <2>2, <2>3, <2>4, <2>5 DEF LeaseOf
<1>7. CASE v # w
  <2>1. worker'[v] = worker[v]
    BY <1>4, <1>7
  <2>2. /\ worker[v].run \in Runs /\ LeaseOf(v) /\ worker[v].token \in Nat
        /\ run[worker[v].run].token \in Nat
        /\ worker[v].run = r => worker[v].token < run'[r].token /\ ~Holds(v)
    BY <1>5, <1>7, <2>1
  <2>3. \A u \in Workers : worker'[u].at # "idle" /\ SameLease(worker'[u], worker'[v]) => u = v
    <3> TAKE u \in Workers
    <3>1. CASE u = w
      BY <1>1, <1>2, <1>3, <2>1, <2>2, <3>1 DEF SameLease
    <3>2. CASE u # w
      BY <1>4, <2>1, <2>2, <3>2 DEF LeaseOf
    <3> QED
      BY <3>1, <3>2
  <2>4. CASE worker[v].run = r
    <3>1. ~(Latest(v)') /\ worker'[v].token <= run'[r].token /\ ~(Holds(v)')
      BY <1>3, <2>1, <2>2, <2>4 DEF Latest, Holds
    <3> QED
      BY <2>1, <2>3, <2>4, <3>1 DEF LeaseOf
  <2>5. CASE worker[v].run # r
    <3>1. run'[worker[v].run] = run[worker[v].run]
      BY <1>2, <2>2, <2>5 DEF OnlyRow
    <3> QED
      BY <2>1, <2>2, <2>3, <3>1 DEF LeaseOf, Latest, Holds
  <2> QED
    BY <2>4, <2>5
<1> QED
  BY <1>6, <1>7

\* A step keeps the leases.
LEMMA LeaseNext ==
  ASSUME LeaseInv, TypeInv, [Next]_vars
  PROVE  LeaseInv'
<1>1. CASE UNCHANGED vars
  BY <1>1, RowsStay, LeaseStays DEF vars, rows
<1>2. ASSUME NEW w \in Workers, collectDetectorFindings(w) PROVE LeaseInv'
  <2>1. UNCHANGED run
    BY <1>2 DEF collectDetectorFindings, rows
  <2> QED
    BY <1>2, <2>1, ScanFacts, LeaseGoesOn
<1>3. ASSUME NEW w \in Workers, beginAppend(w) PROVE LeaseInv'
  <2>1. UNCHANGED run
    BY <1>3 DEF beginAppend, rows
  <2>2. worker'[w].at \in {"look", "write"} => Latest(w)
    BY <1>3, BeginFacts, OwnerIsLatest
  <2> QED
    BY <1>3, <2>1, <2>2, BeginFacts, LeaseGoesOn
<1>4. ASSUME NEW w \in Workers, lookFinding(w) PROVE LeaseInv'
  <2>1. UNCHANGED run
    BY <1>4 DEF lookFinding, rows
  <2>2. worker[w].at = "look"
    BY <1>4, LookFacts
  <2>3. Latest(w)
    BY <2>2 DEF LeaseInv, LeaseOf, Holds
  <2> QED
    BY <1>4, <2>1, <2>2, <2>3, LookFacts, LeaseGoesOn
<1>5. ASSUME NEW w \in Workers, writeFinding(w) PROVE LeaseInv'
  <2>1. UNCHANGED run
    BY <1>5 DEF writeFinding
  <2>2. worker[w].at = "write"
    BY <1>5, WriteFacts
  <2>3. Latest(w)
    BY <2>2 DEF LeaseInv, LeaseOf, Holds
  <2> QED
    BY <1>5, <2>1, <2>2, <2>3, WriteFacts, LeaseGoesOn
<1>6. ASSUME NEW w \in Workers, renewAssuranceRunLease(w) PROVE LeaseInv'
  <2>1. worker[w].at = "renew" /\ Only(w, worker'[w]) /\ worker[w].run \in Runs /\ TypeInv'
    BY <1>6, RenewFacts, WorkerOf
  <2>2. CASE worker'[w].at = "idle" /\ UNCHANGED run
    BY <2>1, <2>2, LeaseGoesOn
  <2>3. CASE /\ Owns(w) /\ worker'[w].at \in {"complete", "scan"}
             /\ SameLease(worker'[w], worker[w])
             /\ OnlyRow(worker[w].run, run'[worker[w].run])
             /\ SameToken(run'[worker[w].run], run[worker[w].run])
             /\ SameCursor(run'[worker[w].run], worker'[w])
    <3>1. Latest(w)
      BY <2>3, OwnerIsLatest
    <3>2. SameCursor(worker'[w], run'[worker[w].run])
      BY <2>3 DEF SameCursor
    <3>3. run'[worker[w].run].index \in Nat /\ run'[worker[w].run].page \in Nat
      BY <2>1, RunFields DEF TypeInv, TypeOK
    <3>4. NotBehind(worker'[w], run'[worker[w].run])
      BY <3>2, <3>3 DEF NotBehind, SameCursor
    <3>5. \A v \in Workers : v # w => worker'[v] = worker[v]
      BY <2>1 DEF Only
    <3> QED
      BY <2>1, <2>3, <3>1, <3>2, <3>4, <3>5, RowsStay, LeaseMoves
  <2> QED
    BY <1>6, <2>2, <2>3, RenewFacts
<1>7. ASSUME NEW w \in Workers, completeAssuranceRun(w) PROVE LeaseInv'
  <2>1. /\ worker[w].at = "complete" /\ Only(w, worker'[w]) /\ worker'[w].at = "idle"
        /\ worker[w].run \in Runs
    BY <1>7, CompleteFacts, WorkerOf
  <2>2. \A q \in Runs : SameToken(run'[q], run[q]) /\ SameCursor(run'[q], run[q])
    BY <1>7, <2>1, CompleteFacts, RowsStay
  <2> QED
    BY <2>1, <2>2, LeaseMoves DEF Only
<1>8. ASSUME NEW w \in Workers, failAssuranceRun(w) PROVE LeaseInv'
  <2>1. /\ worker[w].at = "fail" /\ Only(w, worker'[w]) /\ worker'[w].at = "idle"
        /\ worker[w].run \in Runs
    BY <1>8, FailFacts, WorkerOf
  <2>2. CASE UNCHANGED run
    BY <2>1, <2>2, LeaseGoesOn
  <2>3. CASE Owns(w) /\ OnlyRow(worker[w].run, run'[worker[w].run])
             /\ SameToken(run'[worker[w].run], run[worker[w].run])
    BY <2>1, <2>3, OwnerIsLatest, RowsStay, LeaseMoves DEF Only
  <2> QED
    BY <1>8, <2>2, <2>3, FailFacts
<1>9. ASSUME NEW w \in Workers, Crash(w) PROVE LeaseInv'
  <2>1. UNCHANGED run /\ worker[w].at # "idle"
    BY <1>9 DEF Crash, rows
  <2> QED
    BY <1>9, <2>1, CrashFacts, LeaseGoesOn
<1>10. ASSUME NEW w \in Workers, NEW moved \in BOOLEAN, StepFails(w, moved) PROVE LeaseInv'
  <2>1. UNCHANGED run
    BY <1>10 DEF StepFails, rows
  <2>2. /\ worker[w].at \notin {"idle", "fail"} /\ Only(w, worker'[w])
        /\ worker'[w].at = "fail" /\ SameLease(worker'[w], worker[w])
        /\ \/ SamePage(worker'[w], worker[w])
           \/ /\ worker[w].at = "renew"
              /\ worker'[w].index = nextCursor(w)[1] /\ worker'[w].page = nextCursor(w)[2]
    BY <1>10, StepFailsFacts
  <2>3. CASE SamePage(worker'[w], worker[w])
    BY <2>1, <2>2, <2>3, LeaseGoesOn
  <2>4. CASE /\ worker[w].at = "renew"
             /\ worker'[w].index = nextCursor(w)[1] /\ worker'[w].page = nextCursor(w)[2]
    <3>1. NotBehind(worker'[w], worker[w])
      BY <2>2, <2>4, Cursors
    <3>2. Latest(w) => SameCursor(worker[w], run[worker[w].run])
      BY <2>2 DEF LeaseInv, LeaseOf
    <3>3. Latest(w) => NotBehind(worker'[w], run'[worker[w].run])
      BY <2>1, <3>1, <3>2 DEF NotBehind, SameCursor
    <3> QED
      BY <2>1, <2>2, <3>3, RowsStay, LeaseMoves DEF Only
  <2> QED
    BY <2>2, <2>3, <2>4
<1>11. ASSUME NEW r \in Runs, submitAssuranceRun(r) PROVE LeaseInv'
  BY <1>11, SubmitFacts, RowsStay, LeaseStays DEF submitAssuranceRun
<1>12. ASSUME NEW r \in Runs, cancelAssuranceRun(r) PROVE LeaseInv'
  BY <1>12, CancelFacts, RowsStay, LeaseStays DEF cancelAssuranceRun
<1>13. ASSUME NEW r \in Runs, LeaseLapses(r) \/ BackoffElapses(r) PROVE LeaseInv'
  BY <1>13, TimeFacts, RowsStay, LeaseStays
<1>14. ASSUME NEW d \in Detectors, NEW x \in Targets, WorldChanges(d, x) PROVE LeaseInv'
  BY <1>14, WorldFacts, RowsStay, LeaseStays
<1>15. ASSUME NEW k \in Keys, NEW status \in Verdicts, transitionAssuranceFindingStatus(k, status)
       PROVE  LeaseInv'
  BY <1>15, VerdictFacts, RowsStay, LeaseStays
<1> QED
  BY <1>1, <1>2, <1>3, <1>4, <1>5, <1>6, <1>7, <1>8, <1>9, <1>10, <1>11, <1>12, <1>13, <1>14,
     <1>15, LeaseClaim DEF Next, WorkerStep

LEMMA LeasesHold == Spec => [](TypeInv /\ LeaseInv)
<1>1. Init => TypeInv /\ LeaseInv
  BY InitFacts, IdleIsWorker DEF LeaseInv
<1>2. TypeInv /\ LeaseInv /\ [Next]_vars => (TypeInv /\ LeaseInv)'
  BY TypesNext, LeaseNext
<1> QED
  BY <1>1, <1>2, PTL DEF Spec

\* No row's cursor goes back.
CursorsGoOn == \A r \in Runs : NotBehind(run'[r], run[r])

LEMMA CursorsStay ==
  ASSUME TypeInv, \A q \in Runs : SameCursor(run'[q], run[q])
  PROVE  CursorsGoOn
<1> SUFFICES ASSUME NEW r \in Runs PROVE NotBehind(run'[r], run[r])
  BY DEF CursorsGoOn
<1>1. run[r].index \in Nat /\ run[r].page \in Nat
  BY RunFields DEF TypeInv, TypeOK
<1> QED
  BY <1>1 DEF NotBehind, SameCursor

\* The owner moves its row's cursor to its own, or to the next.
LEMMA CursorMoves ==
  ASSUME TypeInv, NEW r \in Runs, OnlyRow(r, run'[r]), NotBehind(run'[r], run[r])
  PROVE  CursorsGoOn
<1> SUFFICES ASSUME NEW q \in Runs PROVE NotBehind(run'[q], run[q])
  BY DEF CursorsGoOn
<1>1. run[q].index \in Nat /\ run[q].page \in Nat
  BY RunFields DEF TypeInv, TypeOK
<1>2. q # r => run'[q] = run[q]
  BY DEF OnlyRow
<1> QED
  BY <1>1, <1>2 DEF NotBehind

LEMMA CursorsNext ==
  ASSUME TypeInv, LeaseInv, Next
  PROVE  CursorsGoOn
<1>1. CASE UNCHANGED run
  BY <1>1, RowsStay, CursorsStay
<1>2. ASSUME NEW w \in Workers, claimNextAssuranceRun(w) PROVE CursorsGoOn
  <2>1. PICK r \in Runs : r = worker'[w].run
    BY <1>2, ClaimFacts
  <2>2. OnlyRow(r, run'[r]) /\ SameCursor(run'[r], run[r])
    BY <1>2, <2>1, ClaimFacts
  <2>3. \A q \in Runs : SameCursor(run'[q], run[q])
    BY <2>2 DEF OnlyRow, SameCursor
  <2> QED
    BY <2>3, CursorsStay
<1>3. ASSUME NEW w \in Workers, renewAssuranceRunLease(w) PROVE CursorsGoOn
  <2>1. CASE UNCHANGED run
    BY <2>1, <1>1
  <2>2. CASE /\ Owns(w)
             /\ worker'[w].index = nextCursor(w)[1] /\ worker'[w].page = nextCursor(w)[2]
             /\ OnlyRow(worker[w].run, run'[worker[w].run])
             /\ SameCursor(run'[worker[w].run], worker'[w])
    <3>1. worker[w].at = "renew" /\ worker[w].run \in Runs
      BY <1>3, RenewFacts, WorkerOf
    <3>2. NotBehind(worker'[w], worker[w])
      BY <2>2, <3>1, Cursors
    <3>3. SameCursor(worker[w], run[worker[w].run])
      BY <2>2, <3>1, OwnerIsLatest DEF LeaseInv, LeaseOf
    <3>4. NotBehind(run'[worker[w].run], run[worker[w].run])
      BY <2>2, <3>2, <3>3 DEF NotBehind, SameCursor
    <3> QED
      BY <2>2, <3>1, <3>4, CursorMoves
  <2> QED
    BY <1>3, <2>1, <2>2, RenewFacts
<1>4. ASSUME NEW w \in Workers, completeAssuranceRun(w) PROVE CursorsGoOn
  BY <1>4, <1>1, CompleteFacts, WorkerOf, RowsStay, CursorsStay
<1>5. ASSUME NEW w \in Workers, failAssuranceRun(w) PROVE CursorsGoOn
  <2>1. CASE UNCHANGED run
    BY <2>1, <1>1
  <2>2. CASE /\ Owns(w) /\ OnlyRow(worker[w].run, run'[worker[w].run])
             /\ SameCursor(run'[worker[w].run], worker[w])
    <3>1. worker[w].at = "fail" /\ worker[w].run \in Runs
      BY <1>5, FailFacts, WorkerOf
    <3>2. NotBehind(worker[w], run[worker[w].run])
      BY <2>2, <3>1, OwnerIsLatest DEF LeaseInv, LeaseOf
    <3>3. NotBehind(run'[worker[w].run], run[worker[w].run])
      BY <2>2, <3>2 DEF NotBehind, SameCursor
    <3> QED
      BY <2>2, <3>1, <3>3, CursorMoves
  <2> QED
    BY <1>5, <2>1, <2>2, FailFacts
<1>6. ASSUME NEW r \in Runs, submitAssuranceRun(r) PROVE CursorsGoOn
  BY <1>6, SubmitFacts, RowsStay, CursorsStay
<1>7. ASSUME NEW r \in Runs, cancelAssuranceRun(r) PROVE CursorsGoOn
  BY <1>7, CancelFacts, RowsStay, CursorsStay
<1>8. ASSUME NEW r \in Runs, LeaseLapses(r) \/ BackoffElapses(r) PROVE CursorsGoOn
  BY <1>8, TimeFacts, RowsStay, CursorsStay
<1>9. \A w \in Workers :
        \/ collectDetectorFindings(w) \/ beginAppend(w) \/ lookFinding(w) \/ writeFinding(w)
        \/ Crash(w) \/ \E moved \in BOOLEAN : StepFails(w, moved)
        => UNCHANGED run
  BY DEF collectDetectorFindings, beginAppend, lookFinding, writeFinding, Crash, StepFails, rows
<1>10. \A d \in Detectors, x \in Targets : WorldChanges(d, x) => UNCHANGED run
  BY DEF WorldChanges, rows
<1>11. \A k \in Keys, status \in Verdicts : transitionAssuranceFindingStatus(k, status) => UNCHANGED run
  BY DEF transitionAssuranceFindingStatus
<1> QED
  BY <1>1, <1>2, <1>3, <1>4, <1>5, <1>6, <1>7, <1>8, <1>9, <1>10, <1>11 DEF Next, WorkerStep

\* Only a write changes a finding, but for a verdict.
LEMMA FindingsNext ==
  ASSUME TypeInv, LeaseInv, Next
  PROVE  \/ UNCHANGED finding
         \/ spent'.verdicts # spent.verdicts
         \/ \E w \in Workers : worker[w].at = "write" /\ Latest(w)
<1>1. \A w \in Workers : writeFinding(w) => worker[w].at = "write" /\ Latest(w)
  BY WriteFacts DEF LeaseInv, LeaseOf, Holds
<1>2. \A k \in Keys, status \in Verdicts :
        transitionAssuranceFindingStatus(k, status) => spent'.verdicts # spent.verdicts
  BY VerdictFacts
<1>3. \A w \in Workers :
        \/ claimNextAssuranceRun(w) \/ collectDetectorFindings(w) \/ beginAppend(w) \/ lookFinding(w)
        \/ renewAssuranceRunLease(w) \/ completeAssuranceRun(w) \/ failAssuranceRun(w)
        \/ Crash(w) \/ \E moved \in BOOLEAN : StepFails(w, moved)
        => UNCHANGED finding
  BY DEF claimNextAssuranceRun, collectDetectorFindings, beginAppend, lookFinding,
         renewAssuranceRunLease, completeAssuranceRun, failAssuranceRun, Crash, StepFails, rows
<1>4. \A r \in Runs : submitAssuranceRun(r) \/ cancelAssuranceRun(r) \/ LeaseLapses(r) \/ BackoffElapses(r)
        => UNCHANGED finding
  BY DEF submitAssuranceRun, cancelAssuranceRun, LeaseLapses, BackoffElapses
<1>5. \A d \in Detectors, x \in Targets : WorldChanges(d, x) => UNCHANGED finding
  BY DEF WorldChanges, rows
<1> QED
  BY <1>1, <1>2, <1>3, <1>4, <1>5 DEF Next, WorkerStep

\* A worker that was taken over undoes nothing of its successor: however many
\* workers, crashes, errors and lapsed leases there are, only the latest lease of
\* a run keeps findings and no cursor in its row goes back.
THEOREM TakeoversUndoNothing == Spec => LatestLeaseWrites
<1> DEFINE A == /\ \A k \in Keys : finding'[k] # finding[k] /\ spent'.verdicts = spent.verdicts =>
                     \E w \in Workers :
                       worker[w].at = "write" /\ worker[w].token = run[worker[w].run].token
                /\ \A r \in Runs : \/ run'[r].index > run[r].index
                                   \/ run'[r].index = run[r].index /\ run'[r].page >= run[r].page
<1>1. TypeInv /\ LeaseInv /\ [Next]_vars => [A]_<<run, finding>>
  <2> SUFFICES ASSUME TypeInv, LeaseInv, [Next]_vars, ~UNCHANGED <<run, finding>> PROVE A
    OBVIOUS
  <2>1. Next
    BY DEF vars, rows
  <2>2. CursorsGoOn
    BY <2>1, CursorsNext
  <2>3. \/ UNCHANGED finding
        \/ spent'.verdicts # spent.verdicts
        \/ \E w \in Workers : worker[w].at = "write" /\ worker[w].token = run[worker[w].run].token
    BY <2>1, FindingsNext DEF Latest
  <2>4. \A r \in Runs : \/ run'[r].index > run[r].index
                        \/ run'[r].index = run[r].index /\ run'[r].page >= run[r].page
    BY <2>2 DEF CursorsGoOn, NotBehind
  <2>5. \A k \in Keys : finding'[k] # finding[k] /\ spent'.verdicts = spent.verdicts =>
          \E w \in Workers :
            worker[w].at = "write" /\ worker[w].token = run[worker[w].run].token
    BY <2>3
  <2> QED
    BY <2>4, <2>5
<1> QED
  BY <1>1, LeasesHold, PTL DEF Spec, LatestLeaseWrites

-----------------------------------------------------------------------------
(* Findings and their journal.                                               *)

\* No other worker has locked what w has; a finding that was read is still as it
\* was read; and a write without an event leaves the status as it is.
HasLocks(w) == \A k \in HeldKeys(w) : KeyFree(k, Workers \ {w})

SeenStays(w) ==
  worker[w].at = "write" /\ worker[w].seen # "none" =>
    finding[KeyOf(w, Min(worker[w].left))] = worker[w].seen

UntoldStays(w) == \A e \in worker[w].wrote : ~e.told => finding[Of(w, e)] = e.to

LockInv == \A w \in Workers : HasLocks(w) /\ SeenStays(w) /\ UntoldStays(w)

JournalInv == LockInv /\ JournalTellsStatus

\* What a worker holds.
LEMMA HeldOf ==
  ASSUME NEW w \in Workers
  PROVE  \A k : k \in HeldKeys(w) <=>
           /\ Holds(w)
           /\ \/ \E e \in worker[w].wrote : Of(w, e) = k
              \/ worker[w].at = "write" /\ worker[w].seen # "none" /\ k = KeyOf(w, Min(worker[w].left))
BY DEF HeldKeys, Of

\* A worker that stays holds what it held.
LEMMA HeldStays ==
  ASSUME NEW w \in Workers, worker'[w] = worker[w]
  PROVE  HeldKeys(w)' = HeldKeys(w)
BY DEF HeldKeys, Holds, KeyOf

\* A worker that has written nothing and read nothing holds nothing.
LEMMA HoldsNothing ==
  ASSUME NEW w \in Workers, worker'[w].wrote = {}, worker'[w].seen = "none"
  PROVE  HeldKeys(w)' = {}
BY DEF HeldKeys

\* It does so where it is not in a transaction.
LEMMA OutsideIsEmpty ==
  ASSUME TypeInv', NEW w \in Workers, worker'[w].at \notin {"look", "write"}
  PROVE  worker'[w].wrote = {} /\ worker'[w].seen = "none"
BY DEF TypeInv, WorkerOK

\* Neither the findings nor a worker's transaction changes.
LEMMA LocksStay ==
  ASSUME JournalInv, UNCHANGED <<worker, finding, journal>>
  PROVE  JournalInv'
BY DEF JournalInv, LockInv, HasLocks, SeenStays, UntoldStays, JournalTellsStatus, KeyFree,
       HeldKeys, Holds, KeyOf, Of

\* A worker ends its transaction, or has none.
LEMMA LocksEnd ==
  ASSUME JournalInv, NEW w \in Workers, Only(w, worker'[w]), UNCHANGED <<finding, journal>>,
         worker'[w].wrote = {}, worker'[w].seen = "none"
  PROVE  JournalInv'
<1>1. HeldKeys(w)' = {}
  BY HoldsNothing
<1>2. \A v \in Workers : v # w => worker'[v] = worker[v] /\ HeldKeys(v)' = HeldKeys(v)
  BY HeldStays DEF Only
<1>3. ASSUME NEW v \in Workers PROVE (HasLocks(v) /\ SeenStays(v) /\ UntoldStays(v))'
  <2>1. CASE v = w
    BY <1>1, <2>1 DEF HasLocks, SeenStays, UntoldStays
  <2>2. CASE v # w
    <3>1. HasLocks(v) /\ SeenStays(v) /\ UntoldStays(v) /\ worker'[v] = worker[v]
      BY <1>2, <2>2 DEF JournalInv, LockInv
    <3>2. HasLocks(v)'
      BY <1>1, <1>2, <2>2, <3>1 DEF HasLocks, KeyFree
    <3> QED
      BY <3>1, <3>2 DEF SeenStays, UntoldStays, KeyOf, Of
  <2> QED
    BY <2>1, <2>2
<1> QED
  BY <1>3 DEF JournalInv, LockInv, JournalTellsStatus

\* A worker of a transaction takes locks that are free.
LEMMA LocksGrow ==
  ASSUME JournalInv, NEW w \in Workers, Only(w, worker'[w]), UNCHANGED <<finding, journal>>,
         \A q \in HeldKeys(w)' : q \in HeldKeys(w) \/ KeyFree(q, Workers \ {w}),
         SeenStays(w)', UntoldStays(w)'
  PROVE  JournalInv'
<1>1. \A v \in Workers : v # w => worker'[v] = worker[v] /\ HeldKeys(v)' = HeldKeys(v)
  BY HeldStays DEF Only
<1>2. \A v \in Workers : v # w => \A q \in HeldKeys(v) : q \notin HeldKeys(w)'
  <2> SUFFICES ASSUME NEW v \in Workers, v # w, NEW q \in HeldKeys(v), q \in HeldKeys(w)'
               PROVE  FALSE
    OBVIOUS
  <2>1. q \in HeldKeys(w) \/ KeyFree(q, Workers \ {w})
    OBVIOUS
  <2>2. HasLocks(w)
    BY DEF JournalInv, LockInv
  <2> QED
    BY <2>1, <2>2 DEF HasLocks, KeyFree
<1>3. ASSUME NEW v \in Workers PROVE (HasLocks(v) /\ SeenStays(v) /\ UntoldStays(v))'
  <2>1. CASE v = w
    <3>1. HasLocks(w)'
      <4> SUFFICES ASSUME NEW q \in HeldKeys(w)', NEW u \in Workers \ {w}
                   PROVE  q \notin HeldKeys(u)'
        BY DEF HasLocks, KeyFree
      <4> QED
        BY <1>1, <1>2
    <3> QED
      BY <2>1, <3>1
  <2>2. CASE v # w
    <3>1. HasLocks(v) /\ SeenStays(v) /\ UntoldStays(v) /\ worker'[v] = worker[v]
      BY <1>1, <2>2 DEF JournalInv, LockInv
    <3>2. HasLocks(v)'
      <4> SUFFICES ASSUME NEW q \in HeldKeys(v)', NEW u \in Workers \ {v}
                   PROVE  q \notin HeldKeys(u)'
        BY DEF HasLocks, KeyFree
      <4>1. q \in HeldKeys(v)
        BY <1>1, <2>2
      <4>2. CASE u = w
        BY <1>2, <2>2, <4>1, <4>2
      <4>3. CASE u # w
        BY <1>1, <3>1, <4>1, <4>3 DEF HasLocks, KeyFree
      <4> QED
        BY <4>2, <4>3
    <3> QED
      BY <3>1, <3>2 DEF SeenStays, UntoldStays, KeyOf, Of
  <2> QED
    BY <2>1, <2>2
<1> QED
  BY <1>3 DEF JournalInv, LockInv, JournalTellsStatus

\* What a worker has read and written stays while what it holds does.
LEMMA ReadStays ==
  ASSUME JournalInv, TypeInv, NEW v \in Workers, worker'[v] = worker[v],
         \A q \in HeldKeys(v) : finding'[q] = finding[q]
  PROVE  SeenStays(v)' /\ UntoldStays(v)'
<1>1. SeenStays(v) /\ UntoldStays(v)
  BY DEF JournalInv, LockInv
<1>2. SeenStays(v)'
  <2> SUFFICES ASSUME worker[v].at = "write", worker[v].seen # "none"
               PROVE  finding'[KeyOf(v, Min(worker[v].left))] = worker[v].seen
    BY DEF SeenStays, KeyOf
  <2>1. KeyOf(v, Min(worker[v].left)) \in HeldKeys(v)
    BY HeldOf DEF Holds
  <2> QED
    BY <1>1, <2>1 DEF SeenStays
<1>3. UntoldStays(v)'
  <2> SUFFICES ASSUME NEW e \in worker[v].wrote, ~e.told
               PROVE  finding'[Of(v, e)] = e.to
    BY DEF UntoldStays, Of, KeyOf
  <2>1. Holds(v)
    BY DEF TypeInv, WorkerOK, Holds
  <2>2. Of(v, e) \in HeldKeys(v)
    BY <2>1, HeldOf
  <2> QED
    BY <1>1, <2>2 DEF UntoldStays
<1> QED
  BY <1>2, <1>3

\* The findings change, but for those that a worker but w holds, together with
\* their journal; w holds nothing then.
LEMMA LocksRelease ==
  ASSUME JournalInv, TypeInv, NEW w \in Workers,
         \A v \in Workers : v # w => worker'[v] = worker[v],
         worker'[w].wrote = {}, worker'[w].seen = "none",
         \A v \in Workers : v # w => \A q \in HeldKeys(v) : finding'[q] = finding[q],
         JournalTellsStatus'
  PROVE  JournalInv'
<1>1. HeldKeys(w)' = {}
  BY HoldsNothing
<1>2. \A v \in Workers : v # w => worker'[v] = worker[v] /\ HeldKeys(v)' = HeldKeys(v)
  BY HeldStays
<1>3. ASSUME NEW v \in Workers PROVE (HasLocks(v) /\ SeenStays(v) /\ UntoldStays(v))'
  <2>1. CASE v = w
    BY <1>1, <2>1 DEF HasLocks, SeenStays, UntoldStays
  <2>2. CASE v # w
    <3>1. HasLocks(v) /\ SeenStays(v) /\ UntoldStays(v) /\ worker'[v] = worker[v]
      BY <1>2, <2>2 DEF JournalInv, LockInv
    <3>2. HasLocks(v)'
      BY <1>1, <1>2, <2>2, <3>1 DEF HasLocks, KeyFree
    <3>3. SeenStays(v)' /\ UntoldStays(v)'
      BY <2>2, <3>1, ReadStays
    <3> QED
      BY <3>2, <3>3
  <2> QED
    BY <2>1, <2>2
<1> QED
  BY <1>3 DEF JournalInv, LockInv

\* What a write without an event writes is the status the finding has.
LEMMA UntoldKeepStatus ==
  ASSUME JournalInv, TypeInv, NEW w \in Workers, worker[w].at = "write"
  PROVE  \A e \in AllWrites(w) : ~e.told => finding[Of(w, e)] = e.to
<1> SUFFICES ASSUME NEW e \in AllWrites(w), ~e.told PROVE finding[Of(w, e)] = e.to
  OBVIOUS
<1>1. CASE e \in worker[w].wrote
  BY <1>1 DEF JournalInv, LockInv, UntoldStays
<1>2. CASE e = NewWrite(w)
  <2>1. PICK k : k = KeyOf(w, Min(worker[w].left))
    OBVIOUS
  <2>2. Of(w, e) = k /\ e.to = foundAgain(finding[k])
    BY <1>2, <2>1, NewWriteType DEF Of
  <2>3. worker[w].seen # "none" /\ ~(worker[w].seen = "RESOLVED" /\ e.to = "OPEN")
    BY <1>2, NewWriteType
  <2>4. finding[k] = worker[w].seen
    BY <2>1, <2>3 DEF JournalInv, LockInv, SeenStays
  <2> QED
    BY <2>2, <2>3, <2>4 DEF foundAgain
<1> QED
  BY <1>1, <1>2 DEF AllWrites

\* What is written is what was held, and the finding at hand.
LEMMA WritesAreHeld ==
  ASSUME TypeInv, NEW w \in Workers, worker[w].at = "write"
  PROVE  \A e \in AllWrites(w) :
           Of(w, e) \in HeldKeys(w) \/ Of(w, e) = KeyOf(w, Min(worker[w].left))
<1> SUFFICES ASSUME NEW e \in AllWrites(w)
             PROVE  Of(w, e) \in HeldKeys(w) \/ Of(w, e) = KeyOf(w, Min(worker[w].left))
  OBVIOUS
<1>1. CASE e \in worker[w].wrote
  BY <1>1, HeldOf DEF Holds
<1>2. CASE e = NewWrite(w)
  BY <1>2, NewWriteType DEF Of
<1> QED
  BY <1>1, <1>2 DEF AllWrites

\* A write of a page keeps the locks, and its commit the journal.
LEMMA JournalWrite ==
  ASSUME JournalInv, TypeInv, NEW w \in Workers, writeFinding(w)
  PROVE  JournalInv'
<1>1. PICK k : k = KeyOf(w, Min(worker[w].left))
  OBVIOUS
<1>2. /\ worker[w].at = "write" /\ Only(w, worker'[w]) /\ KeyFree(k, Workers \ {w})
      /\ SamePage(worker'[w], worker[w]) /\ worker'[w].seen = "none"
  BY <1>1, WriteFacts
<1>3. \A e \in AllWrites(w) : ~e.told => finding[Of(w, e)] = e.to
  BY <1>2, UntoldKeepStatus
<1>4. \A e \in AllWrites(w) : Of(w, e) \in HeldKeys(w) \/ Of(w, e) = k
  BY <1>1, <1>2, WritesAreHeld
<1>5. \A e : Of(w, e)' = Of(w, e)
  BY <1>2 DEF Of, KeyOf, SamePage
<1>6. CASE /\ worker'[w].at = "look" /\ worker'[w].wrote = AllWrites(w)
           /\ UNCHANGED <<finding, journal, history>>
  <2>1. \A q \in HeldKeys(w)' : q = k \/ q \in HeldKeys(w)
    <3> SUFFICES ASSUME NEW q, q \in HeldKeys(w)' PROVE q = k \/ q \in HeldKeys(w)
      OBVIOUS
    <3>1. \E e \in worker'[w].wrote : Of(w, e)' = q
      BY <1>6 DEF HeldKeys, Holds, Of
    <3> QED
      BY <1>4, <1>5, <1>6, <3>1
  <2>2. SeenStays(w)' /\ UntoldStays(w)'
    BY <1>3, <1>5, <1>6 DEF SeenStays, UntoldStays
  <2> QED
    BY <1>2, <1>6, <2>1, <2>2, LocksGrow
<1>7. CASE /\ worker'[w].at = "renew" /\ worker'[w].wrote = {}
           /\ \A q \in Keys :
                /\ finding'[q] = IF \E e \in AllWrites(w) : Of(w, e) = q
                                 THEN Committed(w, q) ELSE finding[q]
                /\ journal'[q] = IF \E e \in AllWrites(w) : Of(w, e) = q /\ e.told
                                 THEN Committed(w, q) ELSE journal[q]
  <2>1. JournalTellsStatus'
    <3> SUFFICES ASSUME NEW q \in Keys PROVE journal'[q] = finding'[q]
      BY DEF JournalTellsStatus
    <3>1. journal[q] = finding[q]
      BY DEF JournalInv, JournalTellsStatus
    <3>2. CASE \E e \in AllWrites(w) : Of(w, e) = q /\ e.told
      BY <1>7, <3>2
    <3>3. CASE \A e \in AllWrites(w) : Of(w, e) # q
      BY <1>7, <3>1, <3>3
    <3>4. CASE /\ \E e \in AllWrites(w) : Of(w, e) = q
               /\ \A e \in AllWrites(w) : Of(w, e) = q => ~e.told
      <4>1. PICK d : d = CHOOSE e \in AllWrites(w) : Of(w, e) = q
        OBVIOUS
      <4>2. d \in AllWrites(w) /\ Of(w, d) = q
        BY <3>4, <4>1
      <4>3. finding[q] = d.to
        BY <1>3, <3>4, <4>2
      <4>4. finding'[q] = d.to /\ journal'[q] = journal[q]
        BY <1>7, <3>4, <4>1 DEF Committed
      <4> QED
        BY <3>1, <4>3, <4>4
    <3> QED
      BY <3>2, <3>3, <3>4
  <2>2. ASSUME NEW v \in Workers, v # w, NEW q \in HeldKeys(v) PROVE finding'[q] = finding[q]
    <3>1. \A e \in AllWrites(w) : Of(w, e) # q
      <4> SUFFICES ASSUME NEW e \in AllWrites(w), Of(w, e) = q PROVE FALSE
        OBVIOUS
      <4>1. HasLocks(w)
        BY DEF JournalInv, LockInv
      <4> QED
        BY <1>2, <1>4, <2>2, <4>1 DEF HasLocks, KeyFree
    <3>2. q \in Keys
      <4>1. Holds(v)
        BY <2>2, HeldOf
      <4>2. worker[v].index \in Detectors /\ worker[v] \in Worker
        BY <4>1, WorkerOf DEF Holds, InPage
      <4>3. \/ \E e \in worker[v].wrote : Of(v, e) = q
            \/ worker[v].at = "write" /\ q = KeyOf(v, Min(worker[v].left))
        BY <2>2, HeldOf
      <4>4. CASE \E e \in worker[v].wrote : Of(v, e) = q
        BY <4>2, <4>4, WorkerFields DEF Of, KeyOf, Keys
      <4>5. CASE worker[v].at = "write" /\ q = KeyOf(v, Min(worker[v].left))
        BY <4>5, NewWriteType
      <4> QED
        BY <4>3, <4>4, <4>5
    <3> QED
      BY <1>7, <3>1, <3>2
  <2>3. \A v \in Workers : v # w => worker'[v] = worker[v]
    BY <1>2 DEF Only
  <2> QED
    BY <1>2, <1>7, <2>1, <2>2, <2>3, LocksRelease
<1> QED
  BY <1>6, <1>7, WriteFacts

LEMMA JournalLook ==
  ASSUME JournalInv, TypeInv, NEW w \in Workers, lookFinding(w)
  PROVE  JournalInv'
<1>1. PICK k : k = KeyOf(w, Min(worker[w].left))
  OBVIOUS
<1>2. /\ worker[w].at = "look" /\ Only(w, worker'[w]) /\ worker'[w].at = "write"
      /\ SamePage(worker'[w], worker[w]) /\ worker'[w].left = worker[w].left
      /\ worker'[w].wrote = worker[w].wrote /\ worker'[w].seen = finding[k]
      /\ worker'[w].seen # "none" => KeyFree(k, Workers \ {w})
  BY <1>1, LookFacts
<1>3. UNCHANGED <<finding, journal>>
  BY DEF lookFinding, rows
<1>4. k = KeyOf(w, Min(worker[w].left))' /\ \A e : Of(w, e)' = Of(w, e)
  BY <1>1, <1>2 DEF KeyOf, Of, SamePage
<1>5. SeenStays(w)' /\ UntoldStays(w)'
  BY <1>2, <1>3, <1>4 DEF SeenStays, UntoldStays, JournalInv, LockInv
<1>6. \A q \in HeldKeys(w)' : q \in HeldKeys(w) \/ (q = k /\ worker'[w].seen # "none")
  <2> SUFFICES ASSUME NEW q, q \in HeldKeys(w)'
               PROVE  q \in HeldKeys(w) \/ (q = k /\ worker'[w].seen # "none")
    OBVIOUS
  <2>1. \/ \E e \in worker'[w].wrote : Of(w, e)' = q
        \/ worker'[w].seen # "none" /\ q = KeyOf(w, Min(worker[w].left))'
    BY DEF HeldKeys, Of
  <2> QED
    BY <1>2, <1>4, <2>1, HeldOf DEF Holds
<1> QED
  BY <1>2, <1>3, <1>5, <1>6, LocksGrow

\* A verdict is on a finding that nobody holds.
LEMMA JournalVerdict ==
  ASSUME JournalInv, TypeInv, NEW k \in Keys, NEW status \in Verdicts,
         transitionAssuranceFindingStatus(k, status)
  PROVE  JournalInv'
<1>1. /\ KeyFree(k, Workers) /\ UNCHANGED worker
      /\ finding'[k] = status /\ journal'[k] = status
      /\ \A q \in Keys : q # k => finding'[q] = finding[q] /\ journal'[q] = journal[q]
  BY VerdictFacts
<1>2. JournalTellsStatus'
  BY <1>1 DEF JournalInv, JournalTellsStatus
<1>3. ASSUME NEW v \in Workers PROVE (HasLocks(v) /\ SeenStays(v) /\ UntoldStays(v))'
  <2>1. \A q \in HeldKeys(v) : finding'[q] = finding[q]
    BY <1>1 DEF KeyFree, transitionAssuranceFindingStatus, TypeInv, TypeOK
  <2>2. SeenStays(v)' /\ UntoldStays(v)'
    BY <1>1, <2>1, ReadStays
  <2>3. HasLocks(v)'
    BY <1>1 DEF JournalInv, LockInv, HasLocks, KeyFree, HeldKeys, Holds, KeyOf
  <2> QED
    BY <2>2, <2>3
<1> QED
  BY <1>2, <1>3 DEF JournalInv, LockInv

\* A step keeps the journal.
LEMMA JournalNext ==
  ASSUME JournalInv, TypeInv, [Next]_vars
  PROVE  JournalInv'
<1>1. CASE UNCHANGED vars
  BY <1>1, LocksStay DEF vars, rows
<1>2. TypeInv'
  BY TypesNext
<1>3. ASSUME NEW w \in Workers, Only(w, worker'[w]), UNCHANGED <<finding, journal>>,
             worker'[w].at \notin {"look", "write"}
      PROVE  JournalInv'
  BY <1>2, <1>3, OutsideIsEmpty, LocksEnd, SMTT(30)
<1>4. ASSUME NEW w \in Workers, claimNextAssuranceRun(w) PROVE JournalInv'
  BY <1>3, <1>4, ClaimFacts DEF claimNextAssuranceRun
<1>5. ASSUME NEW w \in Workers, collectDetectorFindings(w) PROVE JournalInv'
  BY <1>3, <1>5, ScanFacts DEF collectDetectorFindings, rows
<1>6. ASSUME NEW w \in Workers, beginAppend(w) PROVE JournalInv'
  BY <1>6, BeginFacts, LocksEnd, ZenonT(60) DEF beginAppend, rows
<1>7. ASSUME NEW w \in Workers, renewAssuranceRunLease(w) PROVE JournalInv'
  BY <1>3, <1>7, RenewFacts DEF renewAssuranceRunLease
<1>8. ASSUME NEW w \in Workers, completeAssuranceRun(w) PROVE JournalInv'
  BY <1>3, <1>8, CompleteFacts, ZenonT(60) DEF completeAssuranceRun
<1>9. ASSUME NEW w \in Workers, failAssuranceRun(w) PROVE JournalInv'
  BY <1>3, <1>9, FailFacts DEF failAssuranceRun
<1>10. ASSUME NEW w \in Workers, Crash(w) PROVE JournalInv'
  BY <1>3, <1>10, CrashFacts DEF Crash, rows
<1>11. ASSUME NEW w \in Workers, NEW moved \in BOOLEAN, StepFails(w, moved) PROVE JournalInv'
  BY <1>3, <1>11, StepFailsFacts DEF StepFails, rows
<1>12. \A r \in Runs : submitAssuranceRun(r) \/ cancelAssuranceRun(r) \/ LeaseLapses(r)
                       \/ BackoffElapses(r) => UNCHANGED <<worker, finding, journal>>
  BY DEF submitAssuranceRun, cancelAssuranceRun, LeaseLapses, BackoffElapses
<1>13. \A d \in Detectors, x \in Targets : WorldChanges(d, x) => UNCHANGED <<worker, finding, journal>>
  BY DEF WorldChanges, rows
<1> QED
  BY <1>1, <1>4, <1>5, <1>6, <1>7, <1>8, <1>9, <1>10, <1>11, <1>12, <1>13, LocksStay,
     JournalLook, JournalWrite, JournalVerdict DEF Next, WorkerStep

\* The findings and their journal agree: the last event of every finding tells its
\* status, whichever runs found it at the same time and whatever operators judged.
THEOREM JournalsTellStatus == Spec => []FindingsAgree
<1>1. Init => TypeInv /\ JournalInv
  BY InitFacts, IdleIsWorker
     DEF JournalInv, LockInv, HasLocks, SeenStays, UntoldStays, JournalTellsStatus, HeldKeys, Holds
<1>2. TypeInv /\ JournalInv /\ [Next]_vars => (TypeInv /\ JournalInv)'
  BY TypesNext, JournalNext
<1>3. TypeInv /\ JournalInv => FindingsAgree
  BY DEF TypeInv, JournalInv, FindingsAgree
<1> QED
  BY <1>1, <1>2, <1>3, PTL DEF Spec

-----------------------------------------------------------------------------
(* What a run keeps.                                                         *)

Active(r) == run[r].status \in {"PENDING", "RUNNING"}

\* What the run still owes: wrong all the time, of a detector that had nothing put
\* right, and not kept.
Missing(r) == {k \in history[r].steady \ history[r].kept : k[1] \notin history[r].shifted}

\* A cursor has not passed k.
Ahead(k, i, p) == k[1] > i \/ (k[1] = i /\ Rank(k[2], wrong[k[1]]) >= p * PageSize)

RunAhead(r) == Active(r) => \A k \in Missing(r) : Ahead(k, run[r].index, run[r].page)

SteadyIsWrong(r) == Active(r) => \A k \in history[r].steady : k[2] \in wrong[k[1]]

\* A worker has k in its page, or has written it, or will come to it on a later one.
InHand(w, k) ==
  \/ k[2] \in worker[w].left
  \/ \E e \in worker[w].wrote : e.target = k[2]
  \/ worker[w].full /\ Rank(k[2], wrong[k[1]]) >= (worker[w].page + 1) * PageSize

\* The latest worker of a run has what the run owes of its detector in hand, and
\* if it fails the run its cursor has not passed any of it.
WorkerAhead(w) ==
  worker[w].at # "idle" /\ Active(worker[w].run) /\ Latest(w) =>
    \A k \in Missing(worker[w].run) :
      /\ worker[w].at \in InPage \cup {"renew"} /\ k[1] = worker[w].index => InHand(w, k)
      /\ worker[w].at = "fail" => Ahead(k, worker[w].index, worker[w].page)

KeptInv ==
  /\ \A r \in Runs : RunAhead(r) /\ SteadyIsWrong(r)
  /\ \A w \in Workers : WorkerAhead(w)
  /\ CompletedKeptAll

\* A step takes nothing from what a run has kept or owes, and what it owes does
\* not come earlier.
GoesOn(r) ==
  /\ run'[r].status \in {"PENDING", "RUNNING", "COMPLETED"} => \A k \in Missing(r)' : k \in Missing(r)
  /\ Active(r)' =>
       /\ Active(r)
       /\ \A k \in Missing(r)' : wrong[k[1]] \subseteq wrong'[k[1]]
       /\ \A k \in history'[r].steady : k \in history[r].steady /\
            (k[2] \in wrong[k[1]] => k[2] \in wrong'[k[1]])

LEMMA MissingType ==
  ASSUME TypeInv, NEW r \in Runs, NEW k \in Missing(r)
  PROVE  /\ k \in Keys /\ k[1] \in Detectors /\ k[2] \in Targets /\ k = <<k[1], k[2]>>
         /\ wrong[k[1]] \in SUBSET Targets /\ Rank(k[2], wrong[k[1]]) \in Nat
         /\ k \in history[r].steady /\ k \notin history[r].kept /\ k[1] \notin history[r].shifted
<1>1. history[r] \in History
  BY DEF TypeInv, TypeOK
<1>2. k \in history[r].steady /\ k \notin history[r].kept /\ k[1] \notin history[r].shifted
  BY DEF Missing
<1>3. k \in Keys
  BY <1>1, <1>2 DEF History
<1>4. k[1] \in Detectors /\ k[2] \in Targets /\ k = <<k[1], k[2]>>
  BY <1>3 DEF Keys
<1>5. wrong[k[1]] \in SUBSET Targets
  BY <1>4 DEF TypeInv, TypeOK
<1> QED
  BY <1>2, <1>3, <1>4, <1>5, RankType

\* What is ahead stays ahead while its detector finds no less.
LEMMA AheadStays ==
  ASSUME TypeInv, TypeInv', NEW k \in Keys, wrong[k[1]] \subseteq wrong'[k[1]],
         NEW i, NEW p \in Nat
  PROVE  /\ Ahead(k, i, p) => Ahead(k, i, p)'
         /\ Rank(k[2], wrong[k[1]]) >= p * PageSize => Rank(k[2], wrong'[k[1]]) >= p * PageSize
<1>1. k[1] \in Detectors /\ k[2] \in Targets
  BY DEF Keys
<1>2. wrong[k[1]] \in SUBSET Targets /\ wrong'[k[1]] \in SUBSET Targets
  BY <1>1 DEF TypeInv, TypeOK
<1>3. Rank(k[2], wrong[k[1]]) <= Rank(k[2], wrong'[k[1]])
  BY <1>1, <1>2, RankGrows
<1>4. Rank(k[2], wrong[k[1]]) \in Nat /\ Rank(k[2], wrong'[k[1]]) \in Nat /\ p * PageSize \in Nat
  BY <1>1, <1>2, RankType, PageRanksSize
<1>5. Rank(k[2], wrong[k[1]]) >= p * PageSize => Rank(k[2], wrong'[k[1]]) >= p * PageSize
  <2> PICK n \in Nat : n = p * PageSize
    BY <1>4
  <2> QED
    BY <1>3, <1>4
<1> QED
  BY <1>5 DEF Ahead

\* A worker that stays, of a run that goes on.
LEMMA WorkerAheadStays ==
  ASSUME TypeInv, TypeInv', NEW v \in Workers, WorkerAhead(v), worker'[v] = worker[v],
         worker[v].at # "idle" /\ Latest(v)' => Latest(v) /\ GoesOn(worker[v].run)
  PROVE  WorkerAhead(v)'
<1> PICK r : r = worker[v].run
  OBVIOUS
<1> SUFFICES ASSUME worker[v].at # "idle", Active(r)', Latest(v)', NEW k, k \in Missing(r)'
             PROVE  /\ worker[v].at \in InPage \cup {"renew"} /\ k[1] = worker[v].index => InHand(v, k)'
                    /\ worker[v].at = "fail" => Ahead(k, worker[v].index, worker[v].page)'
  BY DEF WorkerAhead
<1>1. r \in Runs /\ worker[v].page \in Nat /\ worker[v].page + 1 \in Nat
  BY WorkerOf, WorkerFields
<1>2. k \in Missing(r) /\ Active(r) /\ Latest(v) /\ wrong[k[1]] \subseteq wrong'[k[1]]
  BY DEF GoesOn, Active
<1>3. k \in Keys
  BY <1>1, <1>2, MissingType
<1>4. /\ worker[v].at \in InPage \cup {"renew"} /\ k[1] = worker[v].index => InHand(v, k)
      /\ worker[v].at = "fail" => Ahead(k, worker[v].index, worker[v].page)
  BY <1>2 DEF WorkerAhead
<1>5. Rank(k[2], wrong[k[1]]) >= (worker[v].page + 1) * PageSize
        => Rank(k[2], wrong'[k[1]]) >= (worker[v].page + 1) * PageSize
  BY <1>1, <1>2, <1>3, AheadStays
<1>6. Ahead(k, worker[v].index, worker[v].page) => Ahead(k, worker[v].index, worker[v].page)'
  BY <1>1, <1>2, <1>3, AheadStays
<1>7. InHand(v, k) => InHand(v, k)'
  BY <1>5 DEF InHand
<1> QED
  BY <1>4, <1>6, <1>7

LEMMA RunAheadStays ==
  ASSUME TypeInv, TypeInv', NEW r \in Runs, RunAhead(r), SteadyIsWrong(r), GoesOn(r)
  PROVE  /\ SteadyIsWrong(r)'
         /\ SameCursor(run'[r], run[r]) => RunAhead(r)'
<1>1. SteadyIsWrong(r)'
  BY DEF SteadyIsWrong, GoesOn
<1>2. ASSUME SameCursor(run'[r], run[r]), Active(r)', NEW k, k \in Missing(r)'
      PROVE  Ahead(k, run[r].index, run[r].page)'
  <2>1. k \in Missing(r) /\ Active(r) /\ wrong[k[1]] \subseteq wrong'[k[1]]
    BY <1>2 DEF GoesOn, Active
  <2>2. k \in Keys
    BY <2>1, MissingType
  <2>3. PICK i : i = run[r].index
    OBVIOUS
  <2>4. PICK p \in Nat : p = run[r].page
    BY RunFields DEF TypeInv, TypeOK
  <2>5. Ahead(k, i, p)
    BY <2>1, <2>3, <2>4 DEF RunAhead
  <2>6. Ahead(k, i, p)'
    BY <2>1, <2>2, <2>4, <2>5, AheadStays
  <2>7. run'[r].index = i /\ run'[r].page = p
    BY <1>2, <2>3, <2>4 DEF SameCursor
  <2> QED
    BY <2>6, <2>7 DEF Ahead
<1> QED
  BY <1>1, <1>2 DEF RunAhead

\* A step that moves at most one worker, w.
LEMMA KeptMoves ==
  ASSUME KeptInv, TypeInv, TypeInv', NEW w,
         \A v \in Workers : v # w => worker'[v] = worker[v],
         \A v \in Workers : v # w /\ worker[v].at # "idle" /\ Latest(v)' =>
           Latest(v) /\ GoesOn(worker[v].run),
         w \in Workers => WorkerAhead(w)',
         \A q \in Runs : (GoesOn(q) /\ SameCursor(run'[q], run[q])) \/ RunAhead(q)',
         \A q \in Runs : GoesOn(q) \/ SteadyIsWrong(q)',
         \A q \in Runs : run'[q].status = "COMPLETED" =>
           GoesOn(q) /\ (run[q].status = "COMPLETED" \/ Missing(q) = {})
  PROVE  KeptInv'
<1>1. \A q \in Runs : RunAhead(q)' /\ SteadyIsWrong(q)'
  BY RunAheadStays DEF KeptInv
<1>2. \A v \in Workers : WorkerAhead(v)'
  <2> TAKE v \in Workers
  <2>1. CASE v = w
    BY <2>1
  <2>2. CASE v # w
    BY <2>2, WorkerAheadStays DEF KeptInv
  <2> QED
    BY <2>1, <2>2
<1>3. CompletedKeptAll'
  <2> SUFFICES ASSUME NEW q \in Runs, run'[q].status = "COMPLETED",
                      NEW k \in history'[q].steady \ history'[q].kept,
                      k[1] \notin history'[q].shifted
               PROVE  FALSE
    BY DEF CompletedKeptAll
  <2>1. k \in Missing(q)'
    BY DEF Missing
  <2>2. k \in Missing(q)
    BY <2>1 DEF GoesOn
  <2>3. run[q].status = "COMPLETED"
    BY <2>2
  <2> QED
    BY <2>2, <2>3 DEF KeptInv, CompletedKeptAll, Missing
<1> QED
  BY <1>1, <1>2, <1>3 DEF KeptInv

\* Where neither what is wrong nor its history changes, a run goes on.
LEMMA SameHistory ==
  ASSUME NEW r \in Runs, history'[r] = history[r], UNCHANGED wrong
  PROVE  /\ Missing(r)' = Missing(r)
         /\ (Active(r)' => Active(r)) => GoesOn(r)
BY DEF Missing, GoesOn

LEMMA EndedGoesOn ==
  ASSUME NEW r \in Runs, run'[r].status \in {"none", "FAILED", "CANCELLED"}
  PROVE  GoesOn(r) /\ RunAhead(r)' /\ SteadyIsWrong(r)'
BY DEF GoesOn, RunAhead, SteadyIsWrong, Active

\* One worker moves, and nothing else does.
LEMMA KeptStill ==
  ASSUME KeptInv, TypeInv, TypeInv', NEW w \in Workers, Only(w, worker'[w]),
         UNCHANGED <<run, history, wrong>>, WorkerAhead(w)'
  PROVE  KeptInv'
<1>1. \A q \in Runs : GoesOn(q) /\ SameCursor(run'[q], run[q])
  BY SameHistory, RowsStay DEF Active
<1>2. \A v \in Workers : v # w => worker'[v] = worker[v]
  BY DEF Only
<1>3. \A v \in Workers : v # w /\ worker[v].at # "idle" /\ Latest(v)' =>
        Latest(v) /\ GoesOn(worker[v].run)
  BY <1>1, <1>2, WorkerOf DEF Latest
<1>4. \A q \in Runs : run'[q].status = "COMPLETED" => run[q].status = "COMPLETED"
  OBVIOUS
<1> QED
  BY <1>1, <1>2, <1>3, <1>4, KeptMoves

\* What is ahead of a run is ahead of its latest worker.
LEMMA LatestIsAhead ==
  ASSUME KeptInv, LeaseInv, TypeInv, NEW w \in Workers, worker[w].at \notin {"idle", "fail"},
         Active(worker[w].run), Latest(w), NEW k \in Missing(worker[w].run)
  PROVE  /\ Ahead(k, worker[w].index, worker[w].page)
         /\ k[2] \in wrong[k[1]]
<1>1. PICK r \in Runs : r = worker[w].run
  BY WorkerOf
<1>2. worker[w].index = run[r].index /\ worker[w].page = run[r].page
  BY <1>1 DEF LeaseInv, LeaseOf, SameCursor
<1>3. Ahead(k, run[r].index, run[r].page)
  BY <1>1 DEF KeptInv, RunAhead
<1>4. k \in history[r].steady
  BY <1>1, MissingType
<1>5. k[2] \in wrong[k[1]]
  BY <1>1, <1>4 DEF KeptInv, SteadyIsWrong
<1> QED
  BY <1>2, <1>3, <1>5

\* and of the next cursor, when its page is kept.
LEMMA NextIsAhead ==
  ASSUME KeptInv, LeaseInv, TypeInv, NEW w \in Workers, worker[w].at = "renew",
         Active(worker[w].run), Latest(w), NEW k \in Missing(worker[w].run)
  PROVE  Ahead(k, nextCursor(w)[1], nextCursor(w)[2])
<1>1. PICK r \in Runs : r = worker[w].run
  BY WorkerOf
<1>2. /\ k[1] \in Detectors /\ Rank(k[2], wrong[k[1]]) \in Nat
  BY <1>1, MissingType
<1>3. Ahead(k, worker[w].index, worker[w].page)
  BY LatestIsAhead
<1>4. worker[w].left = {} /\ worker[w].wrote = {} /\ worker[w].index \in Detectors
      /\ worker[w].page \in Nat
  BY WorkerOf, WorkerFields DEF WorkerOK, InPage
<1>5. k[1] = worker[w].index =>
        worker[w].full /\ Rank(k[2], wrong[k[1]]) >= (worker[w].page + 1) * PageSize
  BY <1>4 DEF KeptInv, WorkerAhead, InHand
<1>6. k[1] >= worker[w].index
  BY <1>2, <1>3, <1>4 DEF Ahead, Detectors
<1>7. CASE /\ worker[w].full
           /\ nextCursor(w)[1] = worker[w].index /\ nextCursor(w)[2] = worker[w].page + 1
  BY <1>2, <1>4, <1>5, <1>6, <1>7 DEF Ahead, Detectors
<1>8. CASE /\ ~worker[w].full
           /\ nextCursor(w)[1] = worker[w].index + 1 /\ nextCursor(w)[2] = 0
  <2>1. k[1] >= worker[w].index + 1
    BY <1>2, <1>4, <1>5, <1>6, <1>8 DEF Detectors
  <2>2. 0 * PageSize = 0
    BY ConstantTypes
  <2>3. k[1] > worker[w].index + 1 \/ k[1] = worker[w].index + 1
    BY <1>2, <1>4, <2>1 DEF Detectors
  <2> QED
    BY <1>2, <1>8, <2>2, <2>3 DEF Ahead
<1> QED
  BY <1>7, <1>8, NextCursorType

\* A scan takes what comes next.
LEMMA KeptScan ==
  ASSUME KeptInv, LeaseInv, TypeInv, TypeInv', NEW w \in Workers, collectDetectorFindings(w)
  PROVE  KeptInv'
<1>1. UNCHANGED <<run, history, wrong>>
  BY DEF collectDetectorFindings, rows
<1>2. PICK xs : xs = wrong[worker[w].index]
  OBVIOUS
<1>3. PICK p \in Nat : p = worker[w].page
  BY WorkerOf, WorkerFields
<1>4. /\ worker[w].at = "scan" /\ Only(w, worker'[w])
      /\ worker'[w].at \in {"begin", "renew"} /\ SamePage(worker'[w], worker[w])
      /\ worker'[w].left = PageOf(xs, p)
      /\ worker'[w].full <=> Cardinality(PageOf(xs, p)) = PageSize
  BY <1>2, <1>3, ScanFacts
<1>5. WorkerAhead(w)'
  <2> SUFFICES ASSUME Active(worker[w].run), Latest(w), NEW k \in Missing(worker[w].run),
                      k[1] = worker[w].index
               PROVE  InHand(w, k)'
    BY <1>1, <1>4 DEF WorkerAhead, Active, Latest, Missing, SamePage, SameLease
  <2>1. Ahead(k, worker[w].index, p) /\ k[2] \in xs
    BY <1>2, <1>3, <1>4, LatestIsAhead
  <2>2. xs \in SUBSET Targets /\ Rank(k[2], xs) \in Nat /\ k[1] \in Detectors
    BY <1>2, <1>4, WorkerOf, MissingType
  <2>3. Rank(k[2], xs) >= p * PageSize
    BY <1>2, <2>1, <2>2 DEF Ahead, Detectors
  <2>4. CASE Rank(k[2], xs) >= (p + 1) * PageSize
    <3>1. Cardinality(PageOf(xs, p)) = PageSize
      BY <2>1, <2>2, <2>4, PageBeforeIsFull
    <3> QED
      BY <1>1, <1>2, <1>3, <1>4, <2>4, <3>1 DEF InHand, SamePage
  <2>5. CASE ~(Rank(k[2], xs) >= (p + 1) * PageSize)
    <3> DEFINE a == p * PageSize
               b == (p + 1) * PageSize
    <3>1. a \in Nat /\ b \in Nat /\ Rank(k[2], xs) >= a /\ ~(Rank(k[2], xs) >= b)
      BY <2>3, <2>5, PageRanksSize
    <3> HIDE DEF a, b
    <3>2. Rank(k[2], xs) \in a .. b - 1
      BY <2>2, <3>1
    <3>3. Rank(k[2], xs) \in PageRanks(p)
      BY <3>2 DEF PageRanks, a, b
    <3>4. k[2] \in PageOf(xs, p)
      BY <2>1, <2>2, <3>3, PageIsInjected, ZenonT(60)
    <3> QED
      BY <1>4, <3>4 DEF InHand
  <2> QED
    BY <2>4, <2>5
<1> QED
  BY <1>1, <1>4, <1>5, KeptStill

LEMMA KeptBegin ==
  ASSUME KeptInv, LeaseInv, TypeInv, TypeInv', NEW w \in Workers, beginAppend(w)
  PROVE  KeptInv'
<1>1. UNCHANGED <<run, history, wrong>>
  BY DEF beginAppend, rows
<1>2. /\ worker[w].at = "begin" /\ Only(w, worker'[w]) /\ SamePage(worker'[w], worker[w])
      /\ worker'[w].wrote = {}
      /\ \/ /\ worker'[w].at = "look"
            /\ worker'[w].left = worker[w].left /\ worker'[w].full = worker[w].full
         \/ worker'[w].at = "fail"
  BY BeginFacts
<1>3. worker[w].wrote = {}
  BY <1>2, WorkerOf DEF WorkerOK
<1>4. WorkerAhead(w)'
  <2> SUFFICES ASSUME Active(worker[w].run), Latest(w), NEW k \in Missing(worker[w].run)
               PROVE  /\ worker'[w].at = "look" /\ k[1] = worker[w].index => InHand(w, k)'
                      /\ worker'[w].at = "fail" => Ahead(k, worker[w].index, worker[w].page)
    BY <1>1, <1>2 DEF WorkerAhead, Active, Latest, Missing, SamePage, SameLease, Ahead, InPage
  <2>1. k[1] = worker[w].index => InHand(w, k)
    BY <1>2 DEF KeptInv, WorkerAhead, InPage
  <2>2. Ahead(k, worker[w].index, worker[w].page)
    BY <1>2, LatestIsAhead
  <2> QED
    BY <1>1, <1>2, <1>3, <2>1, <2>2 DEF InHand, SamePage
<1> QED
  BY <1>1, <1>2, <1>4, KeptStill

LEMMA KeptLook ==
  ASSUME KeptInv, LeaseInv, TypeInv, TypeInv', NEW w \in Workers, lookFinding(w)
  PROVE  KeptInv'
<1>1. UNCHANGED <<run, history, wrong>>
  BY DEF lookFinding, rows
<1>2. /\ worker[w].at = "look" /\ Only(w, worker'[w]) /\ worker'[w].at = "write"
      /\ SamePage(worker'[w], worker[w]) /\ worker'[w].wrote = worker[w].wrote
      /\ worker'[w].left = worker[w].left /\ worker'[w].full = worker[w].full
  BY LookFacts
<1>3. WorkerAhead(w)'
  <2> SUFFICES ASSUME Active(worker[w].run), Latest(w), NEW k \in Missing(worker[w].run),
                      k[1] = worker[w].index
               PROVE  InHand(w, k)'
    BY <1>1, <1>2 DEF WorkerAhead, Active, Latest, Missing, SamePage, SameLease
  <2>1. InHand(w, k)
    BY <1>2 DEF KeptInv, WorkerAhead, InPage
  <2> QED
    BY <1>1, <1>2, <2>1 DEF InHand, SamePage
<1> QED
  BY <1>1, <1>2, <1>3, KeptStill

\* What leaves the page was written, and what was written is kept at the commit.
LEMMA KeptWrite ==
  ASSUME KeptInv, LeaseInv, TypeInv, TypeInv', NEW w \in Workers, writeFinding(w)
  PROVE  KeptInv'
<1>1. UNCHANGED <<run, wrong>>
  BY DEF writeFinding
<1>2. /\ worker[w].at = "write" /\ Only(w, worker'[w])
      /\ SamePage(worker'[w], worker[w]) /\ worker'[w].full = worker[w].full
      /\ worker'[w].left = worker[w].left \ {Min(worker[w].left)}
  BY WriteFacts
<1>3. NewWrite(w).target = Min(worker[w].left) /\ NewWrite(w) \in AllWrites(w)
  BY <1>2, NewWriteType DEF AllWrites
<1>4. PICK r \in Runs : r = worker[w].run
  BY <1>2, WorkerOf
<1>5. ASSUME Active(r), Latest(w), NEW k \in Missing(r), k[1] = worker[w].index
      PROVE  \/ k[2] \in worker'[w].left
             \/ \E e \in AllWrites(w) : e.target = k[2]
             \/ worker[w].full /\ Rank(k[2], wrong[k[1]]) >= (worker[w].page + 1) * PageSize
  <2>1. InHand(w, k)
    BY <1>2, <1>4, <1>5 DEF KeptInv, WorkerAhead, InPage
  <2>2. CASE k[2] \in worker[w].left
    BY <1>2, <1>3, <2>2
  <2> QED
    BY <2>1, <2>2 DEF InHand, AllWrites
<1>6. CASE worker'[w].at = "look" /\ worker'[w].wrote = AllWrites(w) /\ UNCHANGED history
  <2>1. WorkerAhead(w)'
    <3> SUFFICES ASSUME Active(r), Latest(w), NEW k \in Missing(r), k[1] = worker[w].index
                 PROVE  InHand(w, k)'
      BY <1>1, <1>2, <1>4, <1>6 DEF WorkerAhead, Active, Latest, Missing, SamePage, SameLease
    <3> QED
      BY <1>1, <1>2, <1>5, <1>6 DEF InHand, SamePage
  <2> QED
    BY <1>1, <1>2, <1>6, <2>1, KeptStill
<1>7. CASE /\ worker'[w].at = "renew" /\ worker'[w].wrote = {}
           /\ history'[r].steady = history[r].steady
           /\ history'[r].shifted = history[r].shifted
           /\ history'[r].kept = history[r].kept \cup {Of(w, e) : e \in AllWrites(w)}
           /\ \A q \in Runs : q # r => history'[q] = history[q]
  <2>1. \A k \in Missing(r)' : k \in Missing(r) /\ \A e \in AllWrites(w) : Of(w, e) # k
    BY <1>7 DEF Missing
  <2>2. \A q \in Runs : GoesOn(q)
    <3> TAKE q \in Runs
    <3>1. CASE q = r
      BY <1>1, <1>7, <2>1, <3>1 DEF GoesOn, Active
    <3>2. CASE q # r
      BY <1>1, <1>7, <3>2, SameHistory DEF Active
    <3> QED
      BY <3>1, <3>2
  <2>3. WorkerAhead(w)'
    <3> SUFFICES ASSUME Active(r), Latest(w), NEW k, k \in Missing(r)', k[1] = worker[w].index
                 PROVE  InHand(w, k)'
      BY <1>1, <1>2, <1>4, <1>7 DEF WorkerAhead, Active, Latest, SamePage, SameLease
    <3>1. k \in Missing(r) /\ \A e \in AllWrites(w) : Of(w, e) # k
      BY <2>1
    <3>2. k = <<k[1], k[2]>>
      BY <3>1, MissingType
    <3>3. \A e \in AllWrites(w) : e.target # k[2]
      BY <3>1, <3>2 DEF Of, KeyOf
    <3>4. worker'[w].left = {}
      BY <1>7 DEF TypeInv, WorkerOK, InPage
    <3> QED
      BY <1>1, <1>2, <1>5, <3>1, <3>3, <3>4 DEF InHand, SamePage
  <2>4. \A q \in Runs : SameCursor(run'[q], run[q])
    BY <1>1, RowsStay
  <2>5. \A v \in Workers : v # w => worker'[v] = worker[v]
    BY <1>2 DEF Only
  <2>6. \A v \in Workers : v # w /\ worker[v].at # "idle" /\ Latest(v)' =>
          Latest(v) /\ GoesOn(worker[v].run)
    BY <1>1, <2>2, <2>5, WorkerOf DEF Latest
  <2> QED
    BY <1>1, <2>2, <2>3, <2>4, <2>5, <2>6, KeptMoves
<1> QED
  BY <1>4, <1>6, <1>7, WriteFacts

\* Another worker's lease is not made the latest by a step that keeps the tokens.
LEMMA LatestStays ==
  ASSUME TypeInv, NEW v \in Workers, worker'[v] = worker[v], worker[v].at # "idle",
         \A q \in Runs : SameToken(run'[q], run[q])
  PROVE  Latest(v)' <=> Latest(v)
BY WorkerOf DEF Latest, SameToken

LEMMA KeptClaim ==
  ASSUME KeptInv, LeaseInv, TypeInv, TypeInv', NEW w \in Workers, claimNextAssuranceRun(w)
  PROVE  KeptInv'
<1>1. UNCHANGED <<history, wrong>>
  BY DEF claimNextAssuranceRun
<1>2. PICK r \in Runs : r = worker'[w].run
  BY ClaimFacts
<1>3. /\ Only(w, worker'[w]) /\ worker'[w].at \in {"complete", "scan"}
      /\ run[r].status \in {"PENDING", "RUNNING"} /\ OnlyRow(r, run'[r])
      /\ SameCursor(run'[r], run[r]) /\ run'[r].status = "RUNNING"
      /\ run'[r].token = run[r].token + 1
  BY <1>2, ClaimFacts
<1>4. \A q \in Runs : /\ SameCursor(run'[q], run[q])
                      /\ Active(q)' => Active(q)
                      /\ run'[q].status = "COMPLETED" => run[q].status = "COMPLETED"
  BY <1>3 DEF OnlyRow, Active, SameCursor
<1>5. \A q \in Runs : GoesOn(q)
  BY <1>1, <1>4, SameHistory
<1>6. \A v \in Workers : v # w => worker'[v] = worker[v]
  BY <1>3 DEF Only
<1>7. ASSUME NEW v \in Workers, v # w, worker[v].at # "idle", Latest(v)'
      PROVE  Latest(v) /\ GoesOn(worker[v].run)
  <2>1. worker[v].run \in Runs /\ worker[v].token <= run[worker[v].run].token
    BY <1>7, WorkerOf DEF LeaseInv, LeaseOf
  <2>2. worker[v].token \in Nat /\ run[worker[v].run].token \in Nat
    BY <2>1, WorkerOf, WorkerFields, RunFields DEF TypeInv, TypeOK
  <2>3. worker[v].token = run'[worker[v].run].token
    BY <1>6, <1>7 DEF Latest
  <2>4. worker[v].run # r
    BY <1>3, <2>1, <2>2, <2>3
  <2>5. run'[worker[v].run] = run[worker[v].run]
    BY <1>3, <2>1, <2>4 DEF OnlyRow
  <2> QED
    BY <1>5, <2>1, <2>3, <2>5 DEF Latest
<1>8. WorkerAhead(w)'
  BY <1>3 DEF WorkerAhead, InPage
<1> QED
  BY <1>4, <1>5, <1>6, <1>7, <1>8, KeptMoves

\* A worker that renews, or hands its run back, moves the cursor of its row.
LEMMA KeptRow ==
  ASSUME KeptInv, LeaseInv, TypeInv, TypeInv', NEW w \in Workers, NEW r \in Runs,
         Only(w, worker'[w]), WorkerAhead(w)', UNCHANGED wrong,
         \A q \in Runs : q # r => history'[q] = history[q],
         OnlyRow(r, run'[r]), SameToken(run'[r], run[r]),
         GoesOn(r),
         SameCursor(run'[r], run[r]) \/ RunAhead(r)',
         run'[r].status = "COMPLETED" => run[r].status = "COMPLETED" \/ Missing(r) = {}
  PROVE  KeptInv'
<1>1. ASSUME NEW q \in Runs, q # r
      PROVE  GoesOn(q) /\ SameCursor(run'[q], run[q]) /\ run'[q].status = run[q].status
  BY <1>1, SameHistory DEF OnlyRow, Active, SameCursor
<1>2. \A q \in Runs : SameToken(run'[q], run[q])
  BY RowsStay
<1>3. \A q \in Runs : GoesOn(q)
  BY <1>1
<1>4. \A v \in Workers : v # w => worker'[v] = worker[v]
  BY DEF Only
<1>5. \A v \in Workers : v # w /\ worker[v].at # "idle" /\ Latest(v)' =>
        Latest(v) /\ GoesOn(worker[v].run)
  BY <1>2, <1>3, <1>4, LatestStays, WorkerOf
<1>6. \A q \in Runs : (GoesOn(q) /\ SameCursor(run'[q], run[q])) \/ RunAhead(q)'
  BY <1>1, <1>3
<1>7. \A q \in Runs : run'[q].status = "COMPLETED" =>
        GoesOn(q) /\ (run[q].status = "COMPLETED" \/ Missing(q) = {})
  BY <1>1, <1>3
<1> QED
  BY <1>3, <1>4, <1>5, <1>6, <1>7, KeptMoves

LEMMA KeptRenew ==
  ASSUME KeptInv, LeaseInv, TypeInv, TypeInv', NEW w \in Workers, renewAssuranceRunLease(w)
  PROVE  KeptInv'
<1>1. UNCHANGED <<history, wrong>>
  BY DEF renewAssuranceRunLease
<1>2. worker[w].at = "renew" /\ Only(w, worker'[w])
  BY RenewFacts
<1>3. PICK r \in Runs : r = worker[w].run
  BY <1>2, WorkerOf
<1>4. CASE worker'[w].at = "idle" /\ UNCHANGED run
  BY <1>1, <1>2, <1>4, KeptStill DEF WorkerAhead
<1>5. CASE /\ Owns(w) /\ worker'[w].at \in {"complete", "scan"}
           /\ worker'[w].index = nextCursor(w)[1] /\ worker'[w].page = nextCursor(w)[2]
           /\ OnlyRow(r, run'[r]) /\ SameToken(run'[r], run[r])
           /\ run'[r].status = run[r].status /\ SameCursor(run'[r], worker'[w])
  <2>1. Latest(w) /\ Active(r)
    BY <1>3, <1>5, OwnerIsLatest DEF Owns, Active
  <2>2. Missing(r)' = Missing(r) /\ GoesOn(r)
    BY <1>1, <1>5, SameHistory DEF Active
  <2>3. RunAhead(r)'
    <3> SUFFICES ASSUME NEW k \in Missing(r) PROVE Ahead(k, run[r].index, run[r].page)'
      BY <2>2 DEF RunAhead
    <3>1. PICK i : i = nextCursor(w)[1]
      OBVIOUS
    <3>2. PICK p : p = nextCursor(w)[2]
      OBVIOUS
    <3>3. Ahead(k, i, p)
      BY <1>2, <1>3, <2>1, <3>1, <3>2, NextIsAhead
    <3>4. run'[r].index = i /\ run'[r].page = p
      BY <1>5, <3>1, <3>2 DEF SameCursor
    <3> QED
      BY <1>1, <3>3, <3>4 DEF Ahead
  <2>4. WorkerAhead(w)'
    BY <1>5 DEF WorkerAhead, InPage
  <2>5. run'[r].status = "COMPLETED" => run[r].status = "COMPLETED"
    BY <1>5
  <2> QED
    BY <1>1, <1>2, <1>5, <2>2, <2>3, <2>4, <2>5, KeptRow
<1> QED
  BY <1>3, <1>4, <1>5, RenewFacts

\* Behind the last detector a run owes nothing.
LEMMA KeptComplete ==
  ASSUME KeptInv, LeaseInv, TypeInv, TypeInv', NEW w \in Workers, completeAssuranceRun(w)
  PROVE  KeptInv'
<1>1. UNCHANGED <<history, wrong>>
  BY DEF completeAssuranceRun
<1>2. worker[w].at = "complete" /\ Only(w, worker'[w]) /\ worker'[w].at = "idle"
  BY CompleteFacts
<1>3. PICK r \in Runs : r = worker[w].run
  BY <1>2, WorkerOf
<1>4. WorkerAhead(w)'
  BY <1>2 DEF WorkerAhead
<1>5. CASE UNCHANGED run
  BY <1>1, <1>2, <1>4, <1>5, KeptStill
<1>6. CASE /\ Owns(w) /\ OnlyRow(r, run'[r]) /\ SameToken(run'[r], run[r])
           /\ SameCursor(run'[r], run[r]) /\ run'[r].status = "COMPLETED"
  <2>1. Latest(w) /\ Active(r)
    BY <1>3, <1>6, OwnerIsLatest DEF Owns, Active
  <2>2. ASSUME NEW k \in Missing(r) PROVE FALSE
    <3>1. Ahead(k, worker[w].index, worker[w].page)
      BY <1>2, <1>3, <2>1, LatestIsAhead
    <3>2. worker[w].index > LastDetector /\ worker[w].index \in Nat
      BY <1>2, WorkerOf, WorkerFields DEF WorkerOK
    <3>3. k[1] \in Detectors
      BY MissingType
    <3> QED
      BY <3>1, <3>2, <3>3, ConstantTypes DEF Ahead, Detectors
  <2>3. GoesOn(r)
    BY <1>1, <1>6, SameHistory DEF Active
  <2>4. Missing(r) = {}
    BY <2>2
  <2> QED
    BY <1>1, <1>2, <1>4, <1>6, <2>3, <2>4, KeptRow
<1> QED
  BY <1>3, <1>5, <1>6, CompleteFacts

LEMMA KeptFail ==
  ASSUME KeptInv, LeaseInv, TypeInv, TypeInv', NEW w \in Workers, failAssuranceRun(w)
  PROVE  KeptInv'
<1>1. UNCHANGED wrong
  BY DEF failAssuranceRun
<1>2. worker[w].at = "fail" /\ Only(w, worker'[w]) /\ worker'[w].at = "idle"
  BY FailFacts
<1>3. PICK r \in Runs : r = worker[w].run
  BY <1>2, WorkerOf
<1>4. WorkerAhead(w)'
  BY <1>2 DEF WorkerAhead
<1>5. CASE UNCHANGED <<run, history>>
  BY <1>1, <1>2, <1>4, <1>5, KeptStill
<1>6. CASE /\ Owns(w) /\ OnlyRow(r, run'[r]) /\ SameToken(run'[r], run[r])
           /\ SameCursor(run'[r], worker[w])
           /\ run'[r].status = "FAILED" \/ (run'[r].status = "PENDING" /\ history'[r] = history[r])
           /\ \A q \in Runs : q # r => history'[q] = history[q]
  <2>1. Latest(w) /\ Active(r)
    BY <1>3, <1>6, OwnerIsLatest DEF Owns, Active
  <2>2. CASE run'[r].status = "FAILED"
    <3>1. GoesOn(r) /\ RunAhead(r)'
      BY <2>2, EndedGoesOn
    <3>2. run'[r].status # "COMPLETED"
      BY <2>2
    <3> QED
      BY <1>1, <1>2, <1>4, <1>6, <3>1, <3>2, KeptRow
  <2>3. CASE run'[r].status = "PENDING" /\ history'[r] = history[r]
    <3>1. Missing(r)' = Missing(r) /\ GoesOn(r)
      BY <1>1, <2>1, <2>3, SameHistory
    <3>2. RunAhead(r)'
      <4> SUFFICES ASSUME NEW k \in Missing(r) PROVE Ahead(k, run[r].index, run[r].page)'
        BY <3>1 DEF RunAhead
      <4>1. PICK i : i = worker[w].index
        OBVIOUS
      <4>2. PICK p : p = worker[w].page
        OBVIOUS
      <4>3. Ahead(k, i, p)
        BY <1>2, <1>3, <2>1, <4>1, <4>2 DEF KeptInv, WorkerAhead
      <4>4. run'[r].index = i /\ run'[r].page = p
        BY <1>6, <4>1, <4>2 DEF SameCursor
      <4> QED
        BY <1>1, <4>3, <4>4 DEF Ahead
    <3>3. run'[r].status # "COMPLETED"
      BY <2>3
    <3> QED
      BY <1>1, <1>2, <1>4, <1>6, <3>1, <3>2, <3>3, KeptRow
  <2> QED
    BY <1>6, <2>2, <2>3
<1> QED
  BY <1>3, <1>5, <1>6, FailFacts

LEMMA KeptStepFails ==
  ASSUME KeptInv, LeaseInv, TypeInv, TypeInv', NEW w \in Workers, NEW moved \in BOOLEAN,
         StepFails(w, moved)
  PROVE  KeptInv'
<1>1. UNCHANGED <<run, history, wrong>>
  BY DEF StepFails, rows
<1>2. /\ worker[w].at \notin {"idle", "fail"} /\ Only(w, worker'[w])
      /\ worker'[w].at = "fail" /\ SameLease(worker'[w], worker[w])
      /\ \/ SamePage(worker'[w], worker[w])
         \/ /\ worker[w].at = "renew"
            /\ worker'[w].index = nextCursor(w)[1] /\ worker'[w].page = nextCursor(w)[2]
  BY StepFailsFacts
<1>3. WorkerAhead(w)'
  <2> SUFFICES ASSUME Active(worker[w].run), Latest(w), NEW k \in Missing(worker[w].run)
               PROVE  Ahead(k, worker[w].index, worker[w].page)'
    BY <1>1, <1>2 DEF WorkerAhead, Active, Latest, Missing, SameLease, InPage
  <2>1. CASE SamePage(worker'[w], worker[w])
    <3>1. Ahead(k, worker[w].index, worker[w].page)
      BY <1>2, LatestIsAhead
    <3> QED
      BY <1>1, <2>1, <3>1 DEF Ahead, SamePage
  <2>2. CASE /\ worker[w].at = "renew"
             /\ worker'[w].index = nextCursor(w)[1] /\ worker'[w].page = nextCursor(w)[2]
    <3>1. Ahead(k, nextCursor(w)[1], nextCursor(w)[2])
      BY <2>2, NextIsAhead
    <3> QED
      BY <1>1, <2>2, <3>1 DEF Ahead
  <2> QED
    BY <1>2, <2>1, <2>2
<1> QED
  BY <1>1, <1>2, <1>3, KeptStill

\* No worker moves and no token changes.
LEMMA KeptRows ==
  ASSUME KeptInv, TypeInv, TypeInv', UNCHANGED worker,
         \A q \in Runs : GoesOn(q),
         \A q \in Runs : SameToken(run'[q], run[q]) /\ SameCursor(run'[q], run[q]),
         \A q \in Runs : run'[q].status = "COMPLETED" => run[q].status = "COMPLETED"
  PROVE  KeptInv'
<1>1. \A v \in Workers : worker'[v] = worker[v]
  OBVIOUS
<1>2. \A v \in Workers : worker[v].at # "idle" /\ Latest(v)' => Latest(v) /\ GoesOn(worker[v].run)
  BY <1>1, LatestStays, WorkerOf
<1>3. NoWorker \notin Workers
  BY WorkerAssumption
<1> QED
  BY <1>1, <1>2, <1>3, KeptMoves

\* A run that is submitted has all of its way ahead, and no worker.
LEMMA KeptSubmit ==
  ASSUME KeptInv, LeaseInv, TypeInv, TypeInv', NEW r \in Runs, submitAssuranceRun(r)
  PROVE  KeptInv'
<1>1. UNCHANGED <<worker, wrong>>
  BY DEF submitAssuranceRun
<1>2. /\ OnlyRow(r, run'[r])
      /\ run'[r].token = 0 /\ run'[r].index = 1 /\ run'[r].page = 0 /\ run'[r].status = "PENDING"
      /\ SameToken(run'[r], run[r]) /\ SameCursor(run'[r], run[r])
      /\ history'[r] = [history[r] EXCEPT !.steady = {k \in Keys : k[2] \in wrong[k[1]]}]
      /\ \A q \in Runs : q # r => history'[q] = history[q]
  BY SubmitFacts
<1>3. history'[r].steady = {k \in Keys : k[2] \in wrong[k[1]]}
  BY <1>2 DEF TypeInv, TypeOK, History
<1>4. RunAhead(r)'
  <2> SUFFICES ASSUME NEW k, k \in Missing(r)' PROVE Ahead(k, run[r].index, run[r].page)'
    BY DEF RunAhead
  <2>1. k \in Keys
    BY <1>3 DEF Missing
  <2>2. k[1] \in Detectors /\ k[2] \in Targets /\ wrong[k[1]] \in SUBSET Targets
    BY <2>1 DEF Keys, TypeInv, TypeOK
  <2>3. Rank(k[2], wrong[k[1]]) \in Nat
    BY <2>2, RankType
  <2>4. k[1] > 1 \/ k[1] = 1
    BY <2>2, ConstantTypes DEF Detectors
  <2>5. 0 * PageSize = 0
    BY ConstantTypes
  <2> QED
    BY <1>1, <1>2, <2>3, <2>4, <2>5 DEF Ahead
<1>5. SteadyIsWrong(r)'
  BY <1>1, <1>3 DEF SteadyIsWrong
<1>6. ASSUME NEW q \in Runs, q # r
      PROVE  GoesOn(q) /\ SameCursor(run'[q], run[q]) /\ run'[q].status = run[q].status
  BY <1>1, <1>2, <1>6, SameHistory DEF OnlyRow, Active, SameCursor
<1>7. ASSUME NEW v \in Workers, worker[v].at # "idle", Latest(v)'
      PROVE  Latest(v) /\ GoesOn(worker[v].run)
  <2>1. worker[v].run \in Runs /\ worker[v].token > 0 /\ worker[v].token \in Nat
    BY <1>7, WorkerOf, WorkerFields DEF WorkerOK
  <2>2. worker[v].token = run'[worker[v].run].token
    BY <1>1, <1>7 DEF Latest
  <2>3. worker[v].run # r
    BY <1>2, <2>1, <2>2
  <2>4. run'[worker[v].run] = run[worker[v].run]
    BY <1>2, <2>1, <2>3 DEF OnlyRow
  <2> QED
    BY <1>6, <2>1, <2>2, <2>3, <2>4 DEF Latest
<1>8. NoWorker \notin Workers /\ \A v \in Workers : worker'[v] = worker[v]
  BY <1>1, WorkerAssumption
<1>9. \A q \in Runs : (GoesOn(q) /\ SameCursor(run'[q], run[q])) \/ RunAhead(q)'
  BY <1>4, <1>6
<1>10. \A q \in Runs : GoesOn(q) \/ SteadyIsWrong(q)'
  BY <1>5, <1>6
<1>11. \A q \in Runs : run'[q].status = "COMPLETED" =>
         GoesOn(q) /\ (run[q].status = "COMPLETED" \/ Missing(q) = {})
  BY <1>2, <1>6
<1> QED
  BY <1>7, <1>8, <1>9, <1>10, <1>11, KeptMoves

LEMMA KeptCancel ==
  ASSUME KeptInv, TypeInv, TypeInv', NEW r \in Runs, cancelAssuranceRun(r)
  PROVE  KeptInv'
<1>1. UNCHANGED <<worker, wrong>>
  BY DEF cancelAssuranceRun
<1>2. /\ OnlyRow(r, run'[r]) /\ SameToken(run'[r], run[r]) /\ SameCursor(run'[r], run[r])
      /\ run'[r].status = "CANCELLED"
      /\ \A q \in Runs : q # r => history'[q] = history[q]
  BY CancelFacts
<1>3. ASSUME NEW q \in Runs
      PROVE  GoesOn(q) /\ (run'[q].status = "COMPLETED" => run[q].status = "COMPLETED")
  <2>1. CASE q = r
    BY <1>2, <2>1, EndedGoesOn
  <2>2. CASE q # r
    BY <1>1, <1>2, <2>2, SameHistory DEF OnlyRow, Active
  <2> QED
    BY <2>1, <2>2
<1> QED
  BY <1>1, <1>2, <1>3, RowsStay, KeptRows

LEMMA KeptTime ==
  ASSUME KeptInv, TypeInv, TypeInv', NEW r \in Runs, LeaseLapses(r) \/ BackoffElapses(r)
  PROVE  KeptInv'
<1>1. UNCHANGED <<worker, wrong, history>>
  BY TimeFacts
<1>2. /\ OnlyRow(r, run'[r]) /\ SameToken(run'[r], run[r]) /\ SameCursor(run'[r], run[r])
      /\ run'[r].status = run[r].status
  BY TimeFacts
<1>3. \A q \in Runs : run'[q].status = run[q].status
  BY <1>2 DEF OnlyRow
<1>4. \A q \in Runs : GoesOn(q)
  BY <1>1, <1>3, SameHistory DEF Active
<1> QED
  BY <1>1, <1>2, <1>3, <1>4, RowsStay, KeptRows

\* What becomes wrong comes later than it did not; what is put right is no longer
\* owed, nor is anything of its detector.
LEMMA KeptWorld ==
  ASSUME KeptInv, TypeInv, TypeInv', NEW d \in Detectors, NEW x \in Targets, WorldChanges(d, x)
  PROVE  KeptInv'
<1>1. /\ UNCHANGED <<run, worker>>
      /\ \A c \in Detectors : c # d => wrong'[c] = wrong[c]
  BY WorldFacts
<1>2. \A q \in Runs : SameToken(run'[q], run[q]) /\ SameCursor(run'[q], run[q])
  BY <1>1, RowsStay
<1>3. \A q \in Runs : \A k \in history[q].steady : k \in Keys /\ k[1] \in Detectors
  BY DEF TypeInv, TypeOK, History, Keys
<1>4. CASE wrong'[d] = wrong[d] \cup {x} /\ UNCHANGED history
  <2>1. \A c \in Detectors : wrong[c] \subseteq wrong'[c]
    BY <1>1, <1>4
  <2>2. ASSUME NEW q \in Runs PROVE GoesOn(q)
    <3>1. Missing(q)' = Missing(q)
      BY <1>4 DEF Missing
    <3>2. \A k \in Missing(q) : k[1] \in Detectors
      BY MissingType
    <3> QED
      BY <1>1, <1>3, <1>4, <2>1, <3>1, <3>2 DEF GoesOn, Active
  <2> QED
    BY <1>1, <1>2, <2>2, KeptRows
<1>5. CASE /\ wrong'[d] = wrong[d] \ {x}
           /\ \A r \in Runs :
                \/ run[r].status \notin {"PENDING", "RUNNING"} /\ history'[r] = history[r]
                \/ /\ history'[r].steady = history[r].steady \ {<<d, x>>}
                   /\ history'[r].shifted = history[r].shifted \cup {d}
                   /\ history'[r].kept = history[r].kept
  <2>1. ASSUME NEW q \in Runs PROVE GoesOn(q)
    <3>1. CASE ~Active(q) /\ history'[q] = history[q]
      BY <1>1, <3>1 DEF GoesOn, Active, Missing
    <3>2. CASE /\ history'[q].steady = history[q].steady \ {<<d, x>>}
               /\ history'[q].shifted = history[q].shifted \cup {d}
               /\ history'[q].kept = history[q].kept
      <4>1. \A k \in Missing(q)' : k \in Missing(q) /\ k[1] # d
        BY <3>2 DEF Missing
      <4>2. \A k \in Missing(q) : k[1] \in Detectors
        BY MissingType
      <4>3. \A k \in Missing(q)' : wrong[k[1]] \subseteq wrong'[k[1]]
        BY <1>1, <4>1, <4>2
      <4>4. ASSUME NEW k \in history'[q].steady
            PROVE  k \in history[q].steady /\ (k[2] \in wrong[k[1]] => k[2] \in wrong'[k[1]])
        <5>1. k \in history[q].steady /\ k # <<d, x>>
          BY <3>2, <4>4
        <5>2. k = <<k[1], k[2]>> /\ k[1] \in Detectors
          BY <1>3, <5>1 DEF Keys
        <5> QED
          BY <1>1, <1>5, <5>1, <5>2
      <4> QED
        BY <1>1, <4>1, <4>3, <4>4 DEF GoesOn, Active
    <3> QED
      BY <1>5, <3>1, <3>2 DEF Active
  <2> QED
    BY <1>1, <1>2, <2>1, KeptRows
<1> QED
  BY <1>4, <1>5, WorldFacts

\* A step keeps what is kept.
LEMMA KeptNext ==
  ASSUME KeptInv, LeaseInv, TypeInv, [Next]_vars
  PROVE  KeptInv'
<1>1. TypeInv'
  BY TypesNext
<1>2. CASE UNCHANGED <<run, worker, wrong, history>>
  <2>1. \A q \in Runs : GoesOn(q)
    BY <1>2, SameHistory DEF Active
  <2> QED
    BY <1>1, <1>2, <2>1, RowsStay, KeptRows
<1>3. CASE UNCHANGED vars
  BY <1>2, <1>3 DEF vars, rows
<1>4. ASSUME NEW w \in Workers, Crash(w) PROVE KeptInv'
  <2>1. UNCHANGED <<run, history, wrong>>
    BY <1>4 DEF Crash, rows
  <2>2. WorkerAhead(w)'
    BY <1>4, CrashFacts DEF WorkerAhead
  <2> QED
    BY <1>1, <1>4, <2>1, <2>2, CrashFacts, KeptStill
<1>5. \A k \in Keys, status \in Verdicts :
        transitionAssuranceFindingStatus(k, status) => UNCHANGED <<run, worker, wrong, history>>
  BY DEF transitionAssuranceFindingStatus
<1> QED
  BY <1>1, <1>2, <1>3, <1>4, <1>5, KeptClaim, KeptScan, KeptBegin, KeptLook, KeptWrite, KeptRenew,
     KeptComplete, KeptFail, KeptStepFails, KeptSubmit, KeptCancel, KeptTime, KeptWorld
     DEF Next, WorkerStep

\* A run that completed has kept everything that was wrong from its submission to
\* its end, of the detectors that had nothing put right meanwhile: however many
\* pages, detectors and workers there are, and whatever crashed, failed or was
\* taken over on the way.
THEOREM CompletedRunsKeptAll == Spec => []CompletedKeptAll
<1>1. Init => TypeInv /\ LeaseInv /\ KeptInv
  BY InitFacts, IdleIsWorker
     DEF LeaseInv, KeptInv, RunAhead, SteadyIsWrong, WorkerAhead, CompletedKeptAll, Active, NoRun
<1>2. TypeInv /\ LeaseInv /\ KeptInv /\ [Next]_vars => (TypeInv /\ LeaseInv /\ KeptInv)'
  BY TypesNext, LeaseNext, KeptNext
<1>3. KeptInv => CompletedKeptAll
  BY DEF KeptInv
<1> QED
  BY <1>1, <1>2, <1>3, PTL DEF Spec
=============================================================================
