----------------------------- MODULE TruthProofs -----------------------------
(* Machine-checked theorems about the truth of a vault, its cleanups and its    *)
(* strict queries, for every value of the constants.                            *)
EXTENDS TemporalTruth, FiniteSetTheorems, WellFoundedInduction, TLAPS

USE DEF Seqs, Time

-----------------------------------------------------------------------------
(* The inductive invariant.                                                     *)

\* A query's snapshot is not ahead of the heads; once it is complete they were
\* at the cut; a vault that was compared again has not moved in between.
QueryInv ==
  /\ query.exact = TRUE
  /\ query.at = "capture" => \A v \in Vaults \ query.left : query.snap[v] <= head[v]
  /\ query.at \in {"search", "check"} =>
       \A v \in Vaults : query.snap[v] <= query.cut[v] /\ query.cut[v] <= head[v]
  /\ query.at = "check" =>
       /\ IF query.snap[Home] = 0 THEN query.rev <= head[Home] ELSE query.rev = query.snap[Home]
       /\ \A v \in Vaults \ query.left : query.snap[v] = query.cut[v]
       /\ Home \notin query.left => query.rev = query.cut[Home]

\* While a cleanup has the head locked its verdicts stay true, except of what is
\* derived again.
CleanupInv ==
  worker.at = "locked" =>
    /\ worker.rev = head[Home]
    /\ \A i \in worker.judged \ worker.again :
         ~validateDerivedItem(i, worker.rev, worker.when)

TruthInv == TypeOK /\ QueryInv /\ CleanupInv

-----------------------------------------------------------------------------
(* Types.                                                                       *)

\* Home is one of the vaults.
LEMMA HomeIsVault == Home \in Vaults
BY DEF Vaults

\* A revision moves one head by one.
LEMMA PublishType ==
  ASSUME TypeOK, NEW v \in Vaults, publishRevision(v)
  PROVE  /\ head[v] + 1 \in Seqs
         /\ head' \in [Vaults -> Seqs]
         /\ head' = [head EXCEPT ![v] = head[v] + 1]
<1>1. head[v] \in Seqs /\ head[v] < MaxSeq
  BY DEF TypeOK, publishRevision
<1>2. head[v] + 1 \in Seqs
  BY <1>1, BoundAssumption
<1>3. QED
  BY <1>2 DEF TypeOK, publishRevision

\* An item that is derived again is noted in the cleanup's record.
LEMMA AgainType ==
  ASSUME NEW w \in Worker, NEW i \in Items
  PROVE  [w EXCEPT !.again = w.again \cup {i}] \in Worker
<1> DEFINE again == w.again \cup {i}
<1>1. again \in SUBSET Items
  BY DEF Worker
<1> HIDE DEF again
<1>2. [w EXCEPT !.again = again] \in Worker
  BY <1>1 DEF Worker
<1>3. QED
  BY <1>2 DEF again

\* A request that is settled keeps its type.
LEMMA SettledType ==
  ASSUME NEW table \in [1 .. MaxSeq -> Event], NEW n
  PROVE  [table EXCEPT ![n].status = "settled"] \in [1 .. MaxSeq -> Event]
<1> DEFINE row == table[n]
<1> DEFINE new == [row EXCEPT !.status = "settled"]
<1>1. CASE n \in 1 .. MaxSeq
  <2>1. row \in Event
    BY <1>1
  <2> HIDE DEF row
  <2>2. new \in Event
    BY <2>1 DEF Event
  <2> HIDE DEF new
  <2>3. [table EXCEPT ![n] = new] \in [1 .. MaxSeq -> Event]
    BY <2>2
  <2>4. QED
    BY <2>3 DEF new, row
<1>2. CASE n \notin 1 .. MaxSeq
  BY <1>2
<1>3. QED
  BY <1>1, <1>2

\* A request for invalidation is of the revision it comes with.
LEMMA RequestType ==
  ASSUME TypeOK, NEW x \in Refs \cup {NoFact}, Requests(x)
  PROVE  event' \in [1 .. MaxSeq -> Event]
BY DEF TypeOK, Requests, Event

\* The empty tables are well typed.
LEMMA InitTruth == Init => TruthInv
<1> SUFFICES ASSUME Init PROVE TruthInv
  OBVIOUS
<1>1. 0 \in Seqs /\ Zero \in [Vaults -> Seqs] /\ 0 \in Time
  BY BoundAssumption DEF Zero
<1>2. Unrecorded \in Fact /\ NoEvent \in Event /\ IdleWorker \in Worker /\ IdleQuery \in Query
  BY <1>1 DEF Unrecorded, Fact, NoEvent, Event, IdleWorker, Worker, IdleQuery, Query
<1>3. TypeOK
  BY <1>1, <1>2 DEF Init, TypeOK
<1>4. QueryInv /\ CleanupInv
  BY DEF Init, QueryInv, CleanupInv, IdleQuery, IdleWorker
<1>5. QED
  BY <1>3, <1>4 DEF TruthInv

-----------------------------------------------------------------------------
(* One lemma per kind of step.                                                  *)

\* What is supported depends on the truth only.
LEMMA SameTruth ==
  ASSUME UNCHANGED <<fact, gone>>, NEW s, NEW t
  PROVE  HeldAt(s, t)' = HeldAt(s, t)
BY DEF HeldAt, Held, Standing, Current, Recorded

\* Heads only advance, and queries do not notice.
LEMMA QueryKeeps ==
  ASSUME TruthInv, UNCHANGED query, head' \in [Vaults -> Seqs],
         \A v \in Vaults : head[v] <= head'[v]
  PROVE  QueryInv'
<1>1. query \in Query /\ head \in [Vaults -> Seqs]
  BY DEF TruthInv, TypeOK
<1>2. \A v \in Vaults : /\ head[v] \in Int /\ head'[v] \in Int
                        /\ query.snap[v] \in Int /\ query.cut[v] \in Int
  BY <1>1 DEF Query
<1>3. query.rev \in Int /\ head[Home] <= head'[Home] /\ head[Home] \in Int /\ head'[Home] \in Int
  BY <1>1, <1>2, HomeIsVault DEF Query
<1>4. QED
  BY <1>2, <1>3 DEF TruthInv, QueryInv

\* Facts, withdrawals and other vaults publish a revision.
LEMMA PublishStep ==
  ASSUME TruthInv,
         \/ \E f \in Facts, when \in Windows, old \in Facts \cup {NoFact} :
              \E support \in Supports[f] : recordFact(f, support, when, old)
         \/ \E x \in Sources : withdrawSource(x)
         \/ \E v \in Others : publishElsewhere(v)
  PROVE  TruthInv'
<1>1. ASSUME NEW v \in Vaults, publishRevision(v), UNCHANGED <<deps, vectors, worker, query>>,
             fact' \in [Facts -> Fact], gone' \in [Sources -> Seqs],
             event' \in [1 .. MaxSeq -> Event],
             v = Home \/ UNCHANGED <<fact, gone>>
      PROVE  TruthInv'
  <2>1. /\ head' \in [Vaults -> Seqs] /\ head' = [head EXCEPT ![v] = head[v] + 1]
        /\ head[v] + 1 \in Seqs
    BY <1>1, PublishType DEF TruthInv
  <2>2. TypeOK'
    BY <1>1, <2>1 DEF TruthInv, TypeOK
  <2>3. \A u \in Vaults : head[u] <= head'[u]
    BY <2>1 DEF TruthInv, TypeOK
  <2>4. QueryInv'
    BY <1>1, <2>1, <2>3, QueryKeeps
  <2>5. CleanupInv'
    <3>1. CASE v = Home
      BY <1>1, <3>1 DEF publishRevision, CleanupInv
    <3>2. CASE v # Home /\ UNCHANGED <<fact, gone>>
      <4>1. head'[Home] = head[Home]
        BY <2>1, <3>2, HomeIsVault DEF TruthInv, TypeOK
      <4>2. \A s, t : HeldAt(s, t)' = HeldAt(s, t)
        BY <3>2, SameTruth
      <4>3. \A i, s, t : validateDerivedItem(i, s, t)' = validateDerivedItem(i, s, t)
        BY <1>1, <4>2 DEF validateDerivedItem, Decides, supportEvaluation
      <4>4. QED
        BY <1>1, <4>1, <4>3 DEF TruthInv, CleanupInv
    <3>3. QED
      BY <1>1, <3>1, <3>2
  <2>6. QED
    BY <2>2, <2>4, <2>5 DEF TruthInv
<1>2. head[Home] < MaxSeq => head[Home] + 1 \in Seqs
  BY HomeIsVault, BoundAssumption DEF TruthInv, TypeOK
<1>3. ASSUME NEW f \in Facts, NEW when \in Windows, NEW old \in Facts \cup {NoFact},
             NEW support \in Supports[f], recordFact(f, support, when, old)
      PROVE  TruthInv'
  <2> DEFINE new == [seq |-> head[Home] + 1, support |-> support, when |-> when, old |-> old]
  <2>1. support \in SUBSET (SUBSET Refs)
    BY SupportAssumption
  <2>2. publishRevision(Home) /\ UNCHANGED <<gone, deps, vectors, worker, query>>
    BY <1>3 DEF recordFact, derived
  <2>3. new \in Fact
    BY <1>2, <2>1, <2>2 DEF Fact, publishRevision
  <2>4. fact' = [fact EXCEPT ![f] = new]
    BY <1>3 DEF recordFact
  <2> HIDE DEF new
  <2>5. fact' \in [Facts -> Fact]
    BY <2>3, <2>4 DEF TruthInv, TypeOK
  <2>6. event' \in [1 .. MaxSeq -> Event]
    <3>1. old \in Refs \cup {NoFact}
      BY DEF Refs
    <3>2. UNCHANGED event \/ Requests(old)
      BY <1>3 DEF recordFact
    <3>3. QED
      BY <3>1, <3>2, RequestType DEF TruthInv, TypeOK
  <2>7. gone' \in [Sources -> Seqs]
    BY <2>2 DEF TruthInv, TypeOK
  <2>8. QED
    BY <1>1, <2>2, <2>5, <2>6, <2>7, HomeIsVault
<1>4. ASSUME NEW x \in Sources, withdrawSource(x) PROVE TruthInv'
  <2>1. publishRevision(Home) /\ UNCHANGED <<fact, deps, vectors, worker, query>>
    BY <1>4 DEF withdrawSource, derived
  <2>2. gone' \in [Sources -> Seqs]
    BY <1>2, <1>4, <2>1 DEF withdrawSource, publishRevision, TruthInv, TypeOK
  <2>3. event' \in [1 .. MaxSeq -> Event]
    BY <1>4, RequestType DEF withdrawSource, TruthInv, Refs
  <2>4. fact' \in [Facts -> Fact]
    BY <2>1 DEF TruthInv, TypeOK
  <2>5. QED
    BY <1>1, <2>1, <2>2, <2>3, <2>4, HomeIsVault
<1>5. ASSUME NEW v \in Others, publishElsewhere(v) PROVE TruthInv'
  <2>1. v \in Vaults
    BY DEF Vaults
  <2>2. publishRevision(v) /\ UNCHANGED <<fact, gone, deps, vectors, event, worker, query>>
    BY <1>5 DEF publishElsewhere, derived
  <2>3. fact' \in [Facts -> Fact] /\ gone' \in [Sources -> Seqs] /\ event' \in [1 .. MaxSeq -> Event]
    BY <2>2 DEF TruthInv, TypeOK
  <2>4. QED
    BY <1>1, <2>1, <2>2, <2>3
<1>6. QED
  BY <1>3, <1>4, <1>5

\* A vector is stored, or an item derived again: of a revision the cleanup
\* knows, so the cleanup is excused.
LEMMA DeriveStep ==
  ASSUME TruthInv, NEW i \in Items,
         \/ embed(i)
         \/ \E support \in Supports[i], s \in Seqs : registerDerivedDependency(i, support, s)
  PROVE  TruthInv'
<1>1. CASE embed(i)
  <2>1. vectors' = vectors \cup {i} /\ UNCHANGED <<head, fact, gone, deps, event, worker, query>>
    BY <1>1 DEF embed, truth
  <2>2. TypeOK' /\ QueryInv'
    BY <2>1 DEF TruthInv, TypeOK, QueryInv
  <2>3. CleanupInv'
    <3>1. \A s, t : HeldAt(s, t)' = HeldAt(s, t)
      BY <2>1, SameTruth
    <3>2. \A j, s, t : validateDerivedItem(j, s, t)' = validateDerivedItem(j, s, t)
      BY <2>1, <3>1 DEF validateDerivedItem, Decides, supportEvaluation
    <3>3. QED
      BY <2>1, <3>2 DEF TruthInv, CleanupInv
  <2>4. QED
    BY <2>2, <2>3 DEF TruthInv
<1>2. ASSUME NEW support \in Supports[i], NEW s \in Seqs, registerDerivedDependency(i, support, s)
      PROVE  TruthInv'
  <2> DEFINE new == [item |-> i, support |-> support, seq |-> s]
  <2>1. /\ s \in 1 .. head[Home] /\ deps' = deps \cup {new}
        /\ UNCHANGED <<head, fact, gone, vectors, event, query>>
    BY <1>2 DEF registerDerivedDependency, truth
  <2>2. support \in SUBSET (SUBSET Refs)
    BY SupportAssumption
  <2>3. new \in [item : Items, support : SUBSET (SUBSET Refs), seq : Seqs] /\ new.item = i
    BY <2>2
  <2> HIDE DEF new
  <2>4. /\ worker.at = "locked" /\ s <= worker.rev =>
             worker' = [worker EXCEPT !.again = worker.again \cup {i}]
        /\ ~(worker.at = "locked" /\ s <= worker.rev) => worker' = worker
    BY <1>2 DEF registerDerivedDependency
  <2>5. worker' \in Worker
    BY <2>4, AgainType DEF TruthInv, TypeOK
  <2>6. TypeOK' /\ QueryInv'
    BY <2>1, <2>3, <2>5 DEF TruthInv, TypeOK, QueryInv
  <2>7. CASE worker.at # "locked"
    BY <2>4, <2>6, <2>7 DEF TruthInv, CleanupInv
  <2>8. CASE worker.at = "locked"
    <3>1. s <= worker.rev
      BY <2>1, <2>8 DEF TruthInv, CleanupInv
    <3>2. /\ worker'.again = worker.again \cup {i} /\ worker'.judged = worker.judged
          /\ worker'.rev = worker.rev /\ worker'.when = worker.when
      BY <2>4, <2>8, <3>1 DEF TruthInv, TypeOK, Worker
    <3>3. \A r, t : HeldAt(r, t)' = HeldAt(r, t)
      BY <2>1, SameTruth
    <3>4. ASSUME NEW j \in Items, j # i, NEW r, NEW t
          PROVE  validateDerivedItem(j, r, t)' = validateDerivedItem(j, r, t)
      <4>1. \A d : d.item = j => (d \in deps' <=> d \in deps)
        BY <2>1, <2>3, <3>4
      <4>2. \A d : d.item = j => (Decides(d, r)' <=> Decides(d, r))
        BY <4>1 DEF Decides
      <4>3. \A d : supportEvaluation(d.support, r, t)' <=> supportEvaluation(d.support, r, t)
        BY <3>3 DEF supportEvaluation
      <4>4. QED
        BY <4>1, <4>2, <4>3 DEF validateDerivedItem
    <3>5. worker.judged \subseteq Items
      BY DEF TruthInv, TypeOK, Worker
    <3>6. CleanupInv'
      BY <2>1, <2>8, <3>2, <3>4, <3>5 DEF TruthInv, CleanupInv
    <3>7. QED
      BY <2>6, <3>6 DEF TruthInv
  <2>9. QED
    BY <2>7, <2>8
<1>3. QED
  BY <1>1, <1>2

\* The worker projects, judges under the head's lock, and removes.
LEMMA WorkerStep ==
  ASSUME TruthInv,
         \/ \E s \in 1 .. MaxSeq, t \in Time :
              rebuildDerivedProjection(s, t) \/ cleanupInvalidDerivedItems(s, t)
         \/ removeVectors \/ workerCrashes
  PROVE  TruthInv'
<1>1. ASSUME NEW s \in 1 .. MaxSeq, NEW t \in Time, rebuildDerivedProjection(s, t)
      PROVE  TruthInv'
  <2> DEFINE invalid == {i \in affected(event[s].resource, s) : ~validateDerivedItem(i, s, t)}
             new == [event[s] EXCEPT !.status = "projected", !.invalid = invalid]
  <2>1. invalid \subseteq Items
    BY DEF affected
  <2> HIDE DEF invalid
  <2>2. event[s] \in Event
    BY DEF TruthInv, TypeOK
  <2>3. new \in Event
    BY <2>1, <2>2 DEF Event
  <2>4. event' = [event EXCEPT ![s] = new] /\ worker.at = "idle"
        /\ UNCHANGED <<head, fact, gone, deps, vectors, worker, query>>
    BY <1>1 DEF rebuildDerivedProjection, truth, derived, invalid
  <2> HIDE DEF new
  <2>5. TypeOK' /\ QueryInv' /\ CleanupInv'
    BY <2>3, <2>4 DEF TruthInv, TypeOK, QueryInv, CleanupInv
  <2>6. QED
    BY <2>5 DEF TruthInv
<1>2. ASSUME NEW s \in 1 .. MaxSeq, NEW t \in Time, cleanupInvalidDerivedItems(s, t)
      PROVE  TruthInv'
  <2> DEFINE judged == {i \in event[s].invalid : ~validateDerivedItem(i, head[Home], t)}
             new == [at |-> "locked", event |-> s, rev |-> head[Home], when |-> t, again |-> {},
                     judged |-> judged]
  <2>1. judged \subseteq Items /\ head[Home] \in Seqs /\ s \in Seqs
    BY HomeIsVault, BoundAssumption DEF TruthInv, TypeOK, Event
  <2>2. \A i \in judged : ~validateDerivedItem(i, head[Home], t)
    OBVIOUS
  <2>3. worker' = new /\ UNCHANGED <<head, fact, gone, deps, vectors, event, query>>
    BY <1>2 DEF cleanupInvalidDerivedItems, truth, derived
  <2> HIDE DEF judged
  <2>4. new \in Worker
    BY <2>1 DEF Worker
  <2>5. TypeOK' /\ QueryInv'
    BY <2>3, <2>4 DEF TruthInv, TypeOK, QueryInv
  <2>6. \A r, u : HeldAt(r, u)' = HeldAt(r, u)
    BY <2>3, SameTruth
  <2>7. \A i, r, u : validateDerivedItem(i, r, u)' = validateDerivedItem(i, r, u)
    BY <2>3, <2>6 DEF validateDerivedItem, Decides, supportEvaluation
  <2>8. CleanupInv'
    BY <2>2, <2>3, <2>7 DEF CleanupInv
  <2>9. QED
    BY <2>5, <2>8 DEF TruthInv
<1>3. ASSUME removeVectors \/ workerCrashes PROVE TruthInv'
  <2>1. worker' = IdleWorker /\ vectors' \subseteq vectors /\ UNCHANGED <<head, fact, gone, deps, query>>
    BY <1>3 DEF removeVectors, workerCrashes, truth, derived
  <2>2. 0 \in Time /\ 0 \in Seqs
    BY BoundAssumption
  <2>3. IdleWorker \in Worker /\ IdleWorker.at = "idle"
    BY <2>2 DEF IdleWorker, Worker
  <2>4. event' \in [1 .. MaxSeq -> Event]
    <3>1. CASE event' = event
      BY <3>1 DEF TruthInv, TypeOK
    <3>2. CASE event' = [event EXCEPT ![worker.event].status = "settled"]
      BY <3>2, SettledType DEF TruthInv, TypeOK
    <3>3. QED
      BY <1>3, <3>1, <3>2 DEF removeVectors, workerCrashes
  <2>5. TypeOK' /\ QueryInv' /\ CleanupInv'
    BY <2>1, <2>3, <2>4 DEF TruthInv, TypeOK, QueryInv, CleanupInv
  <2>6. QED
    BY <2>5 DEF TruthInv
<1>4. QED
  BY <1>1, <1>2, <1>3

\* A query reads the heads one by one, filters, and reads them again.
LEMMA QueryStep ==
  ASSUME TruthInv,
         \/ startQuery \/ filterDerivedTruth
         \/ \E v \in Vaults : captureSnapshot(v) \/ snapshotUnchanged(v)
  PROVE  TruthInv'
<1>0. /\ query \in Query /\ head \in [Vaults -> Seqs] /\ head[Home] \in Seqs
      /\ 0 \in Seqs /\ Zero \in [Vaults -> Seqs] /\ IdleQuery \in Query
  BY HomeIsVault, BoundAssumption, SMTT(30) DEF TruthInv, TypeOK, Zero, IdleQuery, Query
<1>1. UNCHANGED <<head, fact, gone, deps, vectors, event, worker>>
  BY DEF startQuery, filterDerivedTruth, captureSnapshot, snapshotUnchanged, recheck, truth, derived
<1>2. CleanupInv'
  <2>1. \A r, u : HeldAt(r, u)' = HeldAt(r, u)
    BY <1>1, SameTruth
  <2>2. \A i, r, u : validateDerivedItem(i, r, u)' = validateDerivedItem(i, r, u)
    BY <1>1, <2>1 DEF validateDerivedItem, Decides, supportEvaluation
  <2>3. QED
    BY <1>1, <2>2 DEF TruthInv, CleanupInv
<1>3. ASSUME query' \in Query PROVE TypeOK'
  BY <1>1, <1>3 DEF TruthInv, TypeOK
<1>4. CASE startQuery
  <2>1. query' = [IdleQuery EXCEPT !.at = "capture", !.left = Vaults]
    BY <1>4 DEF startQuery
  <2>2. query' \in Query /\ query'.at = "capture" /\ query'.left = Vaults /\ query'.exact = TRUE
    BY <1>0, <2>1 DEF Query, IdleQuery
  <2>3. QueryInv'
    BY <2>2 DEF QueryInv
  <2>4. QED
    BY <1>2, <1>3, <2>2, <2>3 DEF TruthInv
<1>5. ASSUME NEW v \in Vaults, captureSnapshot(v) PROVE TruthInv'
  <2> DEFINE snap == [query.snap EXCEPT ![v] = head[v]]
             last == query.left = {v}
             at == IF last THEN "search" ELSE "capture"
             cut == IF last THEN head ELSE Zero
             left == query.left \ {v}
  <2>1. query' = [query EXCEPT !.snap = snap, !.left = left, !.at = at, !.cut = cut]
        /\ query.at = "capture" /\ v \in query.left
    BY <1>5 DEF captureSnapshot
  <2>2. /\ snap \in [Vaults -> Seqs] /\ cut \in [Vaults -> Seqs]
        /\ at \in {"search", "capture"} /\ left \in SUBSET Vaults
        /\ \A u \in Vaults : snap[u] = IF u = v THEN head[v] ELSE query.snap[u]
    BY <1>0 DEF Query
  <2>3. \A u \in Vaults \ left : snap[u] <= head[u]
    BY <1>0, <2>1, <2>2 DEF TruthInv, QueryInv
  <2>4. at = "search" => left = {} /\ cut = head
    OBVIOUS
  <2> HIDE DEF snap, at, cut, left
  <2>5. /\ query' \in Query /\ query'.snap = snap /\ query'.left = left
        /\ query'.at = at /\ query'.cut = cut /\ query'.exact = query.exact
    BY <1>0, <2>1, <2>2 DEF Query
  <2>6. QueryInv'
    BY <1>0, <1>1, <2>2, <2>3, <2>4, <2>5 DEF TruthInv, QueryInv
  <2>7. QED
    BY <1>2, <1>3, <2>5, <2>6 DEF TruthInv
<1>6. CASE filterDerivedTruth
  <2> DEFINE rev == IF query.snap[Home] = 0 THEN head[Home] ELSE query.snap[Home]
  <2>1. query' = [query EXCEPT !.at = "check", !.left = Vaults, !.rev = rev] /\ query.at = "search"
    BY <1>6 DEF filterDerivedTruth
  <2>2. rev \in Seqs /\ (IF query.snap[Home] = 0 THEN rev <= head[Home] ELSE rev = query.snap[Home])
    BY <1>0, HomeIsVault DEF Query
  <2> HIDE DEF rev
  <2>3. /\ query' \in Query /\ query'.at = "check" /\ query'.left = Vaults /\ query'.rev = rev
        /\ query'.snap = query.snap /\ query'.cut = query.cut /\ query'.exact = query.exact
    BY <1>0, <2>1, <2>2 DEF Query
  <2>4. QueryInv'
    BY <1>1, <2>1, <2>2, <2>3, HomeIsVault DEF TruthInv, QueryInv
  <2>5. QED
    BY <1>2, <1>3, <2>3, <2>4 DEF TruthInv
<1>7. ASSUME NEW v \in Vaults, snapshotUnchanged(v) PROVE TruthInv'
  <2> DEFINE same == query.snap[v] = head[v]
             left == query.left \ {v}
  <2>1. /\ query.at = "check" /\ v \in query.left
        /\ \A u \in Vaults : /\ query.snap[u] \in Int /\ query.cut[u] \in Int /\ head[u] \in Int
                             /\ query.snap[u] <= query.cut[u] /\ query.cut[u] <= head[u]
        /\ query.rev \in Seqs
    BY <1>0, <1>7 DEF snapshotUnchanged, recheck, TruthInv, QueryInv, Query
  <2>2. same => query.snap[v] = query.cut[v] /\ (v = Home => query.rev = query.cut[Home])
    BY <1>0, <2>1 DEF TruthInv, QueryInv
  <2>3. same => /\ \A u \in Vaults \ left : query.snap[u] = query.cut[u]
                /\ Home \notin left => query.rev = query.cut[Home]
    BY <2>1, <2>2 DEF TruthInv, QueryInv
  <2>4. CASE same /\ query.left # {v}
    <3>1. query' = [query EXCEPT !.left = left]
      BY <1>7, <2>4 DEF snapshotUnchanged, recheck
    <3>2. /\ query' \in Query /\ query'.left = left /\ query'.at = query.at /\ query'.rev = query.rev
          /\ query'.snap = query.snap /\ query'.cut = query.cut /\ query'.exact = query.exact
      BY <1>0, <3>1 DEF Query
    <3> HIDE DEF left
    <3>3. QueryInv'
      BY <1>1, <2>1, <2>3, <2>4, <3>2 DEF TruthInv, QueryInv
    <3>4. QED
      BY <1>2, <1>3, <3>2, <3>3 DEF TruthInv
  <2>5. CASE ~(same /\ query.left # {v})
    <3> DEFINE exact == same => query.snap = query.cut /\ query.rev = query.cut[Home]
    <3>1. query' = [IdleQuery EXCEPT !.exact = exact]
      BY <1>7, <2>5 DEF snapshotUnchanged, recheck
    <3>2. ASSUME same PROVE query.snap = query.cut /\ query.rev = query.cut[Home]
      <4>1. left = {}
        BY <2>5, <3>2
      <4>2. \A u \in Vaults : query.snap[u] = query.cut[u]
        BY <2>3, <3>2, <4>1
      <4>3. query.snap \in [Vaults -> Seqs] /\ query.cut \in [Vaults -> Seqs]
        BY <1>0 DEF Query
      <4>4. query.snap = query.cut
        BY <4>2, <4>3
      <4>5. QED
        BY <2>3, <3>2, <4>1, <4>4
    <3>3. exact = TRUE
      BY <3>2
    <3> HIDE DEF exact
    <3>4. query' \in Query /\ query'.at = "idle" /\ query'.exact = TRUE
      BY <1>0, <3>1, <3>3 DEF Query, IdleQuery
    <3>5. QueryInv'
      BY <3>4 DEF QueryInv
    <3>6. QED
      BY <1>2, <1>3, <3>4, <3>5 DEF TruthInv
  <2>6. QED
    BY <2>4, <2>5
<1>8. QED
  BY <1>4, <1>5, <1>6, <1>7

\* Every step keeps the invariant.
LEMMA NextTruth == TruthInv /\ [Next]_vars => TruthInv'
<1> SUFFICES ASSUME TruthInv, [Next]_vars PROVE TruthInv'
  OBVIOUS
<1>1. CASE UNCHANGED vars
  <2>1. UNCHANGED <<head, fact, gone, deps, vectors, event, worker, query>>
    BY <1>1 DEF vars, truth, derived
  <2>2. \A r, u : HeldAt(r, u)' = HeldAt(r, u)
    BY <2>1, SameTruth
  <2>3. \A i, r, u : validateDerivedItem(i, r, u)' = validateDerivedItem(i, r, u)
    BY <2>1, <2>2 DEF validateDerivedItem, Decides, supportEvaluation
  <2>4. QED
    BY <2>1, <2>3 DEF TruthInv, TypeOK, QueryInv, CleanupInv
<1>2. QED
  BY <1>1, PublishStep, DeriveStep, WorkerStep, QueryStep DEF Next

\* The invariant holds in every reachable state.
LEMMA TruthHolds == Spec => []TruthInv
BY InitTruth, NextTruth, PTL DEF Spec

-----------------------------------------------------------------------------
(* The theorems.                                                                *)

\* A strict answer is of one moment, for any number of vaults whose heads are
\* read one by one.
THEOREM StrictAnswers == Spec => []StrictAnswerIsOneCut
<1>1. TruthInv => StrictAnswerIsOneCut
  BY DEF TruthInv, QueryInv, StrictAnswerIsOneCut
<1>2. QED
  BY <1>1, TruthHolds, PTL

\* What held at a revision holds there for ever.
THEOREM ThePastIsStable == Spec => PastIsStable
<1>1. TruthInv /\ [Next]_vars =>
        [\A s \in 0 .. head[Home], t \in Time : HeldAt(s, t)' = HeldAt(s, t)]_truth
  <2> SUFFICES ASSUME TruthInv, [Next]_vars, NEW s \in 0 .. head[Home], NEW t \in Time,
                      truth' # truth
               PROVE  HeldAt(s, t)' = HeldAt(s, t)
    OBVIOUS
  <2>1. CASE UNCHANGED <<fact, gone>>
    BY <2>1, SameTruth
  <2>2. ASSUME NEW f \in Facts, NEW when \in Windows, NEW old \in Facts \cup {NoFact},
               NEW support \in Supports[f], recordFact(f, support, when, old)
        PROVE  HeldAt(s, t)' = HeldAt(s, t)
    <3> DEFINE new == [seq |-> head[Home] + 1, support |-> support, when |-> when, old |-> old]
    <3>1. fact' = [fact EXCEPT ![f] = new] /\ fact[f].seq = 0 /\ UNCHANGED gone
      BY <2>2 DEF recordFact
    <3>2. new.seq = head[Home] + 1 /\ head[Home] \in Int
      BY HomeIsVault DEF TruthInv, TypeOK
    <3> HIDE DEF new
    <3>3. \A g \in Facts : fact'[g] = IF g = f THEN new ELSE fact[g]
      BY <3>1 DEF TruthInv, TypeOK
    <3>4. \A g \in Facts : Recorded(g, s)' <=> Recorded(g, s)
      BY <3>1, <3>2, <3>3 DEF Recorded
    <3>5. ~Recorded(f, s)
      BY <3>1 DEF Recorded
    <3>6. Current(s, t)' = Current(s, t)
      BY <3>3, <3>4, <3>5 DEF Current
    <3>7. f \notin Current(s, t) /\ Current(s, t) \subseteq Facts
      BY <3>5 DEF Current
    <3>8. [g \in Current(s, t) |-> fact[g].support]' = [g \in Current(s, t) |-> fact[g].support]
      BY <3>3, <3>6, <3>7
    <3>9. Standing(s)' = Standing(s)
      BY <3>1 DEF Standing
    <3>10. QED
      BY <3>8, <3>9 DEF HeldAt
  <2>3. ASSUME NEW x \in Sources, withdrawSource(x) PROVE HeldAt(s, t)' = HeldAt(s, t)
    <3>1. gone' = [gone EXCEPT ![x] = head[Home] + 1] /\ gone[x] = 0 /\ UNCHANGED fact
      BY <2>3 DEF withdrawSource
    <3>2. head[Home] \in Int
      BY HomeIsVault DEF TruthInv, TypeOK
    <3>3. \A y \in Sources : gone'[y] = IF y = x THEN head[Home] + 1 ELSE gone[y]
      BY <3>1 DEF TruthInv, TypeOK
    <3>4. Standing(s)' = Standing(s)
      BY <3>1, <3>2, <3>3 DEF Standing
    <3>5. Current(s, t)' = Current(s, t)
      BY <3>1 DEF Current, Recorded
    <3>6. QED
      BY <3>1, <3>4, <3>5 DEF HeldAt, Held
  <2>4. QED
    BY <2>1, <2>2, <2>3
       DEF Next, publishElsewhere, embed, registerDerivedDependency, rebuildDerivedProjection,
           cleanupInvalidDerivedItems, removeVectors, workerCrashes, startQuery, filterDerivedTruth,
           captureSnapshot, snapshotUnchanged, recheck, vars, truth
<1>2. QED
  BY <1>1, TruthHolds, PTL DEF Spec, PastIsStable

\* A vector that a cleanup removes is not valid by the head, unless its item was
\* derived again while the cleanup had the head locked.
THEOREM RemovalsAreJustified == Spec => RemovedIsInvalid
<1>1. TruthInv /\ [Next]_vars =>
        [\A i \in vectors \ vectors' :
           validateDerivedItem(i, head[Home], worker.when) => i \in worker.again]_vectors
  <2> SUFFICES ASSUME TruthInv, [Next]_vars, NEW i \in vectors \ vectors',
                      validateDerivedItem(i, head[Home], worker.when)
               PROVE  i \in worker.again
    OBVIOUS
  <2>1. removeVectors
    BY DEF Next, recordFact, withdrawSource, publishElsewhere, embed, registerDerivedDependency,
           rebuildDerivedProjection, cleanupInvalidDerivedItems, workerCrashes, startQuery,
           filterDerivedTruth, captureSnapshot, snapshotUnchanged, recheck, vars, derived
  <2>2. i \in worker.judged /\ worker.at = "locked"
    BY <2>1 DEF removeVectors
  <2>3. QED
    BY <2>2 DEF TruthInv, CleanupInv
<1>2. QED
  BY <1>1, TruthHolds, PTL DEF Spec, RemovedIsInvalid

-----------------------------------------------------------------------------
(* Rounds.  What holds, and what is affected, are computed in as many rounds as *)
(* there are facts; that many always suffice, because a round that adds nothing *)
(* is the last that matters and every other one adds a fact.                    *)

\* Induction up to a number, over a set.
LEMMA UpTo ==
  ASSUME NEW N \in Nat, NEW S, 0 \in S, \A n \in 0 .. N - 1 : n \in S => n + 1 \in S
  PROVE  \A n \in 0 .. N : n \in S
<1> SUFFICES ASSUME NEW k \in 0 .. N, k \notin S PROVE FALSE
  OBVIOUS
<1> DEFINE T == {n \in 0 .. N : n \notin S}
<1>1. T \in SUBSET Nat /\ T # {}
  OBVIOUS
<1> HIDE DEF T
<1>2. PICK m \in T : \A y \in T : ~(<<y, m>> \in OpToRel(<, Nat))
  BY <1>1, NatLessThanWellFounded, WFMin, Zenon
<1>3. m \in 0 .. N /\ m \notin S
  BY DEF T
<1>4. m # 0 /\ m - 1 \in 0 .. N - 1 /\ m = (m - 1) + 1
  BY <1>3
<1>5. m - 1 \in T
  BY <1>3, <1>4 DEF T
<1>6. <<m - 1, m>> \in OpToRel(<, Nat)
  BY <1>3, <1>4 DEF OpToRel
<1>7. QED
  BY <1>2, <1>5, <1>6

\* The rounds r start with z, and each is the step F of the one before.
Iterates(r, N, V, z, F) ==
  r \in [0 .. N -> V] /\ r[0] = z /\ \A n \in 1 .. N : r[n] = F[r[n - 1]]

\* There are such rounds for every step.
LEMMA Recursion ==
  ASSUME NEW N \in Nat, NEW V, NEW z \in V, NEW F \in [V -> V]
  PROVE  \E r : Iterates(r, N, V, z, F)
<1> DEFINE S == {n \in 0 .. N : \E r \in [0 .. n -> V] :
                                  r[0] = z /\ \A i \in 1 .. n : r[i] = F[r[i - 1]]}
<1>1. 0 \in S
  <2>1. PICK r : r = [n \in 0 .. 0 |-> z]
    OBVIOUS
  <2>2. r \in [0 .. 0 -> V] /\ r[0] = z
    BY <2>1
  <2>3. QED
    BY <2>2
<1>2. ASSUME NEW n \in 0 .. N - 1, n \in S PROVE n + 1 \in S
  <2>1. PICK r \in [0 .. n -> V] : r[0] = z /\ \A i \in 1 .. n : r[i] = F[r[i - 1]]
    BY <1>2
  <2>2. PICK q : q = [i \in 0 .. n + 1 |-> IF i = n + 1 THEN F[r[n]] ELSE r[i]]
    OBVIOUS
  <2>3. q \in [0 .. n + 1 -> V] /\ q[0] = z
    BY <2>1, <2>2
  <2>4. \A i \in 1 .. n + 1 : q[i] = F[q[i - 1]]
    BY <2>1, <2>2
  <2>5. n + 1 \in 0 .. N
    OBVIOUS
  <2>6. QED
    BY <2>3, <2>4, <2>5
<1> HIDE DEF S
<1>3. N \in S
  BY <1>1, <1>2, UpTo
<1>4. QED
  BY <1>3 DEF S, Iterates

\* A step that adds facts to what it is given, and nothing else.
AddsFacts(F) ==
  F \in [SUBSET Refs -> SUBSET Refs] /\ \A X \in SUBSET Refs : X \subseteq F[X] /\ F[X] \ X \subseteq Facts

\* A set the step does not lead out of.
Closed(X, F) == \A Y \in SUBSET X : F[Y] \subseteq X

\* As many rounds as there are facts reach all that can be reached, and reach no
\* more than is closed under the step.
LEMMA RoundsReach ==
  ASSUME NEW r, NEW z \in SUBSET Refs, NEW F, AddsFacts(F),
         Iterates(r, Cardinality(Facts), SUBSET Refs, z, F)
  PROVE  /\ r[Cardinality(Facts)] \in SUBSET Refs
         /\ z \subseteq r[Cardinality(Facts)]
         /\ F[r[Cardinality(Facts)]] = r[Cardinality(Facts)]
         /\ \A X \in SUBSET Refs : z \subseteq X /\ Closed(X, F) => r[Cardinality(Facts)] \subseteq X
<1>1. PICK N : N = Cardinality(Facts)
  OBVIOUS
<1>2. N \in Nat /\ IsFiniteSet(Facts)
  BY <1>1, FactAssumption, FS_CardinalityType
<1>3. /\ \A n \in 0 .. N : r[n] \in SUBSET Refs
      /\ r[0] = z /\ \A n \in 1 .. N : r[n] = F[r[n - 1]]
  BY <1>1 DEF Iterates
<1>4. \A n \in 0 .. N - 1 : r[n + 1] = F[r[n]] /\ r[n] \in SUBSET Refs
  <2> TAKE n \in 0 .. N - 1
  <2>1. n + 1 \in 1 .. N /\ (n + 1) - 1 = n /\ n \in 0 .. N
    BY <1>2
  <2>2. QED
    BY <1>3, <2>1
<1>5. \A n \in 0 .. N : z \subseteq r[n]
  <2> DEFINE S == {n \in 0 .. N : z \subseteq r[n]}
  <2>1. 0 \in S
    BY <1>2, <1>3
  <2>2. ASSUME NEW n \in 0 .. N - 1, n \in S PROVE n + 1 \in S
    <3>1. n + 1 \in 0 .. N /\ r[n] \subseteq r[n + 1]
      BY <1>2, <1>4 DEF AddsFacts
    <3>2. QED
      BY <2>2, <3>1
  <2> HIDE DEF S
  <2>3. \A n \in 0 .. N : n \in S
    BY <1>2, <2>1, <2>2, UpTo
  <2>4. QED
    BY <2>3 DEF S
<1>6. ASSUME NEW X \in SUBSET Refs, z \subseteq X, Closed(X, F)
      PROVE  \A n \in 0 .. N : r[n] \subseteq X
  <2> DEFINE S == {n \in 0 .. N : r[n] \subseteq X}
  <2>1. 0 \in S
    BY <1>2, <1>3, <1>6
  <2>2. ASSUME NEW n \in 0 .. N - 1, n \in S PROVE n + 1 \in S
    <3>1. n + 1 \in 0 .. N /\ r[n + 1] = F[r[n]]
      BY <1>2, <1>4
    <3>2. QED
      BY <1>6, <2>2, <3>1 DEF Closed
  <2> HIDE DEF S
  <2>3. \A n \in 0 .. N : n \in S
    BY <1>2, <2>1, <2>2, UpTo
  <2>4. QED
    BY <2>3 DEF S
<1>7. \A n \in 0 .. N : F[r[n]] = r[n] \/ Cardinality(r[n] \cap Facts) >= n
  <2> DEFINE S == {n \in 0 .. N : F[r[n]] = r[n] \/ Cardinality(r[n] \cap Facts) >= n}
  <2>1. \A A \in SUBSET Facts : IsFiniteSet(A) /\ Cardinality(A) \in Nat
    BY <1>2, FS_Subset, FS_CardinalityType
  <2>2. 0 \in S
    BY <1>2, <2>1
  <2>3. ASSUME NEW n \in 0 .. N - 1, n \in S PROVE n + 1 \in S
    <3>1. n + 1 \in 0 .. N /\ r[n + 1] = F[r[n]] /\ r[n] \in SUBSET Refs
      BY <1>2, <1>4
    <3>2. CASE F[r[n]] = r[n]
      BY <3>1, <3>2
    <3>3. CASE F[r[n]] # r[n] /\ Cardinality(r[n] \cap Facts) >= n
      <4>1. PICK f \in Facts : f \in r[n + 1] /\ f \notin r[n]
        BY <3>1, <3>3 DEF AddsFacts
      <4>2. PICK A : A = r[n] \cap Facts
        OBVIOUS
      <4>3. PICK B : B = r[n + 1] \cap Facts
        OBVIOUS
      <4>4. A \cup {f} \in SUBSET B /\ f \notin A /\ A \in SUBSET Facts /\ B \in SUBSET Facts
        BY <3>1, <4>1, <4>2, <4>3 DEF AddsFacts
      <4>5. Cardinality(A \cup {f}) = Cardinality(A) + 1
        BY <2>1, <4>4, FS_AddElement
      <4>6. Cardinality(A \cup {f}) <= Cardinality(B)
        BY <2>1, <4>4, FS_Subset
      <4>7. Cardinality(A) \in Nat /\ Cardinality(B) \in Nat /\ Cardinality(A) >= n
        BY <2>1, <3>3, <4>2, <4>4
      <4>8. Cardinality(B) >= n + 1
        BY <1>2, <4>5, <4>6, <4>7
      <4>9. QED
        BY <3>1, <4>3, <4>8
    <3>4. QED
      BY <2>3, <3>2, <3>3
  <2> HIDE DEF S
  <2>4. \A n \in 0 .. N : n \in S
    BY <1>2, <2>2, <2>3, UpTo
  <2>5. QED
    BY <2>4 DEF S
<1>8. F[r[N]] = r[N]
  <2>1. N \in 0 .. N /\ r[N] \in SUBSET Refs
    BY <1>2, <1>3
  <2>2. CASE Cardinality(r[N] \cap Facts) >= N
    <3>1. PICK A : A = r[N] \cap Facts
      OBVIOUS
    <3>2. A \in SUBSET Facts /\ Cardinality(A) <= N /\ Cardinality(A) \in Nat
      BY <1>1, <1>2, <3>1, FS_Subset, FS_CardinalityType
    <3>3. Cardinality(A) = Cardinality(Facts)
      BY <1>1, <1>2, <2>2, <3>1, <3>2
    <3>4. A = Facts
      BY <1>2, <3>2, <3>3, FS_Subset
    <3>5. PICK X \in SUBSET Refs : X = r[N]
      BY <2>1
    <3>6. Facts \subseteq X /\ X \subseteq F[X] /\ F[X] \ X \subseteq Facts
      BY <3>1, <3>4, <3>5 DEF AddsFacts
    <3>7. F[X] = X
      BY <3>6
    <3>8. QED
      BY <3>5, <3>7
  <2>3. QED
    BY <1>7, <2>1, <2>2
<1>9. N \in 0 .. N
  BY <1>2
<1>10. QED
  BY <1>1, <1>3, <1>5, <1>6, <1>8, <1>9

\* A function that follows the step wherever it is defined iterates it.
LEMMA Unrolled ==
  ASSUME NEW N \in Nat, NEW V, NEW z \in V, NEW F \in [V -> V],
         NEW q, q = [n \in 0 .. N |-> q[n]], q[0] = z,
         \A n \in 1 .. N : q[n - 1] \in V => q[n] = F[q[n - 1]]
  PROVE  Iterates(q, N, V, z, F)
<1> DEFINE S == {n \in 0 .. N : q[n] \in V}
<1>1. 0 \in S
  OBVIOUS
<1>2. ASSUME NEW n \in 0 .. N - 1, n \in S PROVE n + 1 \in S
  <2>1. n + 1 \in 1 .. N /\ (n + 1) - 1 = n
    OBVIOUS
  <2>2. q[n + 1] = F[q[n]]
    BY <1>2, <2>1
  <2>3. QED
    BY <1>2, <2>1, <2>2
<1> HIDE DEF S
<1>3. \A n \in 0 .. N : n \in S
  BY <1>1, <1>2, UpTo
<1>4. \A n \in 0 .. N : q[n] \in V
  BY <1>3 DEF S
<1>5. \A n \in 1 .. N : n - 1 \in 0 .. N
  OBVIOUS
<1>6. \A n \in 1 .. N : q[n] = F[q[n - 1]]
  BY <1>4, <1>5
<1>7. QED
  BY <1>4, <1>6 DEF Iterates

\* The rounds of Held, and its step.
Rounds(standing, support) ==
  LET round[n \in 0..Cardinality(Facts)] ==
        IF n = 0 THEN standing
        ELSE LET held == round[n - 1]
             IN  held \cup {f \in DOMAIN support : \E g \in support[f] : g \subseteq held}
  IN  round

Widen(held, support) == held \cup {f \in DOMAIN support : \E g \in support[f] : g \subseteq held}

\* What holds is what the sources that stand support, and no more.
LEMMA HeldReach ==
  ASSUME NEW standing \in SUBSET Refs, NEW support, DOMAIN support \subseteq Facts
  PROVE  /\ Held(standing, support) \in SUBSET Refs
         /\ standing \subseteq Held(standing, support)
         /\ \A f \in DOMAIN support : \A g \in support[f] :
              g \subseteq Held(standing, support) => f \in Held(standing, support)
         /\ \A X \in SUBSET Refs :
              standing \subseteq X /\ (\A f \in DOMAIN support : \A g \in support[f] :
                                       g \subseteq X => f \in X)
                => Held(standing, support) \subseteq X
<1>1. PICK N \in Nat : N = Cardinality(Facts)
  BY FactAssumption, FS_CardinalityType
<1>2. PICK F : F = [held \in SUBSET Refs |-> Widen(held, support)]
  OBVIOUS
<1>3. /\ F \in [SUBSET Refs -> SUBSET Refs]
      /\ \A held \in SUBSET Refs : F[held] = Widen(held, support)
  BY <1>2 DEF Widen, Refs
<1>4. AddsFacts(F)
  BY <1>3 DEF AddsFacts, Widen
<1>5. PICK V : V = SUBSET Refs
  OBVIOUS
<1>6. N \in Nat /\ standing \in V /\ F \in [V -> V]
  BY <1>1, <1>3, <1>5
<1>7. PICK r : Iterates(r, N, V, standing, F)
  BY <1>6, Recursion
<1> DEFINE Body(q) == [n \in 0 .. N |-> IF n = 0 THEN standing ELSE Widen(q[n - 1], support)]
<1>8. r = Body(r)
  <2>1. \A n \in 1 .. N : r[n - 1] \in SUBSET Refs
    BY <1>5, <1>7 DEF Iterates
  <2>2. \A n \in 0 .. N : r[n] = IF n = 0 THEN standing ELSE Widen(r[n - 1], support)
    BY <1>3, <1>7, <2>1 DEF Iterates
  <2>3. QED
    BY <1>7, <2>2 DEF Iterates
<1>9. Rounds(standing, support) = CHOOSE q : q = Body(q)
  BY <1>1 DEF Rounds, Widen
<1>10. Rounds(standing, support) = Body(Rounds(standing, support))
  BY <1>8, <1>9
<1>11. PICK q : q = Rounds(standing, support)
  OBVIOUS
<1>12. /\ q = [n \in 0 .. N |-> q[n]] /\ q[0] = standing
       /\ \A n \in 1 .. N : q[n] = Widen(q[n - 1], support)
  BY <1>10, <1>11
<1>13. \A n \in 1 .. N : q[n - 1] \in V => q[n] = F[q[n - 1]]
  BY <1>3, <1>5, <1>12
<1>14. Iterates(q, N, V, standing, F)
  BY <1>6, <1>12, <1>13, Unrolled
<1>15. Held(standing, support) = q[N]
  BY <1>1, <1>11 DEF Held, Rounds
<1>16. /\ q[N] \in SUBSET Refs /\ standing \subseteq q[N] /\ F[q[N]] = q[N]
       /\ \A X \in SUBSET Refs : standing \subseteq X /\ Closed(X, F) => q[N] \subseteq X
  BY <1>1, <1>4, <1>5, <1>6, <1>14, RoundsReach
<1>17. \A f \in DOMAIN support : \A g \in support[f] : g \subseteq q[N] => f \in q[N]
  <2>1. Widen(q[N], support) = q[N]
    BY <1>3, <1>16
  <2>2. QED
    BY <2>1 DEF Widen
<1>18. ASSUME NEW X \in SUBSET Refs, standing \subseteq X,
              \A f \in DOMAIN support : \A g \in support[f] : g \subseteq X => f \in X
       PROVE  q[N] \subseteq X
  <2>1. Closed(X, F)
    BY <1>3, <1>18 DEF Widen, Closed
  <2>2. QED
    BY <1>16, <1>18, <2>1
<1>19. QED
  BY <1>15, <1>16, <1>17, <1>18

\* The rounds of affected, and its step.
Reached(x, s) ==
  LET reach[n \in 0..Cardinality(Facts)] ==
        IF n = 0 THEN {x}
        ELSE LET found == reach[n - 1]
             IN  found \cup {f \in Facts : Recorded(f, s) /\ (UNION fact[f].support) \cap found # {}}
  IN  reach

\* The items that are affected rest on what was reached.
LEMMA AffectedIs ==
  ASSUME NEW x, NEW s
  PROVE  affected(x, s) =
           {i \in Items : \E d \in deps : /\ d.item = i /\ d.seq <= s
                             /\ (UNION d.support) \cap Reached(x, s)[Cardinality(Facts)] # {}}
BY DEF affected, Reached

Rests(found, s) ==
  found \cup {f \in Facts : Recorded(f, s) /\ (UNION fact[f].support) \cap found # {}}

\* What is affected is all that rests on the resource, through any facts.
LEMMA ReachedAll ==
  ASSUME NEW x \in Refs, NEW s
  PROVE  /\ x \in Reached(x, s)[Cardinality(Facts)]
         /\ Reached(x, s)[Cardinality(Facts)] \in SUBSET Refs
         /\ \A f \in Facts :
              Recorded(f, s) /\ (UNION fact[f].support) \cap Reached(x, s)[Cardinality(Facts)] # {}
                => f \in Reached(x, s)[Cardinality(Facts)]
<1>1. PICK N \in Nat : N = Cardinality(Facts)
  BY FactAssumption, FS_CardinalityType
<1>2. PICK F : F = [found \in SUBSET Refs |-> Rests(found, s)]
  OBVIOUS
<1>3. /\ F \in [SUBSET Refs -> SUBSET Refs]
      /\ \A found \in SUBSET Refs : F[found] = Rests(found, s)
  BY <1>2 DEF Rests, Refs
<1>4. AddsFacts(F)
  BY <1>3 DEF AddsFacts, Rests
<1>5. PICK V : V = SUBSET Refs
  OBVIOUS
<1>6. PICK z : z = {x}
  OBVIOUS
<1>7. N \in Nat /\ z \in V /\ F \in [V -> V]
  BY <1>1, <1>3, <1>5, <1>6
<1>8. PICK r : Iterates(r, N, V, z, F)
  BY <1>7, Recursion
<1> DEFINE Body(q) == [n \in 0 .. N |-> IF n = 0 THEN z ELSE Rests(q[n - 1], s)]
<1>9. r = Body(r)
  <2>1. \A n \in 1 .. N : r[n - 1] \in SUBSET Refs
    BY <1>5, <1>8 DEF Iterates
  <2>2. \A n \in 0 .. N : r[n] = IF n = 0 THEN z ELSE Rests(r[n - 1], s)
    BY <1>3, <1>8, <2>1 DEF Iterates
  <2>3. QED
    BY <1>8, <2>2 DEF Iterates
<1>10. Reached(x, s) = CHOOSE q : q = Body(q)
  BY <1>1, <1>6 DEF Reached, Rests
<1>11. Reached(x, s) = Body(Reached(x, s))
  BY <1>9, <1>10
<1>12. PICK q : q = Reached(x, s)
  OBVIOUS
<1>13. /\ q = [n \in 0 .. N |-> q[n]] /\ q[0] = z
       /\ \A n \in 1 .. N : q[n] = Rests(q[n - 1], s)
  BY <1>11, <1>12
<1>14. \A n \in 1 .. N : q[n - 1] \in V => q[n] = F[q[n - 1]]
  BY <1>3, <1>5, <1>13
<1>15. Iterates(q, N, V, z, F)
  BY <1>7, <1>13, <1>14, Unrolled
<1>16. q[N] \in SUBSET Refs /\ z \subseteq q[N] /\ F[q[N]] = q[N]
  BY <1>1, <1>4, <1>5, <1>7, <1>15, RoundsReach
<1>17. Rests(q[N], s) = q[N]
  BY <1>3, <1>16
<1>18. QED
  BY <1>1, <1>6, <1>12, <1>16, <1>17 DEF Rests

-----------------------------------------------------------------------------
(* Invalidations.                                                               *)

\* A revision that withdrew a source or superseded a fact has asked for what
\* rests on it.
AskedInv ==
  /\ \A x \in Sources : gone[x] # 0 =>
       /\ gone[x] <= head[Home]
       /\ event[gone[x]].status # "none" /\ event[gone[x]].resource = x
  /\ \A f \in Facts :
       /\ fact[f].seq <= head[Home]
       /\ fact[f].old # NoFact =>
            /\ fact[f].seq # 0
            /\ event[fact[f].seq].status # "none" /\ event[fact[f].seq].resource = fact[f].old

\* Requests are kept as what they ask for.
LEMMA RequestsStay ==
  ASSUME AskedInv, TypeOK, UNCHANGED <<fact, gone>>, head'[Home] >= head[Home],
         head'[Home] \in Int,
         \A s \in 1 .. MaxSeq : /\ event[s].status # "none" => event'[s].status # "none"
                                /\ event'[s].resource = event[s].resource
  PROVE  AskedInv'
<1>1. /\ \A x \in Sources : gone[x] \in 0 .. MaxSeq
      /\ \A f \in Facts : fact[f].seq \in 0 .. MaxSeq
      /\ head[Home] \in Int /\ MaxSeq \in Nat
  BY HomeIsVault, BoundAssumption DEF TypeOK, Fact
<1>2. \A n \in 0 .. MaxSeq : n # 0 => n \in 1 .. MaxSeq
  BY <1>1
<1>3. QED
  BY <1>1, <1>2 DEF AskedInv

\* Facts and withdrawals ask as they publish their revision.
LEMMA PublishAsks ==
  ASSUME AskedInv, TypeOK, publishRevision(Home), UNCHANGED event \/ \E x : Requests(x),
         \A x \in Sources : \/ gone'[x] = gone[x]
                            \/ gone'[x] = head[Home] + 1 /\ Requests(x),
         \A f \in Facts : \/ fact'[f] = fact[f]
                          \/ /\ fact'[f].seq = head[Home] + 1
                             /\ fact'[f].old # NoFact => Requests(fact'[f].old)
  PROVE  AskedInv'
<1>1. PICK n : n = head[Home] + 1
  OBVIOUS
<1>2. /\ head[Home] \in 0 .. MaxSeq /\ n \in 1 .. MaxSeq /\ head'[Home] = n
      /\ MaxSeq \in Nat /\ n = head[Home] + 1
  BY <1>1, HomeIsVault, PublishType, BoundAssumption DEF TypeOK, publishRevision
<1>3. /\ \A x \in Sources : gone[x] \in 0 .. MaxSeq
      /\ \A f \in Facts : fact[f].seq \in 0 .. MaxSeq
  BY DEF TypeOK, Fact
<1>4. \A s \in 1 .. MaxSeq : s # n => event'[s] = event[s]
  BY <1>2 DEF TypeOK, Requests
<1>5. ASSUME NEW x, Requests(x) PROVE event'[n].status # "none" /\ event'[n].resource = x
  BY <1>2, <1>5 DEF TypeOK, Requests
<1>6. ASSUME NEW x \in Sources, gone'[x] # 0
      PROVE  /\ gone'[x] <= head'[Home]
             /\ event'[gone'[x]].status # "none" /\ event'[gone'[x]].resource = x
  <2>1. CASE gone'[x] = gone[x]
    <3>1. gone[x] <= head[Home] /\ gone[x] \in 1 .. MaxSeq /\ gone[x] # n
      BY <1>2, <1>3, <1>6, <2>1 DEF AskedInv
    <3>2. event'[gone[x]] = event[gone[x]]
      BY <1>4, <3>1
    <3>3. QED
      BY <1>2, <1>6, <2>1, <3>1, <3>2 DEF AskedInv
  <2>2. CASE gone'[x] = head[Home] + 1 /\ Requests(x)
    BY <1>2, <1>5, <2>2
  <2>3. QED
    BY <2>1, <2>2
<1>7. ASSUME NEW f \in Facts
      PROVE  /\ fact'[f].seq <= head'[Home]
             /\ fact'[f].old # NoFact =>
                  /\ fact'[f].seq # 0
                  /\ event'[fact'[f].seq].status # "none"
                  /\ event'[fact'[f].seq].resource = fact'[f].old
  <2>1. CASE fact'[f] = fact[f]
    <3>1. fact[f].seq <= head[Home] /\ fact[f].seq \in 0 .. MaxSeq /\ fact[f].seq # n
      BY <1>2, <1>3 DEF AskedInv
    <3>2. fact[f].seq # 0 => event'[fact[f].seq] = event[fact[f].seq]
      BY <1>4, <3>1
    <3>3. QED
      BY <1>2, <2>1, <3>1, <3>2 DEF AskedInv
  <2>2. CASE fact'[f].seq = n /\ (fact'[f].old # NoFact => Requests(fact'[f].old))
    BY <1>2, <1>5, <2>2
  <2>3. QED
    BY <1>2, <2>1, <2>2
<1>8. QED
  BY <1>6, <1>7 DEF AskedInv

LEMMA NextAsks ==
  ASSUME AskedInv, TruthInv, [Next]_vars
  PROVE  AskedInv'
<1>0. TypeOK /\ head[Home] \in 0 .. MaxSeq /\ MaxSeq \in Nat
  BY HomeIsVault, BoundAssumption DEF TruthInv, TypeOK
<1>1. CASE UNCHANGED <<head, fact, gone, event>>
  BY <1>0, <1>1, RequestsStay
<1>2. ASSUME NEW f \in Facts, NEW when \in Windows, NEW old \in Facts \cup {NoFact},
             NEW support \in Supports[f], recordFact(f, support, when, old)
      PROVE  AskedInv'
  <2>1. PICK new : new = [seq |-> head[Home] + 1, support |-> support, when |-> when, old |-> old]
    OBVIOUS
  <2>2. fact' = [fact EXCEPT ![f] = new] /\ gone' = gone /\ publishRevision(Home)
    BY <1>2, <2>1 DEF recordFact
  <2>3. new.seq = head[Home] + 1 /\ new.old = old
    BY <2>1
  <2>4. \A g \in Facts : \/ fact'[g] = fact[g]
                         \/ fact'[g].seq = head[Home] + 1 /\ fact'[g].old = old
    BY <1>0, <2>2, <2>3 DEF TypeOK
  <2>5. (UNCHANGED event /\ old = NoFact) \/ Requests(old)
    BY <1>2 DEF recordFact
  <2>6. QED
    BY <1>0, <2>2, <2>4, <2>5, PublishAsks
<1>3. ASSUME NEW x \in Sources, withdrawSource(x) PROVE AskedInv'
  <2>1. /\ gone' = [gone EXCEPT ![x] = head[Home] + 1] /\ fact' = fact /\ publishRevision(Home)
        /\ Requests(x)
    BY <1>3 DEF withdrawSource
  <2>2. gone'[x] = head[Home] + 1 /\ \A y \in Sources : y # x => gone'[y] = gone[y]
    BY <1>0, <2>1 DEF TypeOK
  <2>3. ASSUME NEW y \in Sources
        PROVE  gone'[y] = gone[y] \/ (gone'[y] = head[Home] + 1 /\ Requests(y))
    <3>1. CASE y = x
      BY <2>1, <2>2, <3>1
    <3>2. y # x => gone'[y] = gone[y]
      BY <2>2
    <3>3. QED
      BY <3>1, <3>2
  <2>4. QED
    BY <1>0, <2>1, <2>3, PublishAsks
<1>4. ASSUME NEW v \in Others, publishElsewhere(v) PROVE AskedInv'
  <2>1. head' = [head EXCEPT ![v] = head[v] + 1] /\ UNCHANGED <<fact, gone, event>>
    BY <1>4 DEF publishElsewhere, publishRevision
  <2>2. head'[Home] = head[Home]
    BY <1>0, <2>1, VaultAssumption, HomeIsVault DEF TypeOK
  <2>3. QED
    BY <1>0, <2>1, <2>2, RequestsStay
<1>5. ASSUME NEW s \in 1 .. MaxSeq, NEW t \in Time,
             rebuildDerivedProjection(s, t) \/ cleanupInvalidDerivedItems(s, t)
      PROVE  AskedInv'
  <2>1. UNCHANGED <<head, fact, gone>>
    BY <1>5 DEF rebuildDerivedProjection, cleanupInvalidDerivedItems, truth
  <2>2. \A n \in 1 .. MaxSeq : /\ event[n].status # "none" => event'[n].status # "none"
                               /\ event'[n].resource = event[n].resource
    <3>1. CASE UNCHANGED event
      BY <3>1
    <3>2. CASE rebuildDerivedProjection(s, t)
      <4>1. PICK invalid : event' = [event EXCEPT ![s].status = "projected", ![s].invalid = invalid]
        BY <3>2 DEF rebuildDerivedProjection
      <4>2. QED
        BY <1>0, <4>1 DEF TypeOK, Event
    <3>3. QED
      BY <1>5, <3>1, <3>2 DEF cleanupInvalidDerivedItems
  <2>3. QED
    BY <1>0, <2>1, <2>2, RequestsStay
<1>6. CASE removeVectors
  <2>1. UNCHANGED <<head, fact, gone>> /\ event' = [event EXCEPT ![worker.event].status = "settled"]
    BY <1>6 DEF removeVectors, truth
  <2>2. \A n \in 1 .. MaxSeq : /\ event[n].status # "none" => event'[n].status # "none"
                               /\ event'[n].resource = event[n].resource
    BY <1>0, <2>1 DEF TypeOK, Event
  <2>3. QED
    BY <1>0, <2>1, <2>2, RequestsStay
<1>7. QED
  BY <1>1, <1>2, <1>3, <1>4, <1>5, <1>6
     DEF Next, embed, registerDerivedDependency, workerCrashes, startQuery, filterDerivedTruth,
         captureSnapshot, snapshotUnchanged, recheck, vars, truth

LEMMA InitAsks == Init => AskedInv
<1> SUFFICES ASSUME Init PROVE AskedInv
  OBVIOUS
<1>1. /\ \A x \in Sources : gone[x] = 0
      /\ \A f \in Facts : fact[f].seq = 0 /\ fact[f].old = NoFact
      /\ head[Home] = 0
  BY HomeIsVault DEF Init, Unrecorded, Zero
<1>2. QED
  BY <1>1 DEF AskedInv

\* What held before a revision and does not hold at it rests on what the
\* revision asked to invalidate.
LEMMA LostIsReached ==
  ASSUME TypeOK, AskedInv, NEW s \in 1 .. head[Home], NEW t, NEW A \in SUBSET Refs,
         A = IF event[s].status # "none" /\ event[s].resource \in Refs
             THEN Reached(event[s].resource, s)[Cardinality(Facts)] ELSE {}
  PROVE  HeldAt(s - 1, t) \subseteq HeldAt(s, t) \cup A
<1>1. /\ Sources \subseteq Refs /\ Facts \subseteq Refs /\ NoFact \notin Refs
      /\ s \in Int /\ 1 <= s /\ Standing(s) \in SUBSET Refs /\ Standing(s - 1) \in SUBSET Refs
  BY FactAssumption DEF Refs, Standing
<1>2. \A f \in Facts : fact[f].seq \in Int /\ fact[f].old \in Facts \cup {NoFact}
  BY DEF TypeOK, Fact
<1>3. \A x \in Sources : gone[x] \in Int
  BY DEF TypeOK
<1>4. event[s].status # "none" /\ event[s].resource \in Refs => event[s].resource \in A
  BY ReachedAll
<1>5. \A f \in Facts : Recorded(f, s) /\ (UNION fact[f].support) \cap A # {} => f \in A
  BY ReachedAll
<1>6. PICK before : before = [f \in Current(s - 1, t) |-> fact[f].support]
  OBVIOUS
<1>7. PICK now : now = [f \in Current(s, t) |-> fact[f].support]
  OBVIOUS
<1>8. DOMAIN before \subseteq Facts /\ DOMAIN now \subseteq Facts
  BY <1>6, <1>7 DEF Current
<1>9. PICK after : after = HeldAt(s, t)
  OBVIOUS
<1>10. /\ after \in SUBSET Refs /\ Standing(s) \subseteq after
       /\ \A f \in DOMAIN now : \A g \in now[f] : g \subseteq after => f \in after
  <2>1. after = Held(Standing(s), now)
    BY <1>7, <1>9 DEF HeldAt
  <2>2. PICK standing \in SUBSET Refs : standing = Standing(s)
    BY <1>1
  <2>3. after = Held(standing, now)
    BY <2>1, <2>2
  <2>4. QED
    BY <1>8, <2>2, <2>3, HeldReach
<1>11. Standing(s - 1) \subseteq after \cup A
  <2> SUFFICES ASSUME NEW x \in Standing(s - 1), x \notin Standing(s) PROVE x \in A
    BY <1>10
  <2>1. x \in Sources /\ gone[x] = s
    BY <1>1, <1>3 DEF Standing
  <2>2. QED
    BY <1>1, <1>4, <2>1 DEF AskedInv
<1>12. ASSUME NEW f \in DOMAIN before, NEW g \in before[f], g \subseteq after \cup A
       PROVE  f \in after \cup A
  <2>1. f \in Facts /\ f \in Current(s - 1, t) /\ g \in fact[f].support
    BY <1>6, <1>8
  <2>2. Recorded(f, s) /\ In(fact[f].when, t)
    BY <1>1, <1>2, <2>1 DEF Current, Recorded
  <2>3. CASE f \notin Current(s, t)
    <3>1. PICK h \in Facts : fact[h].old = f /\ Recorded(h, s) /\ In(fact[h].when, t)
      BY <2>1, <2>2, <2>3 DEF Current
    <3>2. ~Recorded(h, s - 1)
      BY <2>1, <3>1 DEF Current
    <3>3. fact[h].seq = s
      BY <1>1, <1>2, <3>1, <3>2 DEF Recorded
    <3>4. event[s].status # "none" /\ event[s].resource = f
      BY <1>1, <2>1, <3>1, <3>3 DEF AskedInv
    <3>5. QED
      BY <1>1, <1>4, <2>1, <3>4
  <2>4. CASE f \in Current(s, t) /\ g \subseteq after
    BY <1>7, <1>10, <2>1, <2>4
  <2>5. CASE ~(g \subseteq after)
    <3>1. PICK x \in g : x \in A
      BY <1>12, <2>5
    <3>2. x \in (UNION fact[f].support) \cap A
      BY <2>1, <3>1
    <3>3. (UNION fact[f].support) \cap A # {}
      BY <3>2
    <3>4. QED
      BY <1>5, <2>1, <2>2, <3>3
  <2>6. QED
    BY <2>3, <2>4, <2>5
<1>13. Held(Standing(s - 1), before) \subseteq after \cup A
  <2>1. PICK X \in SUBSET Refs : X = after \cup A
    BY <1>10
  <2>2. /\ Standing(s - 1) \subseteq X
        /\ \A f \in DOMAIN before : \A g \in before[f] : g \subseteq X => f \in X
    BY <1>11, <1>12, <2>1
  <2>3. Held(Standing(s - 1), before) \subseteq X
    BY <1>1, <1>8, <2>2, HeldReach
  <2>4. QED
    BY <2>1, <2>3
<1>14. QED
  BY <1>6, <1>9, <1>13 DEF HeldAt

LEMMA AskedIsAffected ==
  ASSUME TypeOK, AskedInv
  PROVE  InvalidatedIsAffected
<1> SUFFICES ASSUME NEW s \in 1 .. head[Home], NEW t \in Time, NEW d \in deps, d.seq <= s,
                    NEW g \in d.support, g \subseteq HeldAt(s - 1, t),
                    ~\E h \in d.support : h \subseteq HeldAt(s, t)
             PROVE  event[s].status # "none" /\ d.item \in affected(event[s].resource, s)
  BY DEF InvalidatedIsAffected
<1>1. PICK A : A = IF event[s].status # "none" /\ event[s].resource \in Refs
                   THEN Reached(event[s].resource, s)[Cardinality(Facts)] ELSE {}
  OBVIOUS
<1>2. A \in SUBSET Refs
  BY <1>1, ReachedAll
<1>3. HeldAt(s - 1, t) \subseteq HeldAt(s, t) \cup A
  BY <1>1, <1>2, LostIsReached, ZenonT(60)
<1>4. (UNION d.support) \cap A # {}
  <2>1. PICK x \in g : x \notin HeldAt(s, t)
    OBVIOUS
  <2>2. x \in A /\ x \in UNION d.support
    BY <1>3, <2>1
  <2>3. QED
    BY <2>2
<1>5. /\ event[s].status # "none"
      /\ (UNION d.support) \cap Reached(event[s].resource, s)[Cardinality(Facts)] # {}
  BY <1>1, <1>4
<1>6. d.item \in Items
  BY DEF TypeOK
<1>7. QED
  BY <1>5, <1>6, AffectedIs

\* SupportsAgree: an invalidation misses nothing that rested on what it takes
\* away, through any number of facts (temporal-truth.ts, affectedDerivedItems
\* and supportEvaluation).
THEOREM InvalidationsReachAll == Spec => []SupportsAgree
<1>1. AskedInv /\ TruthInv /\ [Next]_vars => AskedInv'
  BY NextAsks
<1>2. TruthInv /\ AskedInv => SupportsAgree
  BY AskedIsAffected DEF SupportsAgree, TruthInv
<1>3. QED
  BY <1>1, <1>2, InitAsks, TruthHolds, PTL DEF Spec
=============================================================================
