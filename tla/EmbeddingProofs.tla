--------------------------- MODULE EmbeddingProofs ---------------------------
(* Machine-checked theorems about the vector index, for every set of units,    *)
(* every number of revisions, and all faults.                                  *)
EXTENDS EmbeddingIndex, TLAPS

-----------------------------------------------------------------------------
(* Builders.                                                                   *)

Builds == Build \cup {Idle}

\* A builder that stands at a phase has a build.
LEMMA BuildOf ==
  ASSUME TypeOK, NEW b \in Builders, work[b].at \in Phases
  PROVE  work[b] \in Build
<1>1. work[b] \in Build \cup {Idle}
  BY DEF TypeOK
<1>2. Idle.at \notin Phases
  BY DEF Idle, Phases, TryPhases, OpenPhases
<1> QED BY <1>1, <1>2

\* The fields of a build.
LEMMA BuildFields ==
  ASSUME NEW w \in Build
  PROVE  /\ w.at \in Phases /\ w.revision \in Revisions /\ w.kept \in Hashes
         /\ w.status \in Statuses /\ w.seen \in Contents /\ w.todo \in SUBSET Units
         /\ w.overtaken \in BOOLEAN
BY DEF Build

\* Nothing is a content.
LEMMA NothingType == Nothing \in Contents /\ 0 \in Hashes /\ "none" \in Statuses
BY DEF Nothing, Contents, Hashes, Statuses

\* Forgetting leaves a build.
LEMMA ForgetType == ASSUME NEW w \in Build PROVE Forget(w) \in Build
<1> DEFINE kept == IF w.at = "completing" THEN 0 ELSE w.kept
           now == IF w.at \in {"covering", "activating"} THEN w.status ELSE "none"
           seen == IF w.at \in {"projecting", "requesting", "covering", "staling", "beginning",
                                "deleting", "planning", "writing", "readying"} THEN w.seen
                   ELSE Nothing
           overtaken == w.overtaken /\ w.at # "completing"
           todo == IF w.at = "writing" THEN w.todo ELSE {}
<1>1. kept \in Hashes /\ now \in Statuses /\ seen \in Contents /\ todo \in SUBSET Units
  BY NothingType, BuildFields
<1>2. overtaken \in BOOLEAN
  BY BuildFields
<1>3. Forget(w) = [w EXCEPT !.kept = kept, !.status = now, !.seen = seen,
                            !.overtaken = overtaken, !.todo = todo]
  BY DEF Forget
<1> HIDE DEF kept, now, seen, overtaken, todo
<1> QED BY <1>1, <1>2, <1>3 DEF Build

\* A builder's next build, and its next phase, keep the types.
LEMMA AfterType ==
  ASSUME TypeOK, NEW b \in Builders, NEW w \in Build
  PROVE  After(b, w) \in [Builders -> Builds]
BY ForgetType DEF TypeOK, After, Builds

LEMMA MoveType ==
  ASSUME TypeOK, NEW b \in Builders, work[b].at \in Phases, NEW at \in Phases, MoveTo(b, at)
  PROVE  work' \in [Builders -> Builds]
<1>1. [work[b] EXCEPT !.at = at] \in Build
  BY BuildOf DEF Build
<1> QED BY <1>1, AfterType DEF MoveTo

LEMMA OvertakeType ==
  ASSUME TypeOK, NEW b \in Builders, work[b].at \in Phases, NEW at \in Phases
  PROVE  Overtake(b, at) \in [Builders -> Builds]
<1> DEFINE moved == After(b, [work[b] EXCEPT !.at = at])
<1>1. moved \in [Builders -> Builds]
  BY BuildOf, AfterType DEF Build
<1>2. \A v \in Builds : (IF v = Idle THEN Idle ELSE [v EXCEPT !.overtaken = TRUE]) \in Builds
  BY DEF Builds, Build
<1>3. Other(b) \in Builders
  BY DEF Other, Builders
<1>4. Overtake(b, at) = [moved EXCEPT ![Other(b)] = IF @ = Idle THEN Idle
                                                  ELSE [@ EXCEPT !.overtaken = TRUE]]
  BY DEF Overtake
<1> HIDE DEF moved
<1> QED BY <1>1, <1>2, <1>3, <1>4

\* What is searched is a revision, or there is none.
LEMMA SearchedType == currentActiveVectorRevision \in Hashes
BY DEF currentActiveVectorRevision, Searched, Hashes

\* The step of a generation keeps its type.
LEMMA TransitionType ==
  ASSUME TypeOK, NEW b \in Builders, work[b].at \in Phases, NEW to \in Statuses,
         NEW allowed, NEW next \in Phases, transition(b, to, allowed, next)
  PROVE  /\ status' \in [Revisions -> Statuses]
         /\ work' \in [Builders -> Builds]
         /\ UNCHANGED <<main, event, corpus, vector, marker, touched, bounds>>
<1>1. status' \in [Revisions -> Statuses]
  BY BuildOf, BuildFields DEF TypeOK, transition
<1>2. "thrown" \in Phases
  BY DEF Phases
<1>3. MoveTo(b, next) \/ MoveTo(b, "thrown")
  BY DEF transition
<1>4. work' \in [Builders -> Builds]
  BY <1>2, <1>3, MoveType
<1> QED BY <1>1, <1>4 DEF transition

-----------------------------------------------------------------------------
(* Types.                                                                      *)

\* Documents and requests.
LEMMA OutsideType ==
  ASSUME TypeOK,
         \/ \E u \in Edited : Publish(u)
         \/ \E u \in Units : changeRefreshStatus(u)
         \/ HandleEvent \/ startRebuild
  PROVE  TypeOK'
<1> USE UnitAssumption, BoundAssumption
<1>1. \A at \in Phases, r \in Revisions : NewBuild(at, r) \in Build
  BY NothingType DEF NewBuild, Build
<1>2. ASSUME NEW u \in Edited, Publish(u) PROVE TypeOK'
  BY <1>2 DEF TypeOK, Publish, corpus, generations, bounds, Revisions
<1>3. ASSUME NEW u \in Units, changeRefreshStatus(u) PROVE TypeOK'
  <2>1. touched' \subseteq Revisions
    BY <1>3 DEF TypeOK, changeRefreshStatus, Touch, Selectable
  <2>2. live' \subseteq Units /\ changes' \in Nat
    BY <1>3 DEF TypeOK, changeRefreshStatus
  <2> QED BY <1>3, <2>1, <2>2 DEF TypeOK, changeRefreshStatus, main, generations
<1>4. ASSUME NEW r \in Revisions, takeEvent(r) PROVE TypeOK'
  <2>1. "reading" \in Phases /\ Worker \in Builders
    BY DEF Phases, Builders
  <2>2. work' \in [Builders -> Build \cup {Idle}] /\ event' \in [Revisions -> {"none", "open", "indexed", "done"}]
    BY <1>1, <1>4, <2>1 DEF TypeOK, takeEvent
  <2> QED BY <1>4, <2>2 DEF TypeOK, takeEvent, main, corpus, generations, bounds
<1>5. ASSUME NEW r \in Revisions, markIndexRequestComplete(r) PROVE TypeOK'
  <2>1. marker' \in Marker
    BY <1>5 DEF TypeOK, markIndexRequestComplete, Marker, Hashes
  <2> QED BY <1>5, <2>1 DEF TypeOK, markIndexRequestComplete, main, corpus, generations, bounds
<1>6. ASSUME startRebuild PROVE TypeOK'
  <2>1. "collecting" \in Phases /\ Operator \in Builders /\ head \in Revisions
    BY DEF Phases, Builders, TypeOK
  <2>2. work' \in [Builders -> Build \cup {Idle}] /\ rebuilds' \in Nat
    BY <1>1, <1>6, <2>1 DEF TypeOK, startRebuild
  <2> QED BY <1>6, <2>2 DEF TypeOK, startRebuild, main, corpus, generations
<1> QED BY <1>2, <1>3, <1>4, <1>5, <1>6 DEF HandleEvent

\* The statements that only the worker has.
LEMMA WorkerType ==
  ASSUME TypeOK,
         \/ readMarker \/ rebuildChangedUnits \/ markPending \/ markActivated \/ markFailed
         \/ acknowledge
  PROVE  TypeOK'
<1>0. Worker \in Builders
  BY DEF Builders
<1>p. {"reading", "structuring", "marking", "listing", "closing", "completing", "thrown"}
        \subseteq Phases
  BY DEF Phases, OpenPhases, TryPhases
<1>w. work[Worker].at \in Phases => work[Worker] \in Build
  BY <1>0, BuildOf
<1>1. CASE readMarker
  <2>1. work' \in [Builders -> Build \cup {Idle}]
    <3> DEFINE kept == IF marker.vector # 0 THEN marker.vector ELSE currentActiveVectorRevision
               at == IF marker.corpus = work[Worker].revision THEN "marking" ELSE "structuring"
               late == kept \notin Searched
    <3>1. kept \in Hashes /\ at \in Phases /\ late \in BOOLEAN
      BY <1>p, SearchedType DEF TypeOK, Marker
    <3>2. work' = [work EXCEPT ![Worker].at = at, ![Worker].kept = kept,
                               ![Worker].overtaken = late]
      BY <1>1 DEF readMarker
    <3>3. work[Worker] \in Build
      BY <1>1, <1>p, <1>w DEF readMarker
    <3> HIDE DEF kept, at, late
    <3> QED BY <1>0, <3>1, <3>2, <3>3 DEF TypeOK, Build
  <2> QED BY <1>1, <2>1 DEF TypeOK, readMarker, main, corpus, generations, bounds
<1>2. CASE rebuildChangedUnits
  <2>1. work' \in [Builders -> Builds]
    BY <1>0, <1>2, <1>p, MoveType DEF rebuildChangedUnits
  <2>2. work[Worker].revision \in Revisions
    BY <1>2, <1>p, <1>w, BuildFields DEF rebuildChangedUnits
  <2>3. touched' \subseteq Revisions
    BY <1>2 DEF TypeOK, rebuildChangedUnits, Touch, Selectable
  <2>4. document' \in Contents /\ live' \subseteq Units
    BY <1>2, <2>2 DEF TypeOK, rebuildChangedUnits, Contents, Hashes
  <2>5. unit' \in [Revisions -> Contents]
    <3> DEFINE r == work[Worker].revision
               new == [u \in Units |-> IF u \in changed[r] THEN r
                                       ELSE IF marker.corpus # r THEN unit[marker.corpus][u]
                                       ELSE unit[r][u]]
    <3>1. marker.corpus \in Revisions
      BY DEF TypeOK, Marker
    <3>2. new \in Contents
      BY <2>2, <3>1 DEF TypeOK, Contents, Hashes
    <3>3. unit' = [unit EXCEPT ![r] = new]
      BY <1>2 DEF rebuildChangedUnits
    <3> HIDE DEF new
    <3> QED BY <3>2, <3>3 DEF TypeOK
  <2> QED BY <1>2, <2>1, <2>3, <2>4, <2>5
          DEF TypeOK, rebuildChangedUnits, main, generations, bounds, Builds
<1>3. ASSUME NEW mark \in Marker, markVaultIndexRevision(mark),
             NEW at \in Phases, MoveTo(Worker, at), work[Worker].at \in Phases
      PROVE  TypeOK'
  <2>1. work' \in [Builders -> Builds]
    BY <1>0, <1>3, MoveType
  <2>2. crossed' \in BOOLEAN
    BY <1>3 DEF markVaultIndexRevision, Cross
  <2> QED BY <1>3, <2>1, <2>2
          DEF TypeOK, markVaultIndexRevision, main, corpus, generations, bounds, Builds
<1>4. CASE markPending
  <2>1. work[Worker].revision \in Revisions /\ work[Worker].kept \in Hashes
    BY <1>4, <1>p, <1>w, BuildFields DEF markPending
  <2>2. [corpus |-> work[Worker].revision, vector |-> work[Worker].kept,
         warning |-> "pending"] \in Marker
    BY <2>1 DEF Marker
  <2> QED BY <1>3, <1>4, <1>p, <2>2 DEF markPending
<1>5. CASE markActivated
  <2>1. work[Worker].revision \in Revisions
    BY <1>5, <1>p, <1>w, BuildFields DEF markActivated
  <2>2. [corpus |-> work[Worker].revision, vector |-> work[Worker].revision,
         warning |-> "none"] \in Marker
    BY <2>1 DEF Marker, Hashes
  <2> QED BY <1>3, <1>5, <1>p, <2>2 DEF markActivated
<1>6. CASE markFailed
  <2>1. work[Worker].revision \in Revisions /\ work[Worker].kept \in Hashes
    BY <1>6, <1>p, <1>w, BuildFields DEF markFailed
  <2>2. [corpus |-> work[Worker].revision, vector |-> work[Worker].kept,
         warning |-> "failed"] \in Marker
    BY <2>1 DEF Marker
  <2> QED BY <1>3, <1>6, <1>p, <2>2 DEF markFailed
<1>7. CASE acknowledge
  BY <1>0, <1>7 DEF TypeOK, acknowledge, main, corpus, generations, bounds
<1> QED BY <1>1, <1>2, <1>4, <1>5, <1>6, <1>7

\* The statements that only the operator has.
LEMMA OperatorType ==
  ASSUME TypeOK, collectDocuments \/ rebuildSpaceProjections \/ warnFailed
  PROVE  TypeOK'
<1>0. Operator \in Builders
  BY DEF Builders
<1>p. {"collecting", "projecting", "listing", "thrown"} \subseteq Phases
  BY DEF Phases, OpenPhases
<1>w. work[Operator].at \in Phases => work[Operator] \in Build
  BY <1>0, BuildOf
<1>1. CASE collectDocuments
  <2>1. work[Operator] \in Build /\ document \in Contents /\ "projecting" \in Phases
    BY <1>1, <1>p, <1>w DEF collectDocuments, TypeOK
  <2>2. work' \in [Builders -> Build \cup {Idle}]
    BY <1>0, <1>1, <2>1 DEF TypeOK, collectDocuments, Build
  <2> QED BY <1>1, <2>2 DEF TypeOK, collectDocuments, main, corpus, generations, bounds
<1>2. CASE rebuildSpaceProjections
  <2>1. work[Operator].revision \in Revisions /\ work[Operator].seen \in Contents
    BY <1>2, <1>p, <1>w, BuildFields DEF rebuildSpaceProjections
  <2>2. unit' \in [Revisions -> Contents] /\ marker' \in Marker
    BY <1>2, <2>1, SearchedType DEF TypeOK, rebuildSpaceProjections, Marker
  <2>3. touched' \subseteq Revisions
    BY <1>2 DEF TypeOK, rebuildSpaceProjections, Touch, Selectable
  <2>4. work' \in [Builders -> Builds]
    BY <1>0, <1>2, <1>p, OvertakeType DEF rebuildSpaceProjections
  <2> QED BY <1>2, <2>2, <2>3, <2>4
          DEF TypeOK, rebuildSpaceProjections, main, generations, bounds, Builds
<1>3. CASE warnFailed
  <2>1. marker' \in Marker
    BY <1>3 DEF TypeOK, warnFailed, Marker
  <2>2. work' \in [Builders -> Build \cup {Idle}]
    BY <1>0, <1>3 DEF TypeOK, warnFailed
  <2> QED BY <1>3, <2>1, <2>2 DEF TypeOK, warnFailed, main, corpus, generations, bounds
<1> QED BY <1>1, <1>2, <1>3

\* The phases of a build are phases.
LEMMA BuildPhases ==
  {"listing", "requesting", "covering", "restoring", "recalling", "staling", "beginning",
   "deleting", "closing", "planning", "writing", "readying", "activating", "confirming",
   "failing", "thrown", "completing"} \subseteq Phases
BY DEF Phases, OpenPhases, TryPhases

\* The end of a build keeps the types.
LEMMA ReturnType ==
  ASSUME TypeOK, NEW b \in Builders, work[b].at \in Phases, NEW activated, Return(b, activated)
  PROVE  work' \in [Builders -> Builds]
<1>1. CASE b = Operator
  BY <1>1 DEF Return, TypeOK, Builds
<1>2. CASE b # Operator
  <2>1. MoveTo(b, "closing") \/ MoveTo(b, "completing")
    BY <1>2 DEF Return
  <2> QED BY <2>1, BuildPhases, MoveType
<1> QED BY <1>1, <1>2

\* The statements of buildEmbeddingIndex.
LEMMA BuildStepType ==
  ASSUME TypeOK, NEW b \in Builders, BuildStep(b)
  PROVE  TypeOK'
<1> USE BuildPhases
<1>w. work[b].at \in Phases => work[b] \in Build
  BY BuildOf
<1>1. CASE listUnits(b)
  <2>1. Eligible(unit[work[b].revision], live) \in Contents
    BY <1>1, <1>w, BuildFields DEF TypeOK, listUnits, Eligible, Contents, Hashes
  <2>2. work[b] \in Build
    BY <1>1, <1>w DEF listUnits
  <2>3. work' \in [Builders -> Build \cup {Idle}]
    BY <1>1, <2>1, <2>2 DEF TypeOK, listUnits, Build
  <2> QED BY <1>1, <2>3 DEF TypeOK, listUnits, main, corpus, generations, bounds
<1>2. CASE request(b)
  <2>1. work[b] \in Build /\ work[b].revision \in Revisions
    BY <1>2, <1>w, BuildFields DEF request
  <2>2. (IF status[work[b].revision] = "none" THEN "REQUESTED" ELSE status[work[b].revision])
          \in Statuses
    BY <2>1 DEF TypeOK, Statuses
  <2>3. work' \in [Builders -> Build \cup {Idle}] /\ status' \in [Revisions -> Statuses]
    BY <1>2, <2>1, <2>2 DEF TypeOK, request, Build
  <2> QED BY <1>2, <2>3 DEF TypeOK, request, main, corpus, bounds
<1>3. CASE generationCoverage(b)
  <2>1. MoveTo(b, "restoring") \/ MoveTo(b, "staling") \/ MoveTo(b, "beginning")
    BY <1>3 DEF generationCoverage
  <2>2. work[b].at \in Phases
    BY <1>3 DEF generationCoverage
  <2>3. work' \in [Builders -> Builds]
    BY <2>1, <2>2, MoveType
  <2> QED BY <1>3, <2>3
          DEF TypeOK, generationCoverage, main, corpus, generations, bounds, Builds
<1>4. CASE stale(b)
  <2>1. crossed' \in BOOLEAN
    BY <1>4 DEF stale, Cross
  <2>2. "STALE" \in Statuses /\ work[b].at \in Phases /\ "beginning" \in Phases
    BY <1>4 DEF stale, Statuses
  <2>3. /\ status' \in [Revisions -> Statuses] /\ work' \in [Builders -> Builds]
        /\ UNCHANGED <<main, event, corpus, vector, marker, touched, bounds>>
    BY <1>4, <2>2, TransitionType DEF stale
  <2> QED BY <2>1, <2>3 DEF TypeOK, main, corpus, bounds, Builds
<1>5. CASE beginBuild(b)
  <2>1. crossed' \in BOOLEAN
    BY <1>5 DEF beginBuild, TypeOK
  <2>2. "BUILDING" \in Statuses /\ work[b].at \in Phases /\ "deleting" \in Phases
    BY <1>5 DEF beginBuild, Statuses
  <2>3. /\ status' \in [Revisions -> Statuses] /\ work' \in [Builders -> Builds]
        /\ UNCHANGED <<main, event, corpus, vector, marker, touched, bounds>>
    BY <1>5, <2>2, TransitionType DEF beginBuild
  <2> QED BY <2>1, <2>3 DEF TypeOK, main, corpus, bounds, Builds
<1>6. CASE deleteInvalidGenerationEmbeddings(b)
  <2>1. work' \in [Builders -> Builds]
    BY <1>6, MoveType DEF deleteInvalidGenerationEmbeddings
  <2>2. work[b].revision \in Revisions
    BY <1>6, <1>w, BuildFields DEF deleteInvalidGenerationEmbeddings
  <2>3. vector' \in [Revisions -> Contents]
    BY <1>6, <2>2, NothingType, SMTT(30) DEF TypeOK, deleteInvalidGenerationEmbeddings, Contents
  <2> QED BY <1>6, <2>1, <2>3
          DEF TypeOK, deleteInvalidGenerationEmbeddings, main, corpus, bounds, Builds
<1>7. CASE listMissing(b)
  <2> DEFINE r == work[b].revision
             missing == {u \in Units : work[b].seen[u] # 0
                                       /\ (vector[r][u] = 0 \/ vector[r][u] # unit[r][u])}
             at == IF missing = {} THEN "readying" ELSE "writing"
  <2>1. work[b] \in Build /\ missing \in SUBSET Units /\ at \in Phases
    BY <1>7, <1>w DEF listMissing
  <2>2. work' = [work EXCEPT ![b].at = at, ![b].todo = missing]
    BY <1>7 DEF listMissing
  <2> HIDE DEF missing, at
  <2>3. work' \in [Builders -> Build \cup {Idle}]
    BY <2>1, <2>2 DEF TypeOK, Build
  <2> QED BY <1>7, <2>3 DEF TypeOK, listMissing, main, corpus, generations, bounds
<1>8. ASSUME NEW u \in Units, writeEmbedding(b, u) PROVE TypeOK'
  <2>1. /\ work[b] \in Build /\ work[b].revision \in Revisions /\ work[b].seen[u] \in Hashes
        /\ work[b].todo \in SUBSET Units /\ work[b].at \in Phases
    BY <1>8, <1>w, BuildFields DEF writeEmbedding, Contents
  <2>2. vector' \in [Revisions -> Contents]
    <3> DEFINE r == work[b].revision
               new == [vector[r] EXCEPT ![u] = work[b].seen[u]]
    <3>1. new \in Contents
      BY <2>1 DEF TypeOK, Contents
    <3>2. vector' = [vector EXCEPT ![r] = new] \/ UNCHANGED vector
      BY <1>8 DEF writeEmbedding
    <3> HIDE DEF new
    <3> QED BY <3>1, <3>2 DEF TypeOK
  <2>3. work' \in [Builders -> Builds]
    <3>1. CASE MoveTo(b, "failing")
      BY <2>1, <3>1, MoveType
    <3>2. CASE ~MoveTo(b, "failing")
      <4> DEFINE left == work[b].todo \ {u}
                 at == IF left = {} THEN "readying" ELSE work[b].at
                 w == [work[b] EXCEPT !.at = at, !.todo = left]
      <4>1. at \in Phases /\ left \in SUBSET Units
        BY <2>1
      <4>2. work' = After(b, w)
        BY <1>8, <3>2 DEF writeEmbedding
      <4> HIDE DEF at, left
      <4>3. w \in Build
        BY <2>1, <4>1 DEF Build
      <4> QED BY <4>2, <4>3, AfterType
    <3> QED BY <3>1, <3>2
  <2> QED BY <1>8, <2>2, <2>3 DEF TypeOK, writeEmbedding, main, corpus, bounds, Builds
<1>9. CASE markReady(b)
  <2> DEFINE r == work[b].revision
             counted == status[r] = "BUILDING" /\ Count(vector[r]) = Count(work[b].seen)
             now == IF counted THEN "READY" ELSE status[r]
             w == [work[b] EXCEPT !.at = "activating", !.status = now]
  <2>1. work[b] \in Build /\ now \in Statuses /\ work[b].at \in Phases
    BY <1>9, <1>w, BuildFields DEF markReady, TypeOK, Statuses
  <2>2. w \in Build
    BY <2>1 DEF Build
  <2>3. \/ status' = [status EXCEPT ![r] = now] /\ work' = After(b, w)
           /\ touched' \in {touched, touched \ {r}}
        \/ UNCHANGED <<status, touched>> /\ MoveTo(b, "failing")
    BY <1>9 DEF markReady
  <2> HIDE DEF now, w, r
  <2>4. work' \in [Builders -> Builds]
    BY <2>1, <2>2, <2>3, AfterType, MoveType
  <2>5. status' \in [Revisions -> Statuses] /\ touched' \subseteq Revisions
    BY <2>1, <2>3 DEF TypeOK
  <2> QED BY <1>9, <2>4, <2>5 DEF TypeOK, markReady, main, corpus, bounds, Builds
<1>10. CASE activateCurrentGeneration(b)
  <2>1. work[b].at \in Phases /\ work[b].revision \in Revisions
    BY <1>10, <1>w, BuildFields DEF activateCurrentGeneration
  <2>2. work' \in [Builders -> Builds]
    <3>1. \/ Return(b, work[b].at = "activating" /\ work[b].status = "ACTIVE")
          \/ work' = Overtake(b, "confirming") \/ work' = Overtake(b, "recalling")
          \/ MoveTo(b, "failing") \/ MoveTo(b, "thrown")
      BY <1>10 DEF activateCurrentGeneration
    <3> QED BY <2>1, <3>1, ReturnType, OvertakeType, MoveType
  <2>3. status' \in [Revisions -> Statuses]
    BY <1>10 DEF activateCurrentGeneration, TypeOK, Statuses
  <2>4. marker' \in Marker /\ touched' \subseteq Revisions
    BY <1>10, <2>1 DEF activateCurrentGeneration, TypeOK, Marker, Hashes
  <2> QED BY <1>10, <2>2, <2>3, <2>4
          DEF TypeOK, activateCurrentGeneration, main, corpus, bounds, Builds
<1>11. CASE confirm(b)
  <2>1. work[b].at \in Phases
    BY <1>11 DEF confirm
  <2>2. work' \in [Builders -> Builds]
    BY <1>11, <2>1, ReturnType DEF confirm
  <2> QED BY <1>11, <2>2 DEF TypeOK, confirm, main, corpus, generations, bounds, Builds
<1>12. CASE fail(b)
  <2>1. work' \in [Builders -> Builds]
    BY <1>12, MoveType DEF fail
  <2>2. status' \in [Revisions -> Statuses]
    BY <1>12 DEF fail, TypeOK, Statuses
  <2> QED BY <1>12, <2>1, <2>2 DEF TypeOK, fail, main, corpus, bounds, Builds
<1> QED
  BY <1>1, <1>2, <1>3, <1>4, <1>5, <1>6, <1>7, <1>8, <1>9, <1>10, <1>11, <1>12 DEF BuildStep

\* Faults.
LEMMA FaultType ==
  ASSUME TypeOK, Crash \/ Abort \/ \E b \in Builders : buildThrows(b)
  PROVE  TypeOK'
<1>1. ASSUME NEW kind, Spend(kind)
      PROVE  /\ struck' \subseteq FaultKinds
             /\ changes' \in Nat /\ rebuilds' \in Nat /\ budget' \in Nat
  BY <1>1, FaultAssumption DEF Spend, TypeOK
<1>2. ASSUME NEW b \in Builders, buildThrows(b) PROVE TypeOK'
  <2>1. work[b].at \in Phases /\ {"failing", "thrown"} \subseteq Phases
    BY <1>2, BuildPhases DEF buildThrows, Phases
  <2>2. work[b] \in Build
    BY <2>1, BuildOf
  <2> DEFINE at == IF work[b].at \in TryPhases THEN "failing" ELSE "thrown"
             late == work[b].overtaken
                       \/ work[b].at \in {"confirming", "recalling", "closing"}
             w == [work[b] EXCEPT !.at = at, !.overtaken = late]
  <2>3. at \in Phases /\ late \in BOOLEAN
    BY <2>1, <2>2, BuildFields
  <2>4. work' = After(b, w)
    BY <1>2 DEF buildThrows
  <2> HIDE DEF at, late
  <2>5. w \in Build
    BY <2>2, <2>3 DEF Build
  <2>6. work' \in [Builders -> Builds]
    BY <2>4, <2>5, AfterType
  <2> QED BY <1>1, <1>2, <2>6 DEF TypeOK, buildThrows, main, corpus, generations, Builds
<1>3. CASE Crash
  <2>1. work' \in [Builders -> Build \cup {Idle}]
    BY <1>3 DEF Crash, TypeOK
  <2> QED BY <1>1, <1>3, <2>1 DEF TypeOK, Crash, main, corpus, generations
<1>4. CASE Abort
  <2>1. work' \in [Builders -> Build \cup {Idle}]
    BY <1>4 DEF Abort, TypeOK
  <2> QED BY <1>1, <1>4, <2>1 DEF TypeOK, Abort, main, corpus, generations
<1> QED BY <1>2, <1>3, <1>4

\* Every step keeps the types.
LEMMA StepType == TypeOK /\ [Next]_vars => TypeOK'
<1> SUFFICES ASSUME TypeOK, [Next]_vars PROVE TypeOK'
  OBVIOUS
<1>1. CASE UNCHANGED vars
  BY <1>1 DEF TypeOK, vars, main, corpus, generations, bounds
<1>2. CASE (\E u \in Edited : Publish(u)) \/ (\E u \in Units : changeRefreshStatus(u))
           \/ HandleEvent \/ startRebuild
  BY <1>2, OutsideType
<1>3. CASE WorkerStep
  <2>1. Worker \in Builders
    BY DEF Builders
  <2> QED BY <1>3, <2>1, WorkerType, BuildStepType DEF WorkerStep
<1>4. CASE OperatorStep
  <2>1. Operator \in Builders
    BY DEF Builders
  <2> QED BY <1>4, <2>1, OperatorType, BuildStepType DEF OperatorStep
<1>5. CASE Crash \/ Abort \/ \E b \in Builders : buildThrows(b)
  BY <1>5, FaultType
<1> QED BY <1>1, <1>2, <1>3, <1>4, <1>5 DEF Next

\* The types of all variables, of the rows and of what builders hold.
THEOREM TypeCorrect == Spec => []TypeOK
<1>1. Init => TypeOK
  <2> SUFFICES ASSUME Init PROVE TypeOK
    OBVIOUS
  <2>1. 1 \in Revisions /\ 0 \in Hashes /\ 1 \in Hashes
    BY BoundAssumption DEF Revisions, Hashes
  <2>2. document \in Contents /\ unit \in [Revisions -> Contents] /\ vector = unit
    BY <2>1 DEF Init, Contents
  <2>3. status \in [Revisions -> Statuses] /\ event \in [Revisions -> {"none", "open", "indexed", "done"}]
    BY DEF Init, Statuses
  <2>4. marker \in Marker /\ changed \in [Revisions -> SUBSET Units]
    BY <2>1 DEF Init, Marker
  <2>5. work \in [Builders -> Build \cup {Idle}]
    BY DEF Init
  <2> QED BY <2>1, <2>2, <2>3, <2>4, <2>5, BoundAssumption DEF Init, TypeOK
<1> QED BY <1>1, StepType, PTL DEF Spec

-----------------------------------------------------------------------------
(* What may be searched.                                                       *)

IndexInv == TypeOK /\ SelectedIsWhole /\ OneActive

\* A step that changes units only, or the documents they are of, remembers the
\* generations it breaks.
LEMMA TouchKeeps ==
  ASSUME IndexInv, Touch, UNCHANGED <<status, vector>>
  PROVE  SelectedIsWhole' /\ OneActive'
BY DEF IndexInv, SelectedIsWhole, OneActive, Touch, Selectable, Searched, Whole

\* A step that touches neither units nor vectors may only make generations
\* unselectable, or complete ones selectable.
LEMMA StatusKeeps ==
  ASSUME IndexInv, UNCHANGED <<unit, live, vector>>,
         \A s \in Revisions : s \in Selectable' =>
           Whole(s) \/ (s \in Selectable /\ (s \in touched => s \in touched'))
  PROVE  SelectedIsWhole'
BY DEF IndexInv, SelectedIsWhole, Selectable, Whole

\* A transition to a status that is not selectable.
LEMMA TransitionKeeps ==
  ASSUME IndexInv, NEW b \in Builders, NEW to \in Statuses \ {"READY", "ACTIVE"},
         NEW allowed, NEW next, transition(b, to, allowed, next)
  PROVE  SelectedIsWhole' /\ OneActive'
<1>1. UNCHANGED <<unit, live, vector, touched>>
  BY DEF transition, corpus
<1>2. \A s \in Revisions : status'[s] = status[s] \/ status'[s] = to
  BY DEF transition, IndexInv, TypeOK
<1>3. SelectedIsWhole'
  BY <1>1, <1>2, StatusKeeps DEF Selectable
<1>4. OneActive'
  BY <1>2 DEF IndexInv, OneActive, Searched
<1> QED BY <1>3, <1>4

\* The statements of buildEmbeddingIndex.
LEMMA BuildKeeps ==
  ASSUME IndexInv, NEW b \in Builders, BuildStep(b)
  PROVE  SelectedIsWhole' /\ OneActive'
<1>1. CASE listUnits(b) \/ generationCoverage(b) \/ listMissing(b) \/ confirm(b)
  BY <1>1 DEF IndexInv, listUnits, generationCoverage, listMissing, confirm, corpus, generations,
              SelectedIsWhole, OneActive, Selectable, Searched, Whole
<1>2. CASE request(b)
  <2>1. UNCHANGED <<unit, live, vector, touched>>
    BY <1>2 DEF request, corpus
  <2>2. \A s \in Revisions : status'[s] = status[s] \/ status'[s] = "REQUESTED"
    BY <1>2 DEF request, IndexInv, TypeOK
  <2>3. SelectedIsWhole'
    BY <2>1, <2>2, StatusKeeps DEF Selectable
  <2> QED BY <2>2, <2>3 DEF IndexInv, OneActive, Searched
<1>3. CASE stale(b)
  BY <1>3, TransitionKeeps DEF stale, Statuses
<1>4. CASE beginBuild(b)
  BY <1>4, TransitionKeeps DEF beginBuild, Statuses
<1>5. CASE deleteInvalidGenerationEmbeddings(b)
  <2>1. UNCHANGED <<unit, live, status, touched>>
    BY <1>5 DEF deleteInvalidGenerationEmbeddings, corpus
  <2>2. ASSUME NEW s \in Revisions, Whole(s) PROVE Whole(s)'
    <3>1. CASE s # work[b].revision
      BY <1>5, <2>1, <2>2, <3>1 DEF IndexInv, TypeOK, Whole, deleteInvalidGenerationEmbeddings
    <3>2. CASE s = work[b].revision
      <4>1. vector'[s] = [u \in Units |-> IF vector[s][u] = Eligible(unit[s], live)[u]
                                          THEN vector[s][u] ELSE 0]
        BY <1>5, <3>2 DEF IndexInv, TypeOK, deleteInvalidGenerationEmbeddings
      <4>2. vector[s] = Eligible(unit[s], live)
        BY <2>2 DEF Whole
      <4>3. vector'[s] = Eligible(unit[s], live)
        BY <4>1, <4>2 DEF Eligible
      <4> QED BY <2>1, <4>3 DEF Whole, Eligible
    <3> QED BY <3>1, <3>2
  <2> QED BY <2>1, <2>2 DEF IndexInv, SelectedIsWhole, OneActive, Selectable, Searched
<1>6. ASSUME NEW u \in Units, writeEmbedding(b, u) PROVE SelectedIsWhole' /\ OneActive'
  <2>1. UNCHANGED <<unit, live, status, touched>>
    BY <1>6 DEF writeEmbedding, corpus
  <2>2. ASSUME NEW s \in Selectable PROVE vector'[s] = vector[s]
    <3>1. UNCHANGED vector \/ (status[work[b].revision] = "BUILDING" /\
            vector' = [vector EXCEPT ![work[b].revision][u] = work[b].seen[u]])
      BY <1>6 DEF writeEmbedding
    <3>2. s \in Revisions /\ status[s] # "BUILDING"
      BY <2>2 DEF Selectable
    <3> QED BY <3>1, <3>2 DEF IndexInv, TypeOK
  <2> QED BY <2>1, <2>2 DEF IndexInv, SelectedIsWhole, OneActive, Selectable, Searched, Whole
<1>7. CASE markReady(b)
  <2> DEFINE r == work[b].revision
             counted == status[r] = "BUILDING" /\ Count(vector[r]) = Count(work[b].seen)
  <2>1. UNCHANGED <<unit, live, vector>>
    BY <1>7 DEF markReady, corpus
  <2>2. \/ UNCHANGED <<status, touched>>
        \/ /\ Whole(r) /\ touched' \in {touched, touched \ {r}}
           /\ status' = [status EXCEPT ![r] = IF counted THEN "READY" ELSE status[r]]
    BY <1>7 DEF markReady
  <2> HIDE DEF r, counted
  <2>3. \A s \in Revisions : /\ s \in Selectable' => s \in Selectable \/ Whole(s)
                             /\ s \in touched /\ s \notin touched' => Whole(s)
    BY <2>2 DEF IndexInv, TypeOK, Selectable
  <2>4. SelectedIsWhole'
    BY <2>1, <2>3, StatusKeeps
  <2>5. Searched' \subseteq Searched
    BY <2>2 DEF IndexInv, TypeOK, Searched
  <2> QED BY <2>4, <2>5 DEF IndexInv, OneActive
<1>8. CASE activateCurrentGeneration(b)
  <2> DEFINE r == work[b].revision
  <2>1. UNCHANGED <<unit, live, vector>>
    BY <1>8 DEF activateCurrentGeneration, corpus
  <2>2. \/ UNCHANGED <<status, touched>>
        \/ /\ Whole(r) /\ touched' = touched \ {r}
           /\ status' = [s \in Revisions |-> IF s = r THEN "ACTIVE"
                                             ELSE IF status[s] = "ACTIVE" THEN "RETIRED"
                                             ELSE status[s]]
    BY <1>8 DEF activateCurrentGeneration
  <2> HIDE DEF r
  <2>3. \A s \in Revisions : /\ s \in Selectable' => s \in Selectable \/ Whole(s)
                             /\ s \in touched /\ s \notin touched' => Whole(s)
    BY <2>2 DEF Selectable
  <2>4. SelectedIsWhole'
    BY <2>1, <2>3, StatusKeeps
  <2>5. OneActive'
    BY <2>2 DEF IndexInv, OneActive, Searched
  <2> QED BY <2>4, <2>5
<1>9. CASE fail(b)
  <2>1. UNCHANGED <<unit, live, vector, touched>>
    BY <1>9 DEF fail, corpus
  <2>2. \A s \in Revisions : status'[s] = status[s] \/ status'[s] = "FAILED"
    BY <1>9 DEF fail, IndexInv, TypeOK
  <2>3. SelectedIsWhole'
    BY <2>1, <2>2, StatusKeeps DEF Selectable
  <2> QED BY <2>2, <2>3 DEF IndexInv, OneActive, Searched
<1> QED BY <1>1, <1>2, <1>3, <1>4, <1>5, <1>6, <1>7, <1>8, <1>9 DEF BuildStep

\* Everything else: units and documents change, or nothing that counts.
LEMMA StepKeeps == IndexInv /\ [Next]_vars => SelectedIsWhole' /\ OneActive'
<1> SUFFICES ASSUME IndexInv, [Next]_vars PROVE SelectedIsWhole' /\ OneActive'
  OBVIOUS
<1>1. CASE UNCHANGED <<unit, live, generations, touched>>
  BY <1>1 DEF IndexInv, generations, SelectedIsWhole, OneActive, Selectable, Searched, Whole
<1>2. CASE UNCHANGED vars
  BY <1>1, <1>2 DEF vars, corpus
<1>3. CASE \E u \in Edited : Publish(u)
  BY <1>1, <1>3 DEF Publish, corpus
<1>4. CASE \E u \in Units : changeRefreshStatus(u)
  BY <1>4, TouchKeeps DEF changeRefreshStatus, generations
<1>5. CASE HandleEvent \/ startRebuild
  BY <1>1, <1>5 DEF HandleEvent, takeEvent, markIndexRequestComplete, startRebuild, corpus
<1>6. CASE rebuildChangedUnits
  BY <1>6, TouchKeeps DEF rebuildChangedUnits, generations
<1>7. CASE rebuildSpaceProjections
  BY <1>7, TouchKeeps DEF rebuildSpaceProjections, generations
<1>8. CASE \/ readMarker \/ markPending \/ markActivated \/ markFailed \/ acknowledge
           \/ collectDocuments \/ warnFailed
  BY <1>1, <1>8 DEF readMarker, markPending, markActivated, markFailed, acknowledge,
                    collectDocuments, warnFailed, markVaultIndexRevision, corpus
<1>9. CASE Crash \/ Abort \/ \E b \in Builders : buildThrows(b)
  BY <1>1, <1>9 DEF Crash, Abort, buildThrows, corpus
<1>10. CASE BuildStep(Worker) \/ BuildStep(Operator)
  BY <1>10, BuildKeeps DEF Builders
<1> QED BY <1>2, <1>3, <1>4, <1>5, <1>6, <1>7, <1>8, <1>9, <1>10
        DEF Next, WorkerStep, OperatorStep

\* However builders overtake each other, fail or die: a generation that may be
\* searched has exactly the vectors of its units, unless these changed after it
\* was complete, and no two are active (buildEmbeddingIndex and the triggers of
\* migrations 019 and 020).
THEOREM SelectedVectors == Spec => [](SelectedIsWhole /\ OneActive)
<1>1. Init => SelectedIsWhole /\ OneActive
  <2> SUFFICES ASSUME Init PROVE SelectedIsWhole /\ OneActive
    OBVIOUS
  <2>1. Selectable = {1} /\ Searched = {1}
    BY BoundAssumption DEF Init, Selectable, Searched, Revisions
  <2>2. Whole(1)
    <3>1. 1 \in Revisions
      BY BoundAssumption DEF Revisions
    <3>2. vector[1] = [u \in Units |-> 1] /\ unit[1] = [u \in Units |-> 1] /\ live = Units
      BY <3>1 DEF Init
    <3>3. Eligible(unit[1], live) = [u \in Units |-> 1]
      BY <3>2 DEF Eligible
    <3> QED BY <3>2, <3>3 DEF Whole
  <2> QED BY <2>1, <2>2 DEF SelectedIsWhole, OneActive
<1>2. TypeOK /\ (SelectedIsWhole /\ OneActive) /\ [Next]_vars => (SelectedIsWhole /\ OneActive)'
  BY StepKeeps DEF IndexInv
<1> QED BY <1>1, <1>2, TypeCorrect, PTL DEF Spec

-----------------------------------------------------------------------------
(* What is served.                                                             *)

Building == {"listing", "requesting", "covering", "staling", "beginning", "deleting", "planning",
             "writing", "readying", "activating", "restoring"}
Advertised == {"confirming", "recalling", "closing"}

\* b stands at one of the phases and nobody has moved the marker under it.
Current(b, phases) == work[b].at \in phases /\ ~work[b].overtaken

\* While somebody builds what the marker names, the marker carries a warning;
\* what the worker is about to mark is searched; and an operator that builds has
\* overtaken a worker that had activated before, or been overtaken by it.
ServedInv ==
  ~crossed =>
    /\ ConsistentIsServed
    /\ Current(Worker, Building) =>
         marker.corpus = work[Worker].revision /\ marker.warning # "none"
    /\ Current(Worker, Advertised) =>
         marker.corpus = work[Worker].revision /\ marker.corpus \in Searched
    /\ Current(Operator, Building) => marker.warning # "none"
    /\ ~(Current(Operator, Building) /\ Current(Worker, Advertised))

\* What the next statement of b leaves of b's build and of the others'.
LEMMA AfterFacts ==
  ASSUME TypeOK, NEW b \in Builders, NEW w \in Build, work' = After(b, w)
  PROVE  /\ work'[b].at = w.at /\ work'[b].revision = w.revision
         /\ w.at # "completing" => work'[b].overtaken = w.overtaken /\ work'[b].kept = w.kept
         /\ \A c \in Builders \ {b} : work'[c] = work[c]
<1>1. work'[b] = Forget(w) /\ \A c \in Builders \ {b} : work'[c] = work[c]
  BY DEF After, TypeOK
<1>2. /\ Forget(w).at = w.at /\ Forget(w).revision = w.revision
      /\ Forget(w).overtaken = (w.overtaken /\ w.at # "completing")
      /\ w.at # "completing" => Forget(w).kept = w.kept
  BY DEF Forget, Build
<1>3. w.overtaken \in BOOLEAN
  BY BuildFields
<1> QED BY <1>1, <1>2, <1>3

LEMMA MoveFacts ==
  ASSUME TypeOK, NEW b \in Builders, work[b].at \in Phases, NEW at \in Phases, MoveTo(b, at)
  PROVE  /\ work'[b].at = at /\ work'[b].revision = work[b].revision
         /\ at # "completing" =>
              work'[b].overtaken = work[b].overtaken /\ work'[b].kept = work[b].kept
         /\ \A c \in Builders \ {b} : work'[c] = work[c]
<1> DEFINE w == [work[b] EXCEPT !.at = at]
<1>1. /\ w \in Build /\ w.at = at /\ w.revision = work[b].revision
      /\ w.overtaken = work[b].overtaken /\ w.kept = work[b].kept
  BY BuildOf DEF Build
<1>2. work' = After(b, w)
  BY DEF MoveTo
<1> HIDE DEF w
<1> QED BY <1>1, <1>2, AfterFacts

\* Who is overtaken is not current.
LEMMA OvertakeFacts ==
  ASSUME TypeOK, BuilderAssumption, NEW b \in Builders, work[b].at \in Phases,
         NEW at \in Phases \ {"completing"}, work' = Overtake(b, at)
  PROVE  /\ work'[b].at = at /\ work'[b].revision = work[b].revision
         /\ work'[b].overtaken = work[b].overtaken
         /\ \A phases \in SUBSET Phases : ~Current(Other(b), phases)'
         /\ work'[Other(b)].at = work[Other(b)].at
         /\ work[Other(b)].at \in Phases => work'[Other(b)].revision = work[Other(b)].revision
<1> DEFINE moved == After(b, [work[b] EXCEPT !.at = at])
           w == [work[b] EXCEPT !.at = at]
<1>1. w \in Build /\ w.at = at /\ w.revision = work[b].revision /\ w.overtaken = work[b].overtaken
  BY BuildOf DEF Build
<1>2. /\ moved \in [Builders -> Builds] /\ moved[b] = Forget(w)
      /\ \A c \in Builders \ {b} : moved[c] = work[c]
  BY <1>1, AfterType DEF After, TypeOK
<1>3. /\ Forget(w).at = w.at /\ Forget(w).revision = w.revision
      /\ Forget(w).overtaken = (w.overtaken /\ w.at # "completing")
  BY <1>1 DEF Forget, Build
<1>4. Other(b) \in Builders \ {b}
  BY BuilderAssumption DEF Other, Builders
<1>5. work' = [moved EXCEPT ![Other(b)] = IF @ = Idle THEN Idle
                                         ELSE [@ EXCEPT !.overtaken = TRUE]]
  BY DEF Overtake
<1>6. w.overtaken \in BOOLEAN
  BY <1>1, BuildFields
<1> HIDE DEF moved, w
<1>7. work'[b] = moved[b]
  BY <1>2, <1>4, <1>5
<1>8. work'[Other(b)] = Idle \/ work'[Other(b)].overtaken = TRUE
  BY <1>2, <1>4, <1>5 DEF Builds, Build
<1>9. Idle.at \notin Phases
  BY DEF Idle, Phases, TryPhases, OpenPhases
<1>10. /\ work'[b].at = at /\ work'[b].revision = work[b].revision
       /\ work'[b].overtaken = work[b].overtaken
  BY <1>1, <1>2, <1>3, <1>6, <1>7
<1>11. \A phases \in SUBSET Phases : ~Current(Other(b), phases)'
  BY <1>8, <1>9 DEF Current
<1>12. work'[Other(b)] = IF work[Other(b)] = Idle THEN Idle
                         ELSE [work[Other(b)] EXCEPT !.overtaken = TRUE]
  BY <1>2, <1>4, <1>5
<1>13. /\ work'[Other(b)].at = work[Other(b)].at
       /\ work[Other(b)].at \in Phases => work'[Other(b)].revision = work[Other(b)].revision
  BY <1>4, <1>9, <1>12, BuildOf DEF Build, TypeOK
<1> QED BY <1>10, <1>11, <1>13

LEMMA CurrentPhases ==
  /\ Building \subseteq Phases /\ Advertised \subseteq Phases
  /\ Building \cap Advertised = {}
  /\ Building \cap {"reading", "structuring", "marking", "collecting", "projecting", "failing",
                    "thrown", "completing"} = {}
  /\ Advertised \cap {"reading", "structuring", "marking", "collecting", "projecting", "failing",
                      "thrown", "completing"} = {}
BY DEF Building, Advertised, Phases, OpenPhases, TryPhases

\* A step of b that leaves the marker and what is searched alone, and at whose
\* end b is current only if it was.
Follows(b, phases) ==
  Current(b, phases)' => Current(b, phases) /\ work'[b].revision = work[b].revision

LEMMA QuietKeeps ==
  ASSUME ServedInv, NEW b \in Builders, marker' = marker, Searched' = Searched,
         crossed' = crossed, \A c \in Builders \ {b} : work'[c] = work[c],
         ~crossed => Follows(b, Building) /\ (b = Worker => Follows(b, Advertised))
  PROVE  ServedInv'
<1> SUFFICES ASSUME ~crossed' PROVE ServedInv'
  BY DEF ServedInv
<1>1. ~crossed
  OBVIOUS
<1>2. ConsistentIsServed'
  BY <1>1 DEF ServedInv, ConsistentIsServed
<1>3. \A c \in Builders : Follows(c, Building)
  BY <1>1 DEF Follows, Current
<1>4. Follows(Worker, Advertised)
  BY <1>1 DEF Follows, Current, Builders
<1>5. Worker \in Builders /\ Operator \in Builders
  BY DEF Builders
<1> QED BY <1>1, <1>2, <1>3, <1>4, <1>5 DEF ServedInv, Follows

\* A move of b within the build, or out of it, is quiet.
LEMMA MoveKeeps ==
  ASSUME TypeOK, ServedInv, NEW b \in Builders, work[b].at \in Phases,
         NEW at \in Phases \ {"completing"}, MoveTo(b, at),
         at \in Building => work[b].at \in Building,
         at \notin Advertised,
         marker' = marker, Searched' = Searched, crossed' = crossed
  PROVE  ServedInv'
<1>1. /\ work'[b].at = at /\ work'[b].revision = work[b].revision
      /\ work'[b].overtaken = work[b].overtaken
      /\ \A c \in Builders \ {b} : work'[c] = work[c]
  BY MoveFacts
<1>2. Follows(b, Building) /\ Follows(b, Advertised)
  BY <1>1 DEF Follows, Current
<1> QED BY <1>1, <1>2, QuietKeeps

\* The end of a build, for a worker that has activated or does not say so.
LEMMA ReturnKeeps ==
  ASSUME TypeOK, ServedInv, NEW b \in Builders, work[b].at \in Phases, NEW activated,
         Return(b, activated),
         activated /\ ~crossed /\ b = Worker /\ ~work[b].overtaken => work[b].at \in Advertised,
         marker' = marker, Searched' = Searched, crossed' = crossed
  PROVE  ServedInv'
<1>1. CASE b = Operator
  <2>1. \A c \in Builders \ {b} : work'[c] = work[c]
    BY <1>1 DEF Return, TypeOK
  <2>2. work'[b].at = "idle"
    BY <1>1 DEF Return, TypeOK, Idle
  <2>3. Follows(b, Building) /\ Follows(b, Advertised)
    BY <2>2 DEF Follows, Current, Building, Advertised
  <2> QED BY <2>1, <2>3, QuietKeeps
<1>2. CASE b # Operator
  <2>0. b = Worker
    BY <1>2 DEF Builders
  <2>1. CASE MoveTo(b, "completing")
    <3>1. /\ work'[b].at = "completing"
          /\ \A c \in Builders \ {b} : work'[c] = work[c]
      BY <2>1, BuildPhases, MoveFacts
    <3>2. Follows(b, Building) /\ Follows(b, Advertised)
      BY <3>1, CurrentPhases DEF Follows, Current
    <3> QED BY <3>1, <3>2, QuietKeeps
  <2>2. CASE activated /\ MoveTo(b, "closing")
    <3>1. /\ work'[b].at = "closing" /\ work'[b].revision = work[b].revision
          /\ work'[b].overtaken = work[b].overtaken
          /\ \A c \in Builders \ {b} : work'[c] = work[c]
      BY <2>2, BuildPhases, MoveFacts
    <3>2. ~crossed => Follows(b, Building) /\ Follows(b, Advertised)
      BY <2>0, <2>2, <3>1 DEF Follows, Current, Building, Advertised
    <3> QED BY <3>1, <3>2, QuietKeeps
  <2> QED BY <1>2, <2>1, <2>2 DEF Return
<1> QED BY <1>1, <1>2

\* The quiet statements of buildEmbeddingIndex.
LEMMA BuildServes ==
  ASSUME TypeOK, ServedInv, NEW b \in Builders,
         \/ listUnits(b) \/ request(b) \/ generationCoverage(b) \/ beginBuild(b)
         \/ deleteInvalidGenerationEmbeddings(b) \/ listMissing(b)
         \/ \E u \in Units : writeEmbedding(b, u)
         \/ markReady(b) \/ confirm(b) \/ fail(b)
  PROVE  ServedInv'
<1> USE BuildPhases
<1>w. work[b].at \in Phases => work[b] \in Build
  BY BuildOf
<1>1. CASE listUnits(b)
  <2>1. /\ work'[b].at = "requesting" /\ work'[b].revision = work[b].revision
        /\ work'[b].overtaken = work[b].overtaken /\ work[b].at = "listing"
        /\ \A c \in Builders \ {b} : work'[c] = work[c]
    BY <1>1, <1>w DEF listUnits, TypeOK, Build
  <2>2. Follows(b, Building) /\ Follows(b, Advertised)
    BY <2>1 DEF Follows, Current, Building, Advertised
  <2> QED BY <1>1, <2>1, <2>2, QuietKeeps DEF listUnits, generations, Searched
<1>2. CASE request(b)
  <2>1. /\ work'[b].at = "covering" /\ work'[b].revision = work[b].revision
        /\ work'[b].overtaken = work[b].overtaken /\ work[b].at = "requesting"
        /\ \A c \in Builders \ {b} : work'[c] = work[c]
    BY <1>2, <1>w DEF request, TypeOK, Build
  <2>2. Follows(b, Building) /\ Follows(b, Advertised)
    BY <2>1 DEF Follows, Current, Building, Advertised
  <2>3. Searched' = Searched
    BY <1>2 DEF request, TypeOK, Searched
  <2> QED BY <1>2, <2>1, <2>2, <2>3, QuietKeeps DEF request
<1>3. CASE generationCoverage(b)
  <2>1. \E at \in {"restoring", "staling", "beginning"} : MoveTo(b, at)
    BY <1>3 DEF generationCoverage
  <2>2. /\ work[b].at \in Building /\ work[b].at \in Phases
        /\ marker' = marker /\ Searched' = Searched /\ crossed' = crossed
    BY <1>3 DEF generationCoverage, generations, Searched, Building
  <2>3. {"restoring", "staling", "beginning"} \cap Advertised = {}
    BY DEF Advertised
  <2> QED BY <2>1, <2>2, <2>3, MoveKeeps
<1>4. CASE beginBuild(b)
  <2>1. MoveTo(b, "deleting") \/ MoveTo(b, "thrown")
    BY <1>4 DEF beginBuild, transition
  <2>2. work[b].at \in Building /\ work[b].at \in Phases /\ marker' = marker /\ crossed' = crossed
    BY <1>4 DEF beginBuild, transition, Building
  <2>3. Searched' = Searched
    BY <1>4 DEF beginBuild, transition, TypeOK, Searched
  <2>4. {"deleting", "thrown"} \cap Advertised = {}
    BY DEF Advertised
  <2> QED BY <2>1, <2>2, <2>3, <2>4, MoveKeeps
<1>5. CASE deleteInvalidGenerationEmbeddings(b)
  <2>1. /\ MoveTo(b, "planning") /\ work[b].at \in Building /\ work[b].at \in Phases
        /\ marker' = marker /\ Searched' = Searched /\ crossed' = crossed
    BY <1>5 DEF deleteInvalidGenerationEmbeddings, Searched, Building
  <2>2. "planning" \notin Advertised
    BY SMTT(30) DEF Advertised
  <2> QED BY <2>1, <2>2, MoveKeeps
<1>6. CASE listMissing(b)
  <2>1. /\ work'[b].at \in {"readying", "writing"} /\ work'[b].revision = work[b].revision
        /\ work'[b].overtaken = work[b].overtaken /\ work[b].at = "planning"
        /\ \A c \in Builders \ {b} : work'[c] = work[c]
    BY <1>6, <1>w DEF listMissing, TypeOK, Build
  <2>2. Follows(b, Building) /\ Follows(b, Advertised)
    BY <2>1 DEF Follows, Current, Building, Advertised
  <2> QED BY <1>6, <2>1, <2>2, QuietKeeps DEF listMissing, generations, Searched
<1>7. ASSUME NEW u \in Units, writeEmbedding(b, u) PROVE ServedInv'
  <2>1. /\ work[b] \in Build /\ work[b].at = "writing" /\ work[b].todo \in SUBSET Units
        /\ marker' = marker /\ Searched' = Searched /\ crossed' = crossed
    BY <1>7, <1>w, BuildFields DEF writeEmbedding, Searched
  <2>2. "writing" \in Building /\ "failing" \notin Advertised
    BY DEF Building, Advertised
  <2>3. CASE MoveTo(b, "failing")
    BY <2>1, <2>2, <2>3, MoveKeeps
  <2>4. CASE ~MoveTo(b, "failing")
    <3> DEFINE left == work[b].todo \ {u}
               at == IF left = {} THEN "readying" ELSE work[b].at
               w == [work[b] EXCEPT !.at = at, !.todo = left]
    <3>1. at \in {"readying", "writing"} /\ left \in SUBSET Units
      BY <2>1, SMTT(30)
    <3>2. work' = After(b, w)
      BY <1>7, <2>4 DEF writeEmbedding
    <3> HIDE DEF at, left
    <3>3. /\ w \in Build /\ w.at = at /\ w.revision = work[b].revision
          /\ w.overtaken = work[b].overtaken
      BY <2>1, <3>1 DEF Build
    <3> HIDE DEF w
    <3>4. /\ work'[b].at = at /\ work'[b].revision = work[b].revision
          /\ work'[b].overtaken = work[b].overtaken
          /\ \A c \in Builders \ {b} : work'[c] = work[c]
      BY <3>1, <3>2, <3>3, AfterFacts
    <3>5. Follows(b, Building) /\ Follows(b, Advertised)
      BY <2>1, <3>1, <3>4 DEF Follows, Current, Building, Advertised
    <3> QED BY <2>1, <3>4, <3>5, QuietKeeps
  <2> QED BY <2>3, <2>4, SMTT(30)
<1>8. CASE markReady(b)
  <2> DEFINE r == work[b].revision
             counted == status[r] = "BUILDING" /\ Count(vector[r]) = Count(work[b].seen)
             now == IF counted THEN "READY" ELSE status[r]
             w == [work[b] EXCEPT !.at = "activating", !.status = now]
  <2>1. /\ work[b] \in Build /\ work[b].at = "readying" /\ now \in Statuses
        /\ marker' = marker /\ crossed' = crossed
    BY <1>8, <1>w, BuildFields DEF markReady, TypeOK, Statuses
  <2>2. \/ status' = [status EXCEPT ![r] = now] /\ work' = After(b, w)
        \/ UNCHANGED status /\ MoveTo(b, "failing")
    BY <1>8 DEF markReady
  <2>3. Searched' = Searched
    BY <2>2 DEF TypeOK, Searched
  <2>4. CASE MoveTo(b, "failing")
    <3>1. "readying" \in Building /\ "failing" \notin Advertised
      BY DEF Building, Advertised
    <3> QED BY <2>1, <2>3, <2>4, <3>1, MoveKeeps
  <2>5. CASE work' = After(b, w)
    <3> HIDE DEF now
    <3>1. /\ w \in Build /\ w.at = "activating" /\ w.revision = work[b].revision
          /\ w.overtaken = work[b].overtaken
      BY <2>1 DEF Build
    <3> HIDE DEF w, r
    <3>2. /\ work'[b].at = "activating" /\ work'[b].revision = work[b].revision
          /\ work'[b].overtaken = work[b].overtaken
          /\ \A c \in Builders \ {b} : work'[c] = work[c]
      BY <2>5, <3>1, AfterFacts
    <3>3. Follows(b, Building) /\ Follows(b, Advertised)
      BY <2>1, <3>2 DEF Follows, Current, Building, Advertised
    <3> QED BY <2>1, <2>3, <3>2, <3>3, QuietKeeps
  <2> QED BY <2>2, <2>4, <2>5
<1>9. CASE confirm(b)
  <2>1. /\ work[b].at \in {"confirming", "recalling"}
        /\ Return(b, status[work[b].revision] = "ACTIVE")
        /\ marker' = marker /\ Searched' = Searched /\ crossed' = crossed
    BY <1>9 DEF confirm, generations, Searched
  <2>2. work[b].at \in Advertised /\ work[b].at \in Phases
    BY <2>1 DEF Advertised
  <2> QED BY <2>1, <2>2, ReturnKeeps
<1>10. CASE fail(b)
  <2>1. /\ MoveTo(b, "thrown") /\ work[b].at \in Phases
        /\ marker' = marker /\ crossed' = crossed
    BY <1>10 DEF fail
  <2>2. Searched' = Searched
    BY <1>10 DEF fail, TypeOK, Searched
  <2>3. "thrown" \notin Advertised /\ "thrown" \notin Building
    BY CurrentPhases
  <2> QED BY <2>1, <2>2, <2>3, MoveKeeps
<1> QED BY <1>1, <1>2, <1>3, <1>4, <1>5, <1>6, <1>7, <1>8, <1>9, <1>10

\* What a builder finds incomplete is no longer searched: the marker carries a
\* warning, or somebody had overtaken the builder.
LEMMA StaleServes ==
  ASSUME TypeOK, ServedInv, NEW b \in Builders, stale(b)
  PROVE  ServedInv'
<1> SUFFICES ASSUME ~crossed' PROVE ServedInv'
  BY DEF ServedInv
<1>1. ~crossed /\ ~work[b].overtaken
  BY DEF stale, Cross
<1>2. /\ MoveTo(b, "beginning") \/ MoveTo(b, "thrown")
      /\ work[b].at = "staling" /\ marker' = marker
  BY DEF stale, transition
<1>3. Current(b, Building)
  BY <1>1, <1>2 DEF Current, Building
<1>4. marker.warning # "none" /\ ~Current(Worker, Advertised)
  BY <1>1, <1>2, <1>3 DEF ServedInv, Builders, Current, Building, Advertised
<1>5. /\ work'[b].at \in {"beginning", "thrown"} /\ work'[b].revision = work[b].revision
      /\ work'[b].overtaken = work[b].overtaken
      /\ \A c \in Builders \ {b} : work'[c] = work[c]
  BY <1>2, BuildPhases, MoveFacts
<1>6. ~Current(Worker, Advertised)'
  BY <1>4, <1>5 DEF Current, Advertised, Builders
<1>7. ConsistentIsServed'
  BY <1>2, <1>4 DEF ConsistentIsServed
<1>8. Current(Worker, Building)' =>
        Current(Worker, Building) /\ work'[Worker].revision = work[Worker].revision
  BY <1>1, <1>2, <1>5 DEF Current, Building, Builders
<1> QED BY <1>1, <1>2, <1>4, <1>6, <1>7, <1>8 DEF ServedInv

\* An activation serves what the marker names, and overtakes the other builder.
LEMMA ActivationServes ==
  ASSUME TypeOK, ServedInv, NEW b \in Builders, activateCurrentGeneration(b)
  PROVE  ServedInv'
<1> USE BuildPhases
<1> DEFINE r == work[b].revision
<1>1. /\ work[b].at \in {"activating", "restoring"} /\ work[b].at \in Phases
      /\ work[b] \in Build /\ r \in Revisions /\ crossed' = crossed
  BY BuildOf, BuildFields DEF activateCurrentGeneration
<1>2. CASE marker.corpus # r
  <2>1. /\ Return(b, work[b].at = "activating" /\ work[b].status = "ACTIVE")
        /\ marker' = marker /\ Searched' = Searched
    BY <1>2 DEF activateCurrentGeneration, Searched
  <2>2. ~crossed /\ b = Worker => work[b].overtaken
    BY <1>1, <1>2 DEF ServedInv, Current, Building
  <2> QED BY <1>1, <2>1, <2>2, ReturnKeeps
<1>3. CASE marker.corpus = r /\ status[r] \in {"READY", "ACTIVE", "RETIRED"} /\ Whole(r)
  <2> SUFFICES ASSUME ~crossed PROVE ServedInv'
    BY <1>1 DEF ServedInv
  <2>1. /\ status' = [s \in Revisions |-> IF s = r THEN "ACTIVE"
                                          ELSE IF status[s] = "ACTIVE" THEN "RETIRED"
                                          ELSE status[s]]
        /\ marker' = [marker EXCEPT !.vector = r, !.warning = "none"]
        /\ work' = Overtake(b, "confirming") \/ work' = Overtake(b, "recalling")
    BY <1>3 DEF activateCurrentGeneration
  <2>2. marker'.corpus = r /\ r \in Searched'
    BY <1>1, <1>3, <2>1 DEF TypeOK, Marker, Searched
  <2>3. /\ work'[b].at \in {"confirming", "recalling"} /\ work'[b].revision = r
        /\ ~Current(Other(b), Building)' /\ ~Current(Other(b), Advertised)'
    BY <1>1, <2>1, CurrentPhases, OvertakeFacts, BuilderAssumption
  <2>4. ~Current(b, Building)'
    BY <2>3 DEF Current, Building
  <2>5. \A c \in Builders : c = b \/ c = Other(b)
    BY DEF Builders, Other
  <2>6. \A c \in Builders : ~Current(c, Building)' /\ (Current(c, Advertised)' => c = b)
    BY <2>3, <2>4, <2>5
  <2> QED BY <2>2, <2>3, <2>6 DEF ServedInv, ConsistentIsServed, Builders
<1>4. CASE marker.corpus = r /\ ~(status[r] \in {"READY", "ACTIVE", "RETIRED"} /\ Whole(r))
  <2>1. /\ MoveTo(b, "failing") \/ MoveTo(b, "thrown")
        /\ marker' = marker /\ Searched' = Searched
    BY <1>4 DEF activateCurrentGeneration, Searched
  <2> QED BY <1>1, <2>1, CurrentPhases, MoveKeeps
<1> QED BY <1>2, <1>3, <1>4

\* The worker's marks.
LEMMA MarkServes ==
  ASSUME TypeOK, ServedInv, markPending \/ markActivated \/ markFailed
  PROVE  ServedInv'
<1> USE BuildPhases, BuilderAssumption
<1> SUFFICES ASSUME ~crossed' PROVE ServedInv'
  BY DEF ServedInv
<1>0. Worker \in Builders /\ Operator \in Builders \ {Worker}
  BY DEF Builders
<1>1. ~crossed /\ ~work[Worker].overtaken /\ Searched' = Searched
  BY DEF markPending, markActivated, markFailed, markVaultIndexRevision, Cross, generations, Searched
<1>p. "marking" \in Phases
  BY DEF Phases
<1>2. CASE markPending
  <2>1. /\ work'[Worker].at = "listing" /\ work'[Worker].revision = work[Worker].revision
        /\ work'[Operator] = work[Operator]
    BY <1>0, <1>2, <1>p, MoveFacts DEF markPending
  <2>2. marker'.corpus = work[Worker].revision /\ marker'.warning = "pending"
    BY <1>2 DEF markPending, markVaultIndexRevision
  <2>3. ~Current(Worker, Advertised)'
    BY <2>1 DEF Current, Advertised
  <2> QED BY <2>1, <2>2, <2>3 DEF ServedInv, ConsistentIsServed
<1>3. CASE markActivated
  <2>1. work'[Worker].at = "completing" /\ work'[Operator] = work[Operator]
    BY <1>0, <1>3, MoveFacts DEF markActivated
  <2>2. Current(Worker, Advertised)
    BY <1>1, <1>3 DEF markActivated, Current, Advertised
  <2>3. marker'.corpus = work[Worker].revision /\ work[Worker].revision \in Searched
    BY <1>1, <1>3, <2>2 DEF ServedInv, markActivated, markVaultIndexRevision
  <2>4. ~Current(Operator, Building)'
    BY <1>1, <2>1, <2>2 DEF ServedInv, Current
  <2>5. ~Current(Worker, Advertised)' /\ ~Current(Worker, Building)'
    BY <2>1, CurrentPhases DEF Current
  <2> QED BY <1>1, <2>3, <2>4, <2>5 DEF ServedInv, ConsistentIsServed
<1>4. CASE markFailed
  <2>1. work'[Worker].at = "completing" /\ work'[Operator] = work[Operator]
    BY <1>0, <1>4, MoveFacts DEF markFailed
  <2>2. marker'.warning = "failed"
    BY <1>4 DEF markFailed, markVaultIndexRevision
  <2>3. ~Current(Worker, Advertised)' /\ ~Current(Worker, Building)'
    BY <2>1, CurrentPhases DEF Current
  <2> QED BY <2>2, <2>3 DEF ServedInv, ConsistentIsServed
<1> QED BY <1>2, <1>3, <1>4

\* The operator's writes to the marker, and the vector request.
LEMMA OperatorServes ==
  ASSUME TypeOK, ServedInv,
         \/ rebuildSpaceProjections \/ warnFailed
         \/ \E r \in Revisions : markIndexRequestComplete(r)
  PROVE  ServedInv'
<1> USE BuilderAssumption
<1> SUFFICES ASSUME ~crossed' PROVE ServedInv'
  BY DEF ServedInv
<1>0. Operator \in Builders /\ Worker \in Builders \ {Operator} /\ Other(Operator) = Worker
  BY DEF Builders, Other
<1>1. ~crossed /\ Searched' = Searched
  BY DEF rebuildSpaceProjections, warnFailed, markIndexRequestComplete, generations, Searched
<1>2. CASE rebuildSpaceProjections
  <2>1. work[Operator].at \in Phases /\ "listing" \in Phases \ {"completing"}
    BY <1>2, BuildPhases DEF rebuildSpaceProjections, Phases
  <2>2. ~Current(Worker, Building)' /\ ~Current(Worker, Advertised)'
    BY <1>0, <1>2, <2>1, CurrentPhases, OvertakeFacts DEF rebuildSpaceProjections
  <2>3. marker'.warning = "pending"
    BY <1>2 DEF rebuildSpaceProjections
  <2> QED BY <2>2, <2>3 DEF ServedInv, ConsistentIsServed
<1>3. CASE warnFailed
  <2>1. work'[Operator].at = "idle" /\ work'[Worker] = work[Worker]
    BY <1>0, <1>3 DEF warnFailed, TypeOK, Idle
  <2>2. /\ marker'.corpus = marker.corpus
        /\ marker'.warning = "none" => marker.warning = "none"
    BY <1>3 DEF warnFailed, TypeOK, Marker
  <2>3. ~Current(Operator, Building)'
    BY <2>1 DEF Current, Building
  <2> QED BY <1>1, <2>1, <2>2, <2>3 DEF ServedInv, ConsistentIsServed, Current
<1>4. CASE \E r \in Revisions : markIndexRequestComplete(r)
  <2>1. work' = work /\ marker'.corpus = marker.corpus /\ marker'.warning = marker.warning
    BY <1>4 DEF markIndexRequestComplete, TypeOK, Marker
  <2> QED BY <1>1, <2>1 DEF ServedInv, ConsistentIsServed, Current
<1> QED BY <1>2, <1>3, <1>4

\* What leaves the marker alone outside of a build.
LEMMA RestServes ==
  ASSUME TypeOK, ServedInv,
         \/ UNCHANGED vars
         \/ (\E u \in Edited : Publish(u)) \/ (\E u \in Units : changeRefreshStatus(u))
         \/ (\E r \in Revisions : takeEvent(r))
         \/ readMarker \/ rebuildChangedUnits \/ acknowledge
         \/ startRebuild \/ collectDocuments
         \/ (\E b \in Builders : buildThrows(b)) \/ Crash \/ Abort
  PROVE  ServedInv'
<1>0. Worker \in Builders /\ Operator \in Builders
  BY DEF Builders
<1>w. \A b \in Builders : work[b].at \in Phases => work[b] \in Build
  BY BuildOf, SMTT(30)
<1>1. marker' = marker /\ Searched' = Searched /\ crossed' = crossed
  BY DEF vars, Publish, changeRefreshStatus, takeEvent, readMarker, rebuildChangedUnits, acknowledge,
         startRebuild, collectDocuments, buildThrows, Crash, Abort, generations, Searched
<1>2. ASSUME NEW b \in Builders, \A c \in Builders \ {b} : work'[c] = work[c],
             \/ work'[b] = work[b] \/ work'[b] = Idle
             \/ work'[b].at \in {"reading", "structuring", "marking", "collecting", "projecting",
                                 "failing", "thrown", "completing"}
      PROVE  ServedInv'
  <2>1. Follows(b, Building) /\ Follows(b, Advertised)
    BY <1>2, CurrentPhases DEF Follows, Current, Idle, Building, Advertised
  <2> QED BY <1>1, <1>2, <2>1, QuietKeeps
<1>3. CASE \/ UNCHANGED vars \/ (\E u \in Edited : Publish(u))
           \/ (\E u \in Units : changeRefreshStatus(u))
  <2>1. work' = work
    BY <1>3 DEF vars, Publish, changeRefreshStatus
  <2> QED BY <1>0, <1>2, <2>1
<1>4. CASE \E r \in Revisions : takeEvent(r)
  <2>1. /\ \A c \in Builders \ {Worker} : work'[c] = work[c]
        /\ work'[Worker] = work[Worker] \/ work'[Worker].at = "reading"
    BY <1>0, <1>4 DEF takeEvent, NewBuild, TypeOK
  <2> QED BY <1>0, <1>2, <2>1
<1>5. CASE readMarker
  <2>1. work[Worker] \in Build
    BY <1>0, <1>5, <1>w DEF readMarker, Phases
  <2>2. /\ \A c \in Builders \ {Worker} : work'[c] = work[c]
        /\ work'[Worker].at \in {"marking", "structuring"}
    BY <1>0, <1>5, <2>1 DEF readMarker, TypeOK, Build
  <2> QED BY <1>0, <1>2, <2>2
<1>6. CASE rebuildChangedUnits
  <2>1. {"structuring", "marking"} \subseteq Phases
    BY DEF Phases
  <2>2. /\ \A c \in Builders \ {Worker} : work'[c] = work[c]
        /\ work'[Worker].at = "marking"
    BY <1>0, <1>6, <2>1, MoveFacts DEF rebuildChangedUnits
  <2> QED BY <1>0, <1>2, <2>2
<1>7. CASE acknowledge \/ Crash
  <2>1. (\A c \in Builders \ {Worker} : work'[c] = work[c]) /\ work'[Worker] = Idle
    BY <1>0, <1>7 DEF acknowledge, Crash, TypeOK
  <2> QED BY <1>0, <1>2, <2>1
<1>8. CASE startRebuild
  <2>1. /\ \A c \in Builders \ {Operator} : work'[c] = work[c]
        /\ work'[Operator].at = "collecting"
    BY <1>0, <1>8 DEF startRebuild, NewBuild, TypeOK
  <2> QED BY <1>0, <1>2, <2>1
<1>9. CASE collectDocuments
  <2>1. work[Operator] \in Build
    BY <1>0, <1>9, <1>w DEF collectDocuments, Phases
  <2>2. /\ \A c \in Builders \ {Operator} : work'[c] = work[c]
        /\ work'[Operator].at = "projecting"
    BY <1>0, <1>9, <2>1 DEF collectDocuments, TypeOK, Build
  <2> QED BY <1>0, <1>2, <2>2
<1>10. CASE Abort
  <2>1. (\A c \in Builders \ {Operator} : work'[c] = work[c]) /\ work'[Operator] = Idle
    BY <1>0, <1>10 DEF Abort, TypeOK
  <2> QED BY <1>0, <1>2, <2>1
<1>11. ASSUME NEW b \in Builders, buildThrows(b) PROVE ServedInv'
  <2>1. work[b] \in Build
    BY <1>11, <1>w DEF buildThrows, Phases
  <2> DEFINE at == IF work[b].at \in TryPhases THEN "failing" ELSE "thrown"
             late == work[b].overtaken
                       \/ work[b].at \in {"confirming", "recalling", "closing"}
             w == [work[b] EXCEPT !.at = at, !.overtaken = late]
  <2>2. at \in {"failing", "thrown"} /\ at \in Phases /\ late \in BOOLEAN
    BY <2>1, BuildFields, BuildPhases
  <2>3. work' = After(b, w)
    BY <1>11 DEF buildThrows
  <2> HIDE DEF at, late
  <2>4. w \in Build /\ w.at = at
    BY <2>1, <2>2 DEF Build
  <2> HIDE DEF w
  <2>5. (\A c \in Builders \ {b} : work'[c] = work[c]) /\ work'[b].at \in {"failing", "thrown"}
    BY <2>2, <2>3, <2>4, AfterFacts
  <2> QED BY <1>2, <2>5
<1> QED BY <1>3, <1>4, <1>5, <1>6, <1>7, <1>8, <1>9, <1>10, <1>11

\* Every step keeps what is served.
LEMMA StepServes == TypeOK /\ ServedInv /\ [Next]_vars => ServedInv'
<1> SUFFICES ASSUME TypeOK, ServedInv, [Next]_vars PROVE ServedInv'
  OBVIOUS
<1>0. Worker \in Builders /\ Operator \in Builders
  BY DEF Builders
<1>1. ASSUME NEW b \in Builders, BuildStep(b) PROVE ServedInv'
  BY <1>1, BuildServes, StaleServes, ActivationServes DEF BuildStep
<1> QED BY <1>0, <1>1, MarkServes, OperatorServes, RestServes
        DEF Next, WorkerStep, OperatorStep, HandleEvent

\* The invariant holds in every reachable state.
LEMMA ServedHolds == Spec => []ServedInv
<1>1. Init => ServedInv
  <2> SUFFICES ASSUME Init PROVE ServedInv
    OBVIOUS
  <2>1. marker.corpus \in Searched
    BY BoundAssumption DEF Init, Searched, Revisions
  <2>2. \A b \in Builders : work[b].at = "idle"
    BY DEF Init, Idle
  <2> QED BY <2>1, <2>2 DEF ServedInv, ConsistentIsServed, Current, Building, Advertised, Builders
<1> QED BY <1>1, StepServes, TypeCorrect, PTL DEF Spec

\* Units, generations and marker agree: besides SelectedVectors, an index that is
\* reported to be consistent is searched with the vectors of its own corpus, until
\* a builder writes what another had overtaken (markVaultIndexRevision and
\* activateCurrentGeneration).
THEOREM IndexAgrees == Spec => []VectorsAgree
<1>1. TypeOK /\ (SelectedIsWhole /\ OneActive) /\ ServedInv => VectorsAgree
  BY DEF VectorsAgree, ServedInv, ConsistentIsServed
<1> QED BY <1>1, ServedHolds, TypeCorrect, SelectedVectors, PTL

-----------------------------------------------------------------------------
(* The statements of a build.                                                  *)

\* A build that goes on, or is about to end with a mark.
Settling == Building \cup {"failing", "thrown"}

LEMMA SettlingPhases ==
  /\ Settling \subseteq Phases \ {"completing"} /\ Settling \cap Advertised = {}
  /\ Settling \cap {"reading", "structuring", "marking", "collecting", "projecting"} = {}
BY DEF Settling, Building, Advertised, Phases, OpenPhases, TryPhases

\* Before its activation, a build moves from one statement to another.
LEMMA BuildMoves ==
  ASSUME TypeOK, NEW b \in Builders, BuildStep(b), ~activateCurrentGeneration(b), ~confirm(b)
  PROVE  /\ UNCHANGED <<head, event, marker, unit, live, struck>>
         /\ \A c \in Builders \ {b} : work'[c] = work[c]
         /\ work[b].at \in Settling /\ work'[b].at \in Settling
         /\ work'[b].revision = work[b].revision /\ work'[b].overtaken = work[b].overtaken
         /\ work'[b].kept = work[b].kept
         /\ work'[b].at = "requesting" =>
              work'[b].seen = Eligible(unit[work[b].revision], live)
         /\ work'[b].at = "covering" =>
              work[b].at = "requesting" /\ work'[b].seen = work[b].seen
         /\ work'[b].at = "staling" => generationCoverage(b)
<1> USE BuildPhases DEF Settling, Building
<1>w. work[b].at \in Phases => work[b] \in Build
  BY BuildOf
<1>m. ASSUME NEW at \in Phases \ {"completing", "requesting", "covering"}, MoveTo(b, at),
             work[b].at \in Phases
      PROVE  /\ \A c \in Builders \ {b} : work'[c] = work[c]
             /\ work'[b].at = at
             /\ work'[b].revision = work[b].revision /\ work'[b].overtaken = work[b].overtaken
             /\ work'[b].kept = work[b].kept
  BY <1>m, MoveFacts
<1>1. CASE listUnits(b)
  <2>1. work[b] \in Build
    BY <1>1, <1>w DEF listUnits
  <2>2. /\ work'[b] = [work[b] EXCEPT !.at = "requesting",
                                      !.seen = Eligible(unit[work[b].revision], live)]
        /\ \A c \in Builders \ {b} : work'[c] = work[c]
    BY <1>1 DEF listUnits, TypeOK
  <2>3. /\ work'[b].at = "requesting" /\ work'[b].revision = work[b].revision
        /\ work'[b].overtaken = work[b].overtaken /\ work'[b].kept = work[b].kept
        /\ work'[b].seen = Eligible(unit[work[b].revision], live)
    BY <2>1, <2>2 DEF Build
  <2> QED BY <1>1, <2>2, <2>3 DEF listUnits, main, corpus, bounds
<1>2. CASE request(b)
  <2>1. work[b] \in Build
    BY <1>2, <1>w DEF request
  <2>2. PICK now : work' = [work EXCEPT ![b].at = "covering", ![b].status = now]
    BY <1>2 DEF request
  <2>3. /\ work'[b] = [work[b] EXCEPT !.at = "covering", !.status = now]
        /\ \A c \in Builders \ {b} : work'[c] = work[c]
    BY <2>2 DEF TypeOK
  <2>4. /\ work'[b].at = "covering" /\ work'[b].revision = work[b].revision
        /\ work'[b].overtaken = work[b].overtaken /\ work'[b].kept = work[b].kept
        /\ work'[b].seen = work[b].seen
    BY <2>1, <2>3 DEF Build
  <2> QED BY <1>2, <2>3, <2>4 DEF request, main, corpus, bounds
<1>3. CASE generationCoverage(b)
  <2>1. \E at \in {"restoring", "staling", "beginning"} : MoveTo(b, at)
    BY <1>3 DEF generationCoverage
  <2> QED BY <1>3, <1>m, <2>1 DEF generationCoverage, main, corpus, bounds
<1>4. CASE stale(b) \/ beginBuild(b)
  <2>1. \E at \in {"beginning", "deleting", "thrown"} : MoveTo(b, at)
    BY <1>4 DEF stale, beginBuild, transition
  <2> QED BY <1>4, <1>m, <2>1 DEF stale, beginBuild, transition, main, corpus, bounds
<1>5. CASE deleteInvalidGenerationEmbeddings(b) \/ fail(b)
  <2>1. \E at \in {"planning", "thrown"} : MoveTo(b, at)
    BY <1>5, SMTT(30) DEF deleteInvalidGenerationEmbeddings, fail
  <2> QED BY <1>5, <1>m, <2>1
          DEF deleteInvalidGenerationEmbeddings, fail, main, corpus, bounds
<1>6. CASE listMissing(b)
  <2>1. work[b] \in Build
    BY <1>6, <1>w DEF listMissing
  <2>2. PICK todo :
          work' = [work EXCEPT ![b].at = IF todo = {} THEN "readying" ELSE "writing",
                               ![b].todo = todo]
    BY <1>6 DEF listMissing
  <2>3. PICK at \in {"readying", "writing"} :
          work' = [work EXCEPT ![b].at = at, ![b].todo = todo]
    BY <2>2
  <2>4. /\ work'[b] = [work[b] EXCEPT !.at = at, !.todo = todo]
        /\ \A c \in Builders \ {b} : work'[c] = work[c]
    BY <2>3 DEF TypeOK
  <2>5. /\ work'[b].at = at /\ work'[b].revision = work[b].revision
        /\ work'[b].overtaken = work[b].overtaken /\ work'[b].kept = work[b].kept
    BY <2>1, <2>4 DEF Build
  <2> QED BY <1>6, <2>3, <2>4, <2>5 DEF listMissing, main, corpus, bounds
<1>7. ASSUME NEW u \in Units, writeEmbedding(b, u), ~MoveTo(b, "failing")
      PROVE  /\ \A c \in Builders \ {b} : work'[c] = work[c]
             /\ work'[b].at \in {"readying", "writing"}
             /\ work'[b].revision = work[b].revision /\ work'[b].overtaken = work[b].overtaken
             /\ work'[b].kept = work[b].kept
  <2>1. work[b] \in Build /\ work[b].todo \in SUBSET Units
    BY <1>7, <1>w, BuildFields DEF writeEmbedding
  <2>2. PICK at \in {"readying", "writing"}, left \in SUBSET Units :
          work' = After(b, [work[b] EXCEPT !.at = at, !.todo = left])
    <3> DEFINE left == work[b].todo \ {u}
               at == IF left = {} THEN "readying" ELSE work[b].at
    <3>1. work' = After(b, [work[b] EXCEPT !.at = at, !.todo = left])
      BY <1>7 DEF writeEmbedding
    <3>2. at \in {"readying", "writing"} /\ left \in SUBSET Units
      BY <1>7, <2>1 DEF writeEmbedding
    <3> HIDE DEF at, left
    <3> QED BY <3>1, <3>2
  <2>3. PICK w : w = [work[b] EXCEPT !.at = at, !.todo = left]
    OBVIOUS
  <2>4. /\ w \in Build /\ w.at = at /\ w.revision = work[b].revision
        /\ w.overtaken = work[b].overtaken /\ w.kept = work[b].kept
    BY <2>1, <2>3 DEF Build
  <2> QED BY <2>2, <2>3, <2>4, AfterFacts
<1>8. ASSUME NEW u \in Units, writeEmbedding(b, u)
      PROVE  /\ UNCHANGED <<head, event, marker, unit, live, struck>>
             /\ work[b].at = "writing"
             /\ MoveTo(b, "failing") \/ ~MoveTo(b, "failing")
  BY <1>8 DEF writeEmbedding, main, corpus, bounds
<1>9. CASE \E u \in Units : writeEmbedding(b, u)
  BY <1>7, <1>8, <1>9, <1>m
<1>10. CASE markReady(b)
  <2>1. /\ work[b].at = "readying" /\ work[b] \in Build
        /\ UNCHANGED <<head, event, marker, unit, live, struck>>
    BY <1>10, <1>w DEF markReady, main, corpus, bounds
  <2>2. \/ MoveTo(b, "failing")
        \/ \E now \in Statuses :
             work' = After(b, [work[b] EXCEPT !.at = "activating", !.status = now])
    <3> DEFINE r == work[b].revision
               counted == status[r] = "BUILDING" /\ Count(vector[r]) = Count(work[b].seen)
               now == IF counted THEN "READY" ELSE status[r]
    <3>1. r \in Revisions
      BY <2>1, BuildFields
    <3>2. now \in Statuses
      BY <3>1 DEF TypeOK, Statuses
    <3>3. \/ MoveTo(b, "failing")
          \/ work' = After(b, [work[b] EXCEPT !.at = "activating", !.status = now])
      BY <1>10 DEF markReady
    <3> HIDE DEF now
    <3> QED BY <3>2, <3>3
  <2>3. CASE MoveTo(b, "failing")
    BY <1>m, <2>1, <2>3
  <2>4. ASSUME NEW now \in Statuses,
               work' = After(b, [work[b] EXCEPT !.at = "activating", !.status = now])
        PROVE  /\ \A c \in Builders \ {b} : work'[c] = work[c]
               /\ work'[b].at = "activating"
               /\ work'[b].revision = work[b].revision /\ work'[b].overtaken = work[b].overtaken
               /\ work'[b].kept = work[b].kept
    <3>1. PICK w : w = [work[b] EXCEPT !.at = "activating", !.status = now]
      OBVIOUS
    <3>2. /\ w \in Build /\ w.at = "activating" /\ w.revision = work[b].revision
          /\ w.overtaken = work[b].overtaken /\ w.kept = work[b].kept
      BY <2>1, <3>1 DEF Build
    <3> QED BY <2>4, <3>1, <3>2, AfterFacts
  <2> QED BY <2>1, <2>2, <2>3, <2>4
<1> QED BY <1>1, <1>2, <1>3, <1>4, <1>5, <1>6, <1>9, <1>10 DEF BuildStep

\* Before its activation, a build may only stale what is searched, and calls
\* complete only what is not.
LEMMA BuildSearched ==
  ASSUME TypeOK, NEW b \in Builders, BuildStep(b), ~activateCurrentGeneration(b), ~confirm(b)
  PROVE  /\ Searched' \subseteq Searched
         /\ stale(b) \/ Searched' = Searched
         /\ Searched' \cap touched \subseteq touched'
<1>1. CASE listUnits(b) \/ generationCoverage(b) \/ listMissing(b)
  BY <1>1 DEF listUnits, generationCoverage, listMissing, generations, Searched
<1>2. CASE request(b)
  BY <1>2 DEF request, TypeOK, Searched
<1>3. CASE stale(b)
  BY <1>3 DEF stale, transition, TypeOK, Searched
<1>4. CASE beginBuild(b)
  BY <1>4, SMTT(30) DEF beginBuild, transition, TypeOK, Searched
<1>5. CASE deleteInvalidGenerationEmbeddings(b) \/ \E u \in Units : writeEmbedding(b, u)
  BY <1>5 DEF deleteInvalidGenerationEmbeddings, writeEmbedding, Searched
<1>6. CASE markReady(b)
  <2> DEFINE r == work[b].revision
             counted == status[r] = "BUILDING" /\ Count(vector[r]) = Count(work[b].seen)
  <2>1. \/ UNCHANGED <<status, touched>>
        \/ /\ status' = [status EXCEPT ![r] = IF counted THEN "READY" ELSE status[r]]
           /\ touched' = IF counted THEN touched \ {r} ELSE touched
    BY <1>6 DEF markReady
  <2>2. counted => status[r] = "BUILDING"
    OBVIOUS
  <2> HIDE DEF counted, r
  <2> QED BY <2>1, <2>2 DEF TypeOK, Searched
<1>7. CASE fail(b)
  BY <1>7 DEF fail, TypeOK, Searched
<1> QED BY <1>1, <1>2, <1>3, <1>4, <1>5, <1>6, <1>7 DEF BuildStep

-----------------------------------------------------------------------------
(* What is reported to be pending.                                             *)

Before == {"reading", "structuring", "marking"}

\* b is building what the marker names, and ends with a mark of its own.
Settles(b) == work[b].at \in Settling /\ work[b].revision = marker.corpus

\* The event of main's last publication is open while the worker is at work, and
\* brings a mark unless the worker has made it.
EventBrings ==
  /\ event[head] = "open"
  /\ work[Worker].at \in Phases /\ work[Worker].revision = head =>
       work[Worker].at \in Before \/ Settles(Worker)

\* Who will take the report of a pending build back: the operator that made it,
\* or the event.
PendingInv ==
  /\ work[Worker].at \in Phases => event[head] = "open" /\ work[Worker].revision <= head
  /\ marker.warning = "pending" /\ "abort" \notin struck => Settles(Operator) \/ EventBrings

\* A step that leaves marker, events and faults alone, and takes nobody out of
\* what it has to settle.
LEMMA QuietPending ==
  ASSUME PendingInv, UNCHANGED <<marker, event, head>>, struck \subseteq struck',
         \A c \in Builders :
           /\ work'[c].at \in Phases =>
                work[c].at \in Phases /\ work'[c].revision = work[c].revision
           /\ work'[c].at \in Phases /\ work[c].at \in Before =>
                work'[c].at \in Before \cup Settling,
         \A c \in Builders : Settles(c) => Settles(c)',
         work[Worker].at \in Before => work'[Worker].at \in Before \/ work'[Worker].at \notin Phases
  PROVE  PendingInv'
<1>1. Worker \in Builders /\ Operator \in Builders
  BY DEF Builders
<1>2. EventBrings => EventBrings'
  BY <1>1 DEF EventBrings
<1> QED BY <1>1, <1>2 DEF PendingInv

\* The statements of a build settle what is pending or leave it to others.
LEMMA BuildPending ==
  ASSUME TypeOK, PendingInv, NEW b \in Builders, BuildStep(b)
  PROVE  PendingInv'
<1> USE BuildPhases, SettlingPhases, BuilderAssumption
<1>0. Worker \in Builders /\ Operator \in Builders /\ \A c \in Builders : c \in {Worker, Operator}
  BY DEF Builders
<1>b. Before \subseteq Phases /\ Before \cap Settling = {} /\ "completing" \notin Before
  BY DEF Before, Phases
<1>1. CASE ~activateCurrentGeneration(b) /\ ~confirm(b)
  <2>1. /\ UNCHANGED <<head, event, marker, struck>>
        /\ \A c \in Builders \ {b} : work'[c] = work[c]
        /\ work[b].at \in Settling /\ work'[b].at \in Settling
        /\ work'[b].revision = work[b].revision
    BY <1>1, BuildMoves
  <2>2. \A c \in Builders : Settles(c) => Settles(c)'
    BY <2>1 DEF Settles
  <2> QED BY <1>0, <1>b, <2>1, <2>2, QuietPending
<1>2. ASSUME UNCHANGED <<marker, event, head, struck>>, NEW activated, Return(b, activated),
             work[b].at \in Phases \ Before, ~Settles(b)
      PROVE  PendingInv'
  <2>1. CASE b = Operator
    <3>1. work'[b] = Idle /\ \A c \in Builders \ {b} : work'[c] = work[c]
      BY <1>2, <2>1 DEF Return, TypeOK
    <3>2. work'[b].at \notin Phases
      BY <3>1 DEF Idle, Phases, TryPhases, OpenPhases
    <3>3. \A c \in Builders : Settles(c) => Settles(c)'
      BY <1>2, <3>1 DEF Settles
    <3> QED BY <1>0, <1>2, <2>1, <3>1, <3>2, <3>3, QuietPending
  <2>2. CASE b = Worker
    <3>1. PICK at \in {"closing", "completing"} : MoveTo(b, at)
      BY <1>2, <2>2 DEF Return
    <3>2. /\ work'[b].at = at /\ work'[b].revision = work[b].revision
          /\ \A c \in Builders \ {b} : work'[c] = work[c]
      BY <1>2, <3>1, MoveFacts
    <3>3. \A c \in Builders : Settles(c) => Settles(c)'
      BY <1>2, <3>2 DEF Settles
    <3> QED BY <1>0, <1>2, <1>b, <2>2, <3>2, <3>3, QuietPending
  <2> QED BY <1>0, <2>1, <2>2
<1>3. CASE confirm(b)
  <2>1. /\ UNCHANGED <<marker, event, head, struck>> /\ work[b].at \in Phases \ Before
        /\ \E activated : Return(b, activated)
    BY <1>3 DEF confirm, main, bounds, Before
  <2>2. ~Settles(b)
    BY <1>3 DEF confirm, Settles, Settling, Building
  <2> QED BY <1>2, <2>1, <2>2
<1>4. CASE activateCurrentGeneration(b)
  <2> DEFINE r == work[b].revision
  <2>1. /\ work[b].at \in Settling /\ work[b].at \in Phases \ Before /\ work[b].at \in Phases
        /\ UNCHANGED <<event, head, struck>>
    BY <1>4 DEF activateCurrentGeneration, Settling, Building, main, bounds, Before
  <2>2. CASE marker.corpus # r
    <3>1. marker' = marker /\ \E activated : Return(b, activated)
      BY <1>4, <2>2 DEF activateCurrentGeneration
    <3>2. ~Settles(b)
      BY <2>2 DEF Settles
    <3> QED BY <1>2, <2>1, <3>1, <3>2
  <2>3. CASE marker.corpus = r /\ status[r] \in {"READY", "ACTIVE", "RETIRED"} /\ Whole(r)
    <3>1. PICK at \in {"confirming", "recalling"} : work' = Overtake(b, at)
      BY <1>4, <2>3 DEF activateCurrentGeneration
    <3>2. marker'.warning = "none"
      <4>1. marker' = [marker EXCEPT !.vector = r, !.warning = "none"]
        BY <1>4, <2>3 DEF activateCurrentGeneration
      <4> QED BY <4>1 DEF TypeOK, Marker
    <3>3. /\ work'[b].revision = work[b].revision
          /\ work'[Other(b)].at = work[Other(b)].at
          /\ work[Other(b)].at \in Phases => work'[Other(b)].revision = work[Other(b)].revision
      BY <2>1, <3>1, OvertakeFacts
    <3>4. Worker = b \/ Worker = Other(b)
      BY DEF Other, Builders
    <3> QED BY <2>1, <3>2, <3>3, <3>4 DEF PendingInv
  <2>4. CASE marker.corpus = r /\ ~(status[r] \in {"READY", "ACTIVE", "RETIRED"} /\ Whole(r))
    <3>1. marker' = marker /\ \E at \in {"failing", "thrown"} : MoveTo(b, at)
      BY <1>4, <2>4 DEF activateCurrentGeneration
    <3>2. PICK at \in {"failing", "thrown"} : MoveTo(b, at)
      BY <3>1
    <3>3. /\ work'[b].at = at /\ work'[b].revision = work[b].revision
          /\ \A c \in Builders \ {b} : work'[c] = work[c]
      BY <2>1, <3>2, MoveFacts
    <3>4. at \in Settling
      BY DEF Settling
    <3>5. \A c \in Builders : Settles(c) => Settles(c)'
      BY <3>1, <3>3, <3>4 DEF Settles
    <3> QED BY <1>0, <1>b, <2>1, <3>1, <3>3, <3>4, <3>5, QuietPending
  <2> QED BY <2>2, <2>3, <2>4
<1> QED BY <1>1, <1>3, <1>4

\* The worker's own statements.
LEMMA WorkerPending ==
  ASSUME TypeOK, PendingInv,
         \/ \E r \in Revisions : takeEvent(r) \/ markIndexRequestComplete(r)
         \/ readMarker \/ rebuildChangedUnits \/ markPending \/ markActivated \/ markFailed
         \/ acknowledge \/ Crash
  PROVE  PendingInv'
<1> USE BuildPhases, SettlingPhases, BuilderAssumption
<1>0. Worker \in Builders /\ Operator \in Builders \ {Worker} /\ head \in Revisions /\ head \in Nat
  BY DEF Builders, TypeOK, Revisions
<1>b. Before \subseteq Phases /\ Before \cap Settling = {} /\ "completing" \notin Before
  BY DEF Before, Phases
<1>i. Idle.at \notin Phases
  BY DEF Idle, Phases, TryPhases, OpenPhases
<1>w. work[Worker].at \in Phases => work[Worker] \in Build /\ work[Worker].revision \in Revisions
  BY <1>0, BuildOf, BuildFields
<1>o. marker'.corpus = marker.corpus /\ work'[Operator] = work[Operator] =>
        (Settles(Operator) => Settles(Operator)')
  BY DEF Settles
<1>1. ASSUME NEW r \in Revisions, takeEvent(r) PROVE PendingInv'
  <2>1. /\ work[Worker].at \notin Phases /\ UNCHANGED <<head, marker, struck>>
        /\ work'[Operator] = work[Operator]
    BY <1>0, <1>1, <1>i DEF takeEvent, main, bounds, TypeOK
  <2>2. CASE r = head
    <3>1. work'[Worker] = NewBuild("reading", r) /\ event' = event /\ event[head] = "open"
      BY <1>0, <1>1, <2>2 DEF takeEvent, TypeOK
    <3>2. work'[Worker].at \in Before /\ work'[Worker].revision = head
      BY <2>2, <3>1 DEF NewBuild, Before
    <3> QED BY <1>0, <1>o, <2>1, <3>1, <3>2 DEF PendingInv, EventBrings
  <2>3. CASE r # head
    <3>1. work' = work /\ event'[head] = event[head]
      BY <1>0, <1>1, <2>3 DEF takeEvent, TypeOK
    <3> QED BY <1>o, <2>1, <3>1 DEF PendingInv, EventBrings
  <2> QED BY <2>2, <2>3
<1>2. ASSUME NEW r \in Revisions, markIndexRequestComplete(r) PROVE PendingInv'
  <2>1. /\ work' = work /\ work[Worker].at \notin Phases /\ UNCHANGED <<head, struck>>
        /\ event[head] = "open" => event'[head] = "open"
        /\ marker'.corpus = marker.corpus /\ marker'.warning = marker.warning
    BY <1>0, <1>2, <1>i DEF markIndexRequestComplete, main, bounds, TypeOK, Marker
  <2> QED BY <1>o, <2>1 DEF PendingInv, EventBrings
<1>3. ASSUME UNCHANGED <<head, event, marker, struck>>, work[Worker].at \in Before,
             work'[Worker].at \in Before, work'[Worker].revision = work[Worker].revision,
             work'[Operator] = work[Operator]
      PROVE  PendingInv'
  BY <1>3, <1>b, <1>o DEF PendingInv, EventBrings
<1>4. CASE readMarker
  <2>1. work[Worker] \in Build /\ work[Worker].at \in Before
    BY <1>4, <1>w DEF readMarker, Before, Phases
  <2>2. /\ work'[Worker].at \in {"marking", "structuring"}
        /\ work'[Worker].revision = work[Worker].revision
        /\ work'[Operator] = work[Operator]
    BY <1>0, <1>4, <2>1 DEF readMarker, TypeOK, Build
  <2> QED BY <1>3, <1>4, <2>1, <2>2 DEF readMarker, main, bounds, Before
<1>5. CASE rebuildChangedUnits
  <2>1. {"structuring", "marking"} \subseteq Phases
    BY DEF Phases
  <2>2. /\ work[Worker].at = "structuring" /\ work'[Worker].at = "marking"
        /\ work'[Worker].revision = work[Worker].revision
        /\ work'[Operator] = work[Operator]
    BY <1>0, <1>5, <2>1, MoveFacts DEF rebuildChangedUnits
  <2> QED BY <1>3, <1>5, <2>2 DEF rebuildChangedUnits, main, bounds, Before
<1>6. CASE markPending
  <2>1. "marking" \in Phases
    BY DEF Phases
  <2>2. /\ work[Worker].at \in Phases /\ work'[Worker].at = "listing"
        /\ work'[Worker].revision = work[Worker].revision
    BY <1>0, <1>6, <2>1, MoveFacts DEF markPending
  <2>3. marker'.corpus = work[Worker].revision /\ UNCHANGED <<head, event>>
    BY <1>6 DEF markPending, markVaultIndexRevision, main
  <2>4. "listing" \in Settling
    BY DEF Settling, Building
  <2>5. EventBrings'
    BY <2>2, <2>3, <2>4 DEF EventBrings, Settles, PendingInv
  <2> QED BY <2>2, <2>3, <2>5 DEF PendingInv
<1>7. CASE markActivated \/ markFailed
  <2>1. /\ work[Worker].at \in Phases /\ work'[Worker].revision = work[Worker].revision
    BY <1>0, <1>7, MoveFacts DEF markActivated, markFailed
  <2>2. marker'.warning # "pending" /\ UNCHANGED <<head, event>>
    BY <1>7 DEF markActivated, markFailed, markVaultIndexRevision, main
  <2> QED BY <2>1, <2>2 DEF PendingInv
<1>8. CASE acknowledge
  <2>1. /\ work[Worker].at = "completing" /\ work'[Worker].at \notin Phases
        /\ work'[Operator] = work[Operator] /\ UNCHANGED <<head, marker, struck>>
    BY <1>0, <1>8, <1>i DEF acknowledge, main, bounds, TypeOK
  <2>2. EventBrings => work[Worker].revision # head
    BY <1>b, <2>1 DEF EventBrings, Settles
  <2>3. work[Worker].revision # head => event'[head] = event[head]
    BY <1>0, <1>8, <1>w, <2>1 DEF acknowledge, TypeOK
  <2>4. EventBrings => EventBrings'
    BY <2>1, <2>2, <2>3 DEF EventBrings
  <2> QED BY <1>o, <2>1, <2>4 DEF PendingInv
<1>9. CASE Crash
  <2>1. /\ work'[Worker].at \notin Phases /\ work'[Operator] = work[Operator]
        /\ UNCHANGED <<head, event, marker>> /\ struck \subseteq struck'
    BY <1>0, <1>9, <1>i DEF Crash, Spend, main, TypeOK
  <2>2. EventBrings => EventBrings'
    BY <2>1 DEF EventBrings
  <2> QED BY <1>o, <2>1, <2>2 DEF PendingInv
<1> QED BY <1>1, <1>2, <1>4, <1>5, <1>6, <1>7, <1>8, <1>9

\* The operator's statements, publications, documents and faults.
LEMMA RestPending ==
  ASSUME TypeOK, PendingInv,
         \/ UNCHANGED vars
         \/ (\E u \in Edited : Publish(u)) \/ (\E u \in Units : changeRefreshStatus(u))
         \/ startRebuild \/ collectDocuments \/ rebuildSpaceProjections \/ warnFailed
         \/ Abort \/ \E b \in Builders : buildThrows(b)
  PROVE  PendingInv'
<1> USE BuildPhases, SettlingPhases, BuilderAssumption
<1>0. Worker \in Builders \ {Operator} /\ Operator \in Builders /\ head \in Revisions /\ head \in Nat
  BY DEF Builders, TypeOK, Revisions
<1>b. Before \subseteq Phases /\ Before \cap Settling = {} /\ "completing" \notin Before
  BY DEF Before, Phases
<1>w. \A b \in Builders : work[b].at \in Phases =>
        work[b] \in Build /\ work[b].revision \in Revisions
  BY BuildOf, BuildFields
<1>1. CASE UNCHANGED vars \/ \E u \in Units : changeRefreshStatus(u)
  BY <1>1 DEF vars, main, bounds, changeRefreshStatus, PendingInv, EventBrings, Settles
<1>2. ASSUME NEW u \in Edited, Publish(u) PROVE PendingInv'
  <2>1. /\ head' = head + 1 /\ head' \in Revisions /\ event'[head'] = "open"
        /\ UNCHANGED <<work, marker, struck>>
    BY <1>0, <1>2, BoundAssumption DEF Publish, TypeOK, Revisions, bounds
  <2>2. work[Worker].at \in Phases =>
          work[Worker].revision \in Nat /\ work[Worker].revision <= head
    BY <1>0, <1>w DEF PendingInv, Revisions
  <2>3. work[Worker].at \in Phases =>
          work[Worker].revision <= head' /\ work[Worker].revision # head'
    BY <1>0, <2>1, <2>2
  <2> QED BY <2>1, <2>3 DEF PendingInv, EventBrings
<1>3. ASSUME UNCHANGED <<head, event, marker>>, struck \subseteq struck',
             work'[Worker] = work[Worker], ~Settles(Operator)
      PROVE  PendingInv'
  BY <1>3 DEF PendingInv, EventBrings, Settles
<1>4. CASE startRebuild
  <2>1. work'[Worker] = work[Worker] /\ UNCHANGED <<head, event, marker, struck>>
    BY <1>0, <1>4 DEF startRebuild, main, bounds, TypeOK
  <2>2. work[Operator].at \notin Settling
    BY <1>4 DEF startRebuild, Idle, Settling, Building
  <2> QED BY <1>3, <2>1, <2>2 DEF Settles
<1>5. CASE collectDocuments
  <2>1. work'[Worker] = work[Worker] /\ UNCHANGED <<head, event, marker, struck>>
    BY <1>0, <1>5 DEF collectDocuments, main, bounds, TypeOK
  <2>2. work[Operator].at \notin Settling
    BY <1>5 DEF collectDocuments
  <2> QED BY <1>3, <2>1, <2>2 DEF Settles
<1>6. CASE rebuildSpaceProjections
  <2>1. "projecting" \in Phases /\ "listing" \in Phases \ {"completing"} /\ "listing" \in Settling
    BY DEF Phases, Settling, Building
  <2>2. /\ work'[Operator].at = "listing" /\ work'[Operator].revision = work[Operator].revision
        /\ work'[Other(Operator)].at = work[Other(Operator)].at
        /\ work[Other(Operator)].at \in Phases =>
             work'[Other(Operator)].revision = work[Other(Operator)].revision
    BY <1>0, <1>6, <2>1, OvertakeFacts DEF rebuildSpaceProjections
  <2>3. Other(Operator) = Worker
    BY DEF Other
  <2>4. marker'.corpus = work[Operator].revision /\ UNCHANGED <<head, event>>
    BY <1>6 DEF rebuildSpaceProjections, main
  <2> QED BY <2>1, <2>2, <2>3, <2>4 DEF PendingInv, Settles
<1>7. CASE warnFailed
  <2>1. /\ work'[Worker] = work[Worker] /\ work[Operator].at = "thrown"
        /\ UNCHANGED <<head, event, struck>>
    BY <1>0, <1>7 DEF warnFailed, main, bounds, TypeOK
  <2>2. CASE marker.corpus = work[Operator].revision
    <3>1. marker'.warning = "failed"
      BY <1>7, <2>2 DEF warnFailed, TypeOK, Marker
    <3> QED BY <2>1, <3>1 DEF PendingInv
  <2>3. CASE marker.corpus # work[Operator].revision
    <3>1. marker' = marker /\ ~Settles(Operator)
      BY <1>7, <2>3 DEF warnFailed, Settles
    <3> QED BY <1>3, <2>1, <3>1
  <2> QED BY <2>2, <2>3
<1>8. CASE Abort
  <2>1. work'[Worker] = work[Worker] /\ "abort" \in struck' /\ UNCHANGED <<head, event>>
    BY <1>0, <1>8 DEF Abort, Spend, main, TypeOK
  <2> QED BY <2>1 DEF PendingInv
<1>9. ASSUME NEW b \in Builders, buildThrows(b) PROVE PendingInv'
  <2>1. work[b].at \in TryPhases \cup OpenPhases \cup {"failing"} /\ work[b].at \in Phases /\ work[b] \in Build
    BY <1>9, <1>w DEF buildThrows, Phases
  <2>2. PICK at \in {"failing", "thrown"}, late \in BOOLEAN :
          work' = After(b, [work[b] EXCEPT !.at = at, !.overtaken = late])
    <3> DEFINE at == IF work[b].at \in TryPhases THEN "failing" ELSE "thrown"
               late == work[b].overtaken
                         \/ work[b].at \in {"confirming", "recalling", "closing"}
    <3>1. work' = After(b, [work[b] EXCEPT !.at = at, !.overtaken = late])
      BY <1>9 DEF buildThrows
    <3>2. at \in {"failing", "thrown"} /\ late \in BOOLEAN
      BY <2>1, BuildFields
    <3> HIDE DEF at, late
    <3> QED BY <3>1, <3>2
  <2>3. PICK w : w = [work[b] EXCEPT !.at = at, !.overtaken = late]
    OBVIOUS
  <2>4. w \in Build /\ w.at = at /\ w.revision = work[b].revision
    BY <2>1, <2>3 DEF Build
  <2>5. /\ work'[b].at = at /\ work'[b].revision = work[b].revision
        /\ \A c \in Builders \ {b} : work'[c] = work[c]
    BY <2>2, <2>3, <2>4, AfterFacts
  <2>6. at \in Settling /\ at \in Phases /\ work[b].at \notin Before
    BY <2>1 DEF Settling, Before, TryPhases, OpenPhases
  <2>7. UNCHANGED <<head, event, marker>> /\ struck \subseteq struck'
    BY <1>9 DEF buildThrows, Spend, main
  <2>8. \A c \in Builders : Settles(c) => Settles(c)'
    BY <2>5, <2>6, <2>7 DEF Settles
  <2> QED BY <1>0, <1>b, <2>1, <2>5, <2>6, <2>7, <2>8, QuietPending
<1> QED BY <1>1, <1>2, <1>4, <1>5, <1>6, <1>7, <1>8, <1>9

\* Every step leaves what is pending to somebody.
LEMMA StepPending == TypeOK /\ PendingInv /\ [Next]_vars => PendingInv'
<1> SUFFICES ASSUME TypeOK, PendingInv, [Next]_vars PROVE PendingInv'
  OBVIOUS
<1>0. Worker \in Builders /\ Operator \in Builders
  BY DEF Builders
<1> QED BY <1>0, BuildPending, WorkerPending, RestPending
        DEF Next, WorkerStep, OperatorStep, HandleEvent

\* No crash, failure or race of builders leaves the report of a pending build
\* behind: a builder is at work, or an event will bring one, unless the
\* operator's own request has died (rebuildSpaceProjections, incrementalIndex).
THEOREM PendingIsAlwaysOwned == Spec => []PendingIsOwned
<1>1. Init => PendingInv
  <2> SUFFICES ASSUME Init PROVE PendingInv
    OBVIOUS
  <2>1. work[Worker] = Idle /\ marker.warning = "none"
    BY DEF Init, Builders
  <2>2. Idle.at \notin Phases
    BY DEF Idle, Phases, TryPhases, OpenPhases
  <2> QED BY <2>1, <2>2 DEF PendingInv
<1>2. TypeOK /\ PendingInv => PendingIsOwned
  <2> SUFFICES ASSUME TypeOK, PendingInv, marker.warning = "pending", "abort" \notin struck
               PROVE  \/ \E b \in Builders : work[b] # Idle
                      \/ \E r \in Revisions : event[r] = "open"
    BY DEF PendingIsOwned
  <2>1. head \in Revisions /\ Operator \in Builders
    BY DEF TypeOK, Builders
  <2>2. Settles(Operator) => work[Operator] # Idle
    BY DEF Settles, Settling, Building, Idle
  <2> QED BY <2>1, <2>2 DEF PendingInv, EventBrings
<1>3. Spec => []PendingInv
  BY <1>1, StepPending, TypeCorrect, PTL DEF Spec
<1> QED BY <1>2, <1>3, TypeCorrect, PTL

-----------------------------------------------------------------------------
(* What stays searched.                                                        *)

\* From its first mark to its activation, the worker has something to preserve.
Preserving == {"structuring", "marking"} \cup Settling

\* Between its look at the units and what it makes of them.
Judging == {"requesting", "covering", "staling"}

\* What the worker preserves is searched, if anything is and nobody overtook it.
KeptIsSearched ==
  Current(Worker, Preserving) /\ Searched # {} => work[Worker].kept \in Searched

\* A generation that is searched, and whose units have not changed, is found as
\* it is: b stales it only if they have.
FoundIsWhole(b) ==
  Current(b, Judging) /\ work[b].revision \in Searched \ touched =>
    /\ work[b].at # "staling"
    /\ work[b].seen = Eligible(unit[work[b].revision], live)

SearchInv == KeptIsSearched /\ \A b \in Builders : FoundIsWhole(b)

LEMMA PreservingPhases ==
  /\ Preserving \subseteq Phases /\ Judging \subseteq Settling /\ Judging \subseteq Phases
  /\ Preserving \cap {"reading", "collecting", "projecting", "completing"} = {}
  /\ Preserving \cap Advertised = {} /\ "idle" \notin Phases
BY DEF Preserving, Judging, Settling, Building, Advertised, Phases, OpenPhases, TryPhases

\* The worker keeps what it preserves, and no other generation is activated.
LEMMA KeptStays ==
  ASSUME KeptIsSearched, OneActive, Searched' \subseteq Searched,
         Current(Worker, Preserving)' =>
           Current(Worker, Preserving) /\ work'[Worker].kept = work[Worker].kept
  PROVE  KeptIsSearched'
<1>1. Searched' # {} => Searched' = Searched
  BY DEF OneActive
<1> QED BY <1>1 DEF KeptIsSearched

\* A step that changes no unit of a complete generation without remembering it.
LEMMA FoundStays ==
  ASSUME NEW c \in Builders, FoundIsWhole(c),
         Searched' \subseteq Searched, Searched' \cap touched \subseteq touched',
         \A r \in Searched' \ touched' : Eligible(unit'[r], live') = Eligible(unit[r], live),
         Current(c, Judging)' =>
           /\ Current(c, Judging) /\ work'[c].at = work[c].at
           /\ work'[c].revision = work[c].revision /\ work'[c].seen = work[c].seen
  PROVE  FoundIsWhole(c)'
<1> SUFFICES ASSUME Current(c, Judging)', work'[c].revision \in Searched' \ touched'
             PROVE  /\ work'[c].at # "staling"
                    /\ work'[c].seen = Eligible(unit'[work'[c].revision], live')
  BY DEF FoundIsWhole, Eligible
<1>1. work[c].revision \in Searched \ touched
  OBVIOUS
<1> QED BY <1>1 DEF FoundIsWhole

\* A step that changes no row of the generations, and brings nobody to judge one.
LEMMA SearchedStays ==
  ASSUME IndexInv, SearchInv, Searched' = Searched, touched \subseteq touched',
         \A r \in Searched \ touched' : Eligible(unit'[r], live') = Eligible(unit[r], live),
         Current(Worker, Preserving)' =>
           Current(Worker, Preserving) /\ work'[Worker].kept = work[Worker].kept,
         \A c \in Builders : Current(c, Judging)' => work'[c] = work[c]
  PROVE  SearchInv'
<1>1. KeptIsSearched'
  BY KeptStays DEF SearchInv, IndexInv
<1>2. \A c \in Builders : Current(c, Judging)' => Current(c, Judging)
  BY DEF Current
<1>3. \A c \in Builders : FoundIsWhole(c)'
  BY <1>2, FoundStays DEF SearchInv
<1> QED BY <1>1, <1>3 DEF SearchInv

\* A build that goes on finds what is there.
LEMMA BuildFinds ==
  ASSUME IndexInv, SearchInv, NEW b \in Builders, BuildStep(b),
         ~activateCurrentGeneration(b), ~confirm(b)
  PROVE  SearchInv'
<1> USE PreservingPhases, SettlingPhases
<1>0. TypeOK /\ Worker \in Builders
  BY DEF IndexInv, Builders
<1>1. /\ UNCHANGED <<head, event, marker, unit, live, struck>>
      /\ \A c \in Builders \ {b} : work'[c] = work[c]
      /\ work[b].at \in Settling /\ work'[b].at \in Settling
      /\ work'[b].revision = work[b].revision /\ work'[b].overtaken = work[b].overtaken
      /\ work'[b].kept = work[b].kept
      /\ work'[b].at = "requesting" => work'[b].seen = Eligible(unit[work[b].revision], live)
      /\ work'[b].at = "covering" =>
           work[b].at = "requesting" /\ work'[b].seen = work[b].seen
      /\ work'[b].at = "staling" => generationCoverage(b)
  BY <1>0, BuildMoves
<1>2. /\ Searched' \subseteq Searched /\ Searched' \cap touched \subseteq touched'
  BY <1>0, BuildSearched
<1>3. KeptIsSearched'
  <2>1. Current(Worker, Preserving)' =>
          Current(Worker, Preserving) /\ work'[Worker].kept = work[Worker].kept
    BY <1>0, <1>1 DEF Current, Preserving
  <2> QED BY <1>2, <2>1, KeptStays DEF SearchInv, IndexInv
<1>4. ASSUME NEW c \in Builders \ {b} PROVE FoundIsWhole(c)'
  <2>1. Current(c, Judging)' => Current(c, Judging) /\ work'[c] = work[c]
    BY <1>1 DEF Current
  <2> QED BY <1>1, <1>2, <2>1, FoundStays DEF SearchInv
<1>5. FoundIsWhole(b)'
  <2> DEFINE r == work[b].revision
  <2> SUFFICES ASSUME Current(b, Judging)', r \in Searched' \ touched'
               PROVE  work'[b].at # "staling" /\ work'[b].seen = Eligible(unit[r], live)
    BY <1>1 DEF FoundIsWhole, Eligible
  <2>1. r \in Searched \ touched /\ ~work[b].overtaken
    BY <1>1, <1>2 DEF Current
  <2>2. CASE work'[b].at = "requesting"
    BY <1>1, <2>2
  <2>3. CASE work'[b].at = "covering"
    BY <1>1, <2>1, <2>3 DEF SearchInv, FoundIsWhole, Current, Judging
  <2>4. CASE work'[b].at = "staling"
    <3>1. generationCoverage(b) /\ work[b].at = "covering"
      BY <1>1, <2>4 DEF generationCoverage
    <3>2. work[b].seen = Eligible(unit[r], live)
      BY <2>1, <3>1 DEF SearchInv, FoundIsWhole, Current, Judging
    <3>3. Whole(r) /\ r \in Revisions
      BY <2>1 DEF IndexInv, SelectedIsWhole, Selectable, Searched
    <3>4. Whole(r) /\ Count(vector[r]) = Count(work[b].seen)
      BY <3>2, <3>3 DEF Whole
    <3>5. \E at \in {"restoring", "beginning"} : MoveTo(b, at)
      BY <3>1, <3>4 DEF generationCoverage
    <3>6. work'[b].at # "staling"
      BY <1>0, <3>1, <3>5, BuildPhases, MoveFacts
    <3> QED BY <2>4, <3>6
  <2> QED BY <2>2, <2>3, <2>4 DEF Current, Judging
<1> QED BY <1>3, <1>4, <1>5 DEF SearchInv

\* An activation preserves nothing and has judged; the other builder is overtaken.
LEMMA ActivationFinds ==
  ASSUME IndexInv, SearchInv, NEW b \in Builders, activateCurrentGeneration(b) \/ confirm(b)
  PROVE  SearchInv'
<1> USE PreservingPhases, SettlingPhases, BuildPhases, BuilderAssumption
<1>0. TypeOK /\ Worker \in Builders
  BY DEF IndexInv, Builders
<1> DEFINE r == work[b].revision
<1>1. work[b].at \in Phases /\ work[b].at \in Settling \cup Advertised /\ UNCHANGED <<unit, live>>
  BY DEF activateCurrentGeneration, confirm, Settling, Building, Advertised, corpus
<1>2. ASSUME UNCHANGED <<status, touched>>, \A c \in Builders \ {b} : work'[c] = work[c],
             work'[b].at \notin Judging,
             work'[b].at \in Preserving => /\ work[b].at \in Preserving
                                           /\ work'[b].overtaken = work[b].overtaken
                                           /\ work'[b].kept = work[b].kept
      PROVE  SearchInv'
  <2>1. Searched' = Searched
    BY <1>2 DEF Searched
  <2>2. Current(Worker, Preserving)' =>
          Current(Worker, Preserving) /\ work'[Worker].kept = work[Worker].kept
    BY <1>0, <1>2 DEF Current
  <2>3. \A c \in Builders : Current(c, Judging)' => work'[c] = work[c]
    BY <1>2 DEF Current
  <2> QED BY <1>1, <1>2, <2>1, <2>2, <2>3, SearchedStays
<1>3. ASSUME UNCHANGED <<status, touched>>, NEW activated, Return(b, activated) PROVE SearchInv'
  <2>1. CASE b = Operator
    <3>1. work'[b].at = "idle" /\ \A c \in Builders \ {b} : work'[c] = work[c]
      BY <1>0, <1>3, <2>1 DEF Return, TypeOK, Idle
    <3> QED BY <1>2, <1>3, <3>1
  <2>2. CASE b # Operator
    <3>1. PICK at \in {"closing", "completing"} : MoveTo(b, at)
      BY <1>3, <2>2 DEF Return
    <3>2. work'[b].at = at /\ \A c \in Builders \ {b} : work'[c] = work[c]
      BY <1>0, <1>1, <3>1, MoveFacts
    <3>3. at \notin Preserving /\ at \notin Judging
      BY DEF Preserving, Settling, Building, Judging
    <3> QED BY <1>2, <1>3, <3>2, <3>3
  <2> QED BY <2>1, <2>2
<1>4. CASE confirm(b)
  <2>1. UNCHANGED <<status, touched>> /\ \E activated : Return(b, activated)
    BY <1>4 DEF confirm, generations
  <2> QED BY <1>3, <2>1
<1>5. CASE activateCurrentGeneration(b) /\ marker.corpus # r
  <2>1. UNCHANGED <<status, touched>> /\ \E activated : Return(b, activated)
    BY <1>5 DEF activateCurrentGeneration
  <2> QED BY <1>3, <2>1
<1>6. CASE /\ activateCurrentGeneration(b) /\ marker.corpus = r
           /\ ~(status[r] \in {"READY", "ACTIVE", "RETIRED"} /\ Whole(r))
  <2>1. UNCHANGED <<status, touched>> /\ \E at \in {"failing", "thrown"} : MoveTo(b, at)
    BY <1>6 DEF activateCurrentGeneration
  <2>2. PICK at \in {"failing", "thrown"} : MoveTo(b, at)
    BY <2>1
  <2>3. /\ work'[b].at = at /\ work'[b].overtaken = work[b].overtaken
        /\ work'[b].kept = work[b].kept
        /\ \A c \in Builders \ {b} : work'[c] = work[c]
    BY <1>0, <1>1, <2>2, MoveFacts
  <2>4. at \notin Judging /\ work[b].at \in Preserving
    BY <1>6 DEF Judging, activateCurrentGeneration, Preserving, Settling, Building
  <2> QED BY <1>2, <2>1, <2>3, <2>4
<1>7. CASE /\ activateCurrentGeneration(b) /\ marker.corpus = r
           /\ status[r] \in {"READY", "ACTIVE", "RETIRED"} /\ Whole(r)
  <2>1. PICK at \in {"confirming", "recalling"} : work' = Overtake(b, at)
    BY <1>7 DEF activateCurrentGeneration
  <2>2. /\ work'[b].at = at
        /\ \A phases \in SUBSET Phases : ~Current(Other(b), phases)'
    BY <1>0, <1>1, <2>1, OvertakeFacts
  <2>3. \A c \in Builders : c = b \/ c = Other(b)
    BY DEF Builders, Other
  <2>4. at \in Advertised /\ at \notin Judging
    BY DEF Advertised, Judging
  <2>5. \A c \in Builders : ~Current(c, Preserving)' /\ ~Current(c, Judging)'
    <3>1. ~Current(b, Preserving)' /\ ~Current(b, Judging)'
      BY <2>2, <2>4 DEF Current
    <3> QED BY <2>2, <2>3, <3>1
  <2> QED BY <1>0, <2>5 DEF SearchInv, KeptIsSearched, FoundIsWhole
<1> QED BY <1>4, <1>5, <1>6, <1>7

\* Everything but the statements of a build.
LEMMA RestFinds ==
  ASSUME IndexInv, SearchInv, [Next]_vars,
         ~BuildStep(Worker), ~BuildStep(Operator)
  PROVE  SearchInv'
<1> USE PreservingPhases, SettlingPhases, BuildPhases, BuilderAssumption
<1>0. /\ TypeOK /\ Worker \in Builders /\ Operator \in Builders
      /\ \A c \in Builders : c \in {Worker, Operator}
  BY DEF IndexInv, Builders
<1>w. \A b \in Builders : work[b].at \in Phases => work[b] \in Build
  BY <1>0, BuildOf
<1>j. Judging \cap {"idle", "reading", "structuring", "marking", "collecting", "projecting",
                    "listing", "failing", "thrown", "completing"} = {}
  BY DEF Judging
\* The step of b, the only one to move.
<1>1. ASSUME NEW b \in Builders, \A c \in Builders \ {b} : work'[c] = work[c],
             work'[b] = work[b] \/ work'[b].at \notin Judging,
             b = Worker /\ Current(b, Preserving)' =>
               Current(b, Preserving) /\ work'[b].kept = work[b].kept
      PROVE  /\ Current(Worker, Preserving)' =>
                  Current(Worker, Preserving) /\ work'[Worker].kept = work[Worker].kept
             /\ \A c \in Builders : Current(c, Judging)' => work'[c] = work[c]
  BY <1>0, <1>1 DEF Current
<1>2. ASSUME UNCHANGED <<unit, live, status, touched>>, NEW b \in Builders,
             \A c \in Builders \ {b} : work'[c] = work[c],
             work'[b] = work[b] \/ work'[b].at \notin Judging,
             b = Worker /\ Current(b, Preserving)' =>
               Current(b, Preserving) /\ work'[b].kept = work[b].kept
      PROVE  SearchInv'
  <2>1. Searched' = Searched
    BY <1>2 DEF Searched
  <2> QED BY <1>1, <1>2, <2>1, SearchedStays
<1>t. ASSUME Touch, UNCHANGED status
      PROVE  /\ Searched' = Searched /\ touched \subseteq touched'
             /\ \A r \in Searched \ touched' :
                  Eligible(unit'[r], live') = Eligible(unit[r], live)
  BY <1>t DEF Touch, Searched, Selectable
<1>3. CASE \/ UNCHANGED vars \/ (\E u \in Edited : Publish(u))
           \/ \E r \in Revisions : markIndexRequestComplete(r)
  <2>1. work' = work /\ UNCHANGED <<unit, live, status, touched>>
    BY <1>3 DEF vars, Publish, markIndexRequestComplete, corpus, generations
  <2> QED BY <1>0, <1>2, <2>1 DEF Current
<1>4. CASE \E u \in Units : changeRefreshStatus(u)
  <2>1. work' = work /\ Touch /\ UNCHANGED status
    BY <1>4 DEF changeRefreshStatus, generations
  <2> QED BY <1>0, <1>1, <1>t, <2>1, SearchedStays DEF Current
<1>5. CASE \E r \in Revisions : takeEvent(r)
  <2>1. /\ \A c \in Builders \ {Worker} : work'[c] = work[c]
        /\ work'[Worker] = work[Worker] \/ work'[Worker].at = "reading"
        /\ UNCHANGED <<unit, live, status, touched>>
    BY <1>0, <1>5 DEF takeEvent, NewBuild, TypeOK, corpus, generations
  <2>2. Current(Worker, Preserving)' =>
          Current(Worker, Preserving) /\ work'[Worker].kept = work[Worker].kept
    BY <2>1 DEF Current
  <2> QED BY <1>0, <1>2, <1>j, <2>1, <2>2
<1>6. CASE readMarker
  <2>1. PICK kept \in Hashes :
          kept = IF marker.vector # 0 THEN marker.vector ELSE currentActiveVectorRevision
    BY <1>0, SearchedType DEF TypeOK, Marker
  <2>2. work[Worker] \in Build
    BY <1>0, <1>6, <1>w DEF readMarker, Phases
  <2>3. PICK at \in {"marking", "structuring"} :
          work' = [work EXCEPT ![Worker].at = at, ![Worker].kept = kept,
                               ![Worker].overtaken = kept \notin Searched]
    BY <1>6, <2>1 DEF readMarker
  <2>4. PICK late \in BOOLEAN : late = (kept \notin Searched)
    OBVIOUS
  <2>5. /\ work'[Worker] = [work[Worker] EXCEPT !.at = at, !.kept = kept, !.overtaken = late]
        /\ \A c \in Builders \ {Worker} : work'[c] = work[c]
    BY <1>0, <2>3, <2>4 DEF TypeOK
  <2>6. work'[Worker].at = at /\ work'[Worker].kept = kept /\ work'[Worker].overtaken = late
    BY <2>2, <2>5 DEF Build
  <2>7. Searched' = Searched /\ UNCHANGED <<unit, live, touched>>
    BY <1>6 DEF readMarker, Searched, corpus, generations
  <2>8. KeptIsSearched'
    BY <2>4, <2>6, <2>7 DEF KeptIsSearched, Current
  <2>9. \A c \in Builders : Current(c, Judging)' => Current(c, Judging) /\ work'[c] = work[c]
    BY <1>j, <2>5, <2>6 DEF Current
  <2>10. \A c \in Builders : FoundIsWhole(c)'
    BY <2>7, <2>9, FoundStays DEF SearchInv
  <2> QED BY <2>8, <2>10 DEF SearchInv
<1>7. CASE rebuildChangedUnits
  <2>1. {"structuring", "marking"} \subseteq Phases
    BY DEF Phases
  <2>2. /\ work[Worker].at = "structuring" /\ work'[Worker].at = "marking"
        /\ work'[Worker].overtaken = work[Worker].overtaken
        /\ work'[Worker].kept = work[Worker].kept
        /\ \A c \in Builders \ {Worker} : work'[c] = work[c]
    BY <1>0, <1>7, <2>1, MoveFacts DEF rebuildChangedUnits
  <2>3. Current(Worker, Preserving)' =>
          Current(Worker, Preserving) /\ work'[Worker].kept = work[Worker].kept
    BY <2>2 DEF Current, Preserving
  <2>4. Touch /\ UNCHANGED status
    BY <1>7 DEF rebuildChangedUnits, generations
  <2> QED BY <1>0, <1>1, <1>j, <1>t, <2>2, <2>3, <2>4, SearchedStays
<1>8. CASE markPending \/ markActivated \/ markFailed
  <2>1. "marking" \in Phases
    BY DEF Phases
  <2>2. /\ work'[Worker].at \in {"listing", "completing"}
        /\ work'[Worker].at = "listing" =>
             /\ work[Worker].at = "marking" /\ work'[Worker].overtaken = work[Worker].overtaken
             /\ work'[Worker].kept = work[Worker].kept
        /\ \A c \in Builders \ {Worker} : work'[c] = work[c]
    BY <1>0, <1>8, <2>1, MoveFacts DEF markPending, markActivated, markFailed
  <2>3. Current(Worker, Preserving)' =>
          Current(Worker, Preserving) /\ work'[Worker].kept = work[Worker].kept
    BY <2>2 DEF Current, Preserving
  <2>4. UNCHANGED <<unit, live, status, touched>>
    BY <1>8 DEF markPending, markActivated, markFailed, markVaultIndexRevision, corpus, generations
  <2> QED BY <1>0, <1>2, <1>j, <2>2, <2>3, <2>4
<1>9. CASE acknowledge \/ Crash
  <2>1. /\ work'[Worker].at = "idle" /\ \A c \in Builders \ {Worker} : work'[c] = work[c]
        /\ UNCHANGED <<unit, live, status, touched>>
    BY <1>0, <1>9 DEF acknowledge, Crash, TypeOK, Idle, corpus, generations
  <2>2. ~Current(Worker, Preserving)'
    BY <2>1 DEF Current
  <2> QED BY <1>0, <1>2, <1>j, <2>1, <2>2
<1>10. CASE startRebuild \/ collectDocuments \/ warnFailed \/ Abort
  <2>1. work[Operator].at \in Phases => work[Operator] \in Build
    BY <1>0, <1>w
  <2>2. /\ work'[Operator].at \in {"collecting", "projecting", "idle"}
        /\ \A c \in Builders \ {Operator} : work'[c] = work[c]
        /\ UNCHANGED <<unit, live, status, touched>>
    <3>1. CASE collectDocuments
      <4>1. work[Operator] \in Build
        BY <2>1, <3>1 DEF collectDocuments, Phases
      <4> QED BY <1>0, <3>1, <4>1 DEF collectDocuments, TypeOK, Build, corpus, generations
    <3>2. CASE startRebuild \/ warnFailed \/ Abort
      BY <1>0, <3>2 DEF startRebuild, warnFailed, Abort, NewBuild, Idle, TypeOK, corpus, generations
    <3> QED BY <1>10, <3>1, <3>2
  <2> QED BY <1>0, <1>2, <1>j, <2>2
<1>11. CASE rebuildSpaceProjections
  <2>1. "projecting" \in Phases /\ "listing" \in Phases \ {"completing"}
    BY DEF Phases
  <2>2. /\ work'[Operator].at = "listing"
        /\ \A phases \in SUBSET Phases : ~Current(Other(Operator), phases)'
    BY <1>0, <1>11, <2>1, OvertakeFacts DEF rebuildSpaceProjections
  <2>3. Other(Operator) = Worker
    BY DEF Other
  <2>4. ~Current(Worker, Preserving)' /\ \A c \in Builders : ~Current(c, Judging)'
    <3>1. ~Current(Worker, Preserving)' /\ ~Current(Worker, Judging)'
      BY <2>2, <2>3
    <3>2. ~Current(Operator, Judging)'
      BY <1>j, <2>2 DEF Current
    <3> QED BY <1>0, <3>1, <3>2
  <2> QED BY <2>4 DEF SearchInv, KeptIsSearched, FoundIsWhole
<1>12. ASSUME NEW b \in Builders, buildThrows(b) PROVE SearchInv'
  <2>1. work[b].at \in TryPhases \cup OpenPhases \cup {"failing"} /\ work[b].at \in Phases /\ work[b] \in Build
    BY <1>12, <1>w DEF buildThrows, Phases
  <2>2. PICK late \in BOOLEAN :
          late = (work[b].overtaken \/ work[b].at \in {"confirming", "recalling", "closing"})
    BY <2>1, BuildFields
  <2>3. PICK at \in {"failing", "thrown"} :
          at = IF work[b].at \in TryPhases THEN "failing" ELSE "thrown"
    OBVIOUS
  <2>4. PICK w : w = [work[b] EXCEPT !.at = at, !.overtaken = late]
    OBVIOUS
  <2>5. /\ w \in Build /\ w.at = at /\ w.overtaken = late /\ w.kept = work[b].kept
    BY <2>1, <2>4 DEF Build
  <2>6. work' = After(b, w)
    BY <1>12, <2>2, <2>3, <2>4 DEF buildThrows
  <2>7. /\ work'[b].at = at /\ work'[b].overtaken = late /\ work'[b].kept = work[b].kept
        /\ \A c \in Builders \ {b} : work'[c] = work[c]
    BY <1>0, <2>5, <2>6, AfterFacts
  <2>8. ~late => work[b].at \in Preserving
    BY <2>1, <2>2 DEF Preserving, Settling, Building, TryPhases, OpenPhases
  <2>9. Current(b, Preserving)' => Current(b, Preserving) /\ work'[b].kept = work[b].kept
    BY <2>2, <2>7, <2>8 DEF Current
  <2>10. UNCHANGED <<unit, live, status, touched>>
    BY <1>12 DEF buildThrows, corpus, generations
  <2> QED BY <1>2, <1>j, <2>7, <2>9, <2>10
<1> QED BY <1>3, <1>4, <1>5, <1>6, <1>7, <1>8, <1>9, <1>10, <1>11, <1>12
        DEF Next, WorkerStep, OperatorStep, HandleEvent

\* Every step keeps it.
LEMMA StepFinds == IndexInv /\ SearchInv /\ [Next]_vars => SearchInv'
BY BuildFinds, ActivationFinds, RestFinds DEF Builders

\* What SearchStays says of a step.
SearchStep ==
  Searchable /\ ~Searchable'
    => \/ crossed'
       \/ \E r \in touched : r \in Searched /\ status'[r] = "STALE"
       \/ \E r \in Revisions : markIndexRequestComplete(r)

\* A step that leaves the marker's vectors, and drops nothing that is searched.
LEMMA StillSearched ==
  ASSUME marker'.vector = marker.vector, Searched \subseteq Searched'
  PROVE  SearchStep
BY DEF SearchStep, Searchable

\* The statements of a build: an activation is searched, and a stale generation
\* was not whole.
LEMMA BuildStays ==
  ASSUME IndexInv, SearchInv, NEW b \in Builders, BuildStep(b)
  PROVE  SearchStep
<1>0. TypeOK
  BY DEF IndexInv
<1>1. CASE ~activateCurrentGeneration(b) /\ ~confirm(b) /\ ~stale(b)
  <2>1. marker' = marker /\ Searched' = Searched
    BY <1>0, <1>1, BuildMoves, BuildSearched
  <2> QED BY <2>1, StillSearched
<1>2. CASE confirm(b)
  <2>1. marker' = marker /\ Searched' = Searched
    BY <1>2 DEF confirm, generations, Searched
  <2> QED BY <2>1, StillSearched
<1>3. CASE stale(b)
  <2> DEFINE r == work[b].revision
  <2>1. /\ work[b].at = "staling" /\ marker' = marker /\ crossed' = (crossed \/ work[b].overtaken)
        /\ status' = [status EXCEPT ![r] = "STALE"] \/ UNCHANGED status
    BY <1>3 DEF stale, transition, Cross
  <2>2. work[b].overtaken \in BOOLEAN /\ r \in Revisions
    BY <1>0, <2>1, BuildOf, BuildFields, BuildPhases
  <2>3. CASE r \notin Searched \/ UNCHANGED status
    <3>1. Searched' = Searched
      BY <1>0, <2>1, <2>2, <2>3 DEF TypeOK, Searched
    <3> QED BY <2>1, <3>1, StillSearched
  <2>4. CASE r \in Searched /\ ~UNCHANGED status
    <3>1. crossed' \/ r \in touched
      BY <2>1, <2>2, <2>4 DEF SearchInv, FoundIsWhole, Current, Judging
    <3>2. status'[r] = "STALE"
      BY <1>0, <2>1, <2>2, <2>4 DEF TypeOK
    <3> QED BY <2>4, <3>1, <3>2 DEF SearchStep
  <2> QED BY <2>3, <2>4
<1>4. CASE activateCurrentGeneration(b)
  <2> DEFINE r == work[b].revision
  <2>1. r \in Revisions
    BY <1>0, <1>4, BuildOf, BuildFields, BuildPhases DEF activateCurrentGeneration
  <2>2. CASE UNCHANGED <<status, marker>>
    BY <2>2, StillSearched DEF Searched
  <2>3. CASE ~UNCHANGED <<status, marker>>
    <3>1. /\ status' = [s \in Revisions |-> IF s = r THEN "ACTIVE"
                                            ELSE IF status[s] = "ACTIVE" THEN "RETIRED"
                                            ELSE status[s]]
          /\ marker' = [marker EXCEPT !.vector = r, !.warning = "none"]
      BY <1>4, <2>3 DEF activateCurrentGeneration
    <3>2. marker'.vector = r
      BY <1>0, <3>1 DEF TypeOK, Marker
    <3>3. r \in Searched'
      BY <2>1, <3>1 DEF Searched
    <3> QED BY <3>2, <3>3 DEF SearchStep, Searchable
  <2> QED BY <2>2, <2>3
<1> QED BY <1>1, <1>2, <1>3, <1>4

\* The marks: the worker advertises what it preserves or has activated, and the
\* operator what is searched.
LEMMA MarkStays ==
  ASSUME TypeOK, ServedInv, SearchInv,
         markPending \/ markActivated \/ markFailed \/ rebuildSpaceProjections
  PROVE  SearchStep
<1>0. Worker \in Builders
  BY DEF Builders
<1>1. Searched' = Searched
  BY DEF markPending, markActivated, markFailed, markVaultIndexRevision, rebuildSpaceProjections,
         generations, Searched
<1>2. CASE rebuildSpaceProjections
  <2>1. marker'.vector = currentActiveVectorRevision
    BY <1>2 DEF rebuildSpaceProjections
  <2>2. Searched # {} => currentActiveVectorRevision \in Searched
    BY DEF currentActiveVectorRevision
  <2> QED BY <1>1, <2>1, <2>2 DEF SearchStep, Searchable
<1>3. CASE markPending \/ markFailed
  <2>1. /\ work[Worker].at \in {"marking", "thrown"} /\ marker'.vector = work[Worker].kept
        /\ crossed' = (crossed \/ work[Worker].overtaken)
    BY <1>3 DEF markPending, markFailed, markVaultIndexRevision, Cross
  <2>2. work[Worker].overtaken \in BOOLEAN
    BY <1>0, <2>1, BuildOf, BuildFields DEF Phases
  <2>3. ~crossed' /\ Searched # {} => work[Worker].kept \in Searched
    BY <2>1, <2>2 DEF SearchInv, KeptIsSearched, Current, Preserving, Settling
  <2> QED BY <1>1, <2>1, <2>3 DEF SearchStep, Searchable
<1>4. CASE markActivated
  <2>1. /\ work[Worker].at = "closing" /\ marker'.vector = work[Worker].revision
        /\ crossed' = (crossed \/ work[Worker].overtaken)
    BY <1>4 DEF markActivated, markVaultIndexRevision, Cross
  <2>2. work[Worker].overtaken \in BOOLEAN /\ crossed \in BOOLEAN
    BY <1>0, <2>1, BuildOf, BuildFields, BuildPhases DEF TypeOK
  <2>3. ~crossed' => work[Worker].revision \in Searched
    BY <2>1, <2>2 DEF ServedInv, Current, Advertised
  <2> QED BY <1>1, <2>1, <2>3 DEF SearchStep, Searchable
<1> QED BY <1>2, <1>3, <1>4

\* Every step keeps what is searched, up to the exceptions.
LEMMA StepStays == IndexInv /\ ServedInv /\ SearchInv /\ [Next]_vars => SearchStep
<1> SUFFICES ASSUME IndexInv, ServedInv, SearchInv, [Next]_vars PROVE SearchStep
  OBVIOUS
<1>0. TypeOK /\ Worker \in Builders /\ Operator \in Builders
  BY DEF IndexInv, Builders
<1>1. CASE BuildStep(Worker) \/ BuildStep(Operator)
  BY <1>0, <1>1, BuildStays
<1>2. CASE markPending \/ markActivated \/ markFailed \/ rebuildSpaceProjections
  BY <1>0, <1>2, MarkStays
<1>3. CASE \E r \in Revisions : markIndexRequestComplete(r)
  BY <1>3 DEF SearchStep
<1>4. CASE warnFailed
  <2>1. marker'.vector = marker.vector
    BY <1>0, <1>4 DEF warnFailed, TypeOK, Marker
  <2>2. Searched' = Searched
    BY <1>4 DEF warnFailed, generations, Searched
  <2> QED BY <2>1, <2>2, StillSearched
<1>5. CASE \/ UNCHANGED vars
           \/ (\E u \in Edited : Publish(u)) \/ (\E u \in Units : changeRefreshStatus(u))
           \/ (\E r \in Revisions : takeEvent(r))
           \/ readMarker \/ rebuildChangedUnits \/ acknowledge
           \/ startRebuild \/ collectDocuments
           \/ (\E b \in Builders : buildThrows(b)) \/ Crash \/ Abort
  <2>1. marker' = marker /\ Searched' = Searched
    BY <1>5 DEF vars, Publish, changeRefreshStatus, takeEvent, readMarker, rebuildChangedUnits,
                acknowledge, startRebuild, collectDocuments, buildThrows, Crash, Abort,
                generations, Searched
  <2> QED BY <2>1, StillSearched, SMTT(30)
<1> QED BY <1>1, <1>2, <1>3, <1>4, <1>5 DEF Next, WorkerStep, OperatorStep, HandleEvent

\* What is searched stays searchable while its successor is built, and when that
\* fails, up to the three exceptions that the property names (incrementalIndex,
\* rebuildSpaceProjections, buildEmbeddingIndex).
THEOREM SearchNeverStops == Spec => SearchStays
<1>1. Init => SearchInv
  <2> SUFFICES ASSUME Init PROVE SearchInv
    OBVIOUS
  <2>1. \A b \in Builders : work[b].at = "idle"
    BY DEF Init, Idle
  <2>2. Worker \in Builders /\ "idle" \notin Preserving /\ "idle" \notin Judging
    BY DEF Builders, Preserving, Settling, Building, Judging
  <2> QED BY <2>1, <2>2 DEF SearchInv, KeptIsSearched, FoundIsWhole, Current
<1>2. Spec => []IndexInv
  <2>1. TypeOK /\ (SelectedIsWhole /\ OneActive) => IndexInv
    BY DEF IndexInv
  <2> QED BY <2>1, TypeCorrect, SelectedVectors, PTL
<1>3. Spec => []SearchInv
  BY <1>1, <1>2, StepFinds, PTL DEF Spec
<1>4. IndexInv /\ ServedInv /\ SearchInv /\ [Next]_vars =>
        [Searchable /\ ~Searchable'
           => \/ crossed'
              \/ \E r \in touched : r \in Searched /\ status'[r] = "STALE"
              \/ \E r \in Revisions : markIndexRequestComplete(r)]_vars
  BY StepStays DEF SearchStep
<1> QED BY <1>2, <1>3, <1>4, ServedHolds, PTL DEF Spec, SearchStays
=============================================================================
