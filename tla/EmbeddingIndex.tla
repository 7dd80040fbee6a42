--------------------------- MODULE EmbeddingIndex ---------------------------
(***************************************************************************)
(* The vector index of one vault: generations of embeddings, the units     *)
(* they cover and the marker that says which of them is searched           *)
(* (packages/indexing/src/embedding-index.ts, embedding-generation.ts,     *)
(* index.ts, apps/api/src/projections.ts, migrations 019 to 028).          *)
(*                                                                         *)
(* A generation holds the vectors of one corpus revision.  The worker      *)
(* builds it after it has indexed a publication, an operator when the      *)
(* projections are rebuilt; both go through buildEmbeddingIndex, a chain   *)
(* of statements, and neither excludes the other.  The revision that is    *)
(* searched must stay searchable until its successor is complete.          *)
(*                                                                         *)
(* A revision is a position on main; the content hash of a unit is the     *)
(* revision that wrote it, 0 when it has no row.  Projection has the       *)
(* structural statements, which are one step here.  Vectors are enabled    *)
(* and the provider's descriptor does not change.                          *)
(***************************************************************************)
EXTENDS Naturals, FiniteSets

CONSTANTS
  Units, Edited,     \* what is indexed, and what publications change
  Worker, Operator,  \* who builds generations
  MaxRevisions,      \* bound: revisions of main
  MaxChanges,        \* bound: changes of a document's refresh status
  MaxRebuilds,       \* bound: rebuilds by the operator
  Faults,            \* the kinds of fault that may strike
  MaxFaults          \* bound: faults in a behaviour

FaultKinds == {"crash", "error", "abort"}

ASSUME BuilderAssumption == Worker # Operator
ASSUME FaultAssumption == Faults \subseteq FaultKinds
ASSUME UnitAssumption == IsFiniteSet(Units) /\ Edited \subseteq Units
ASSUME BoundAssumption ==
  /\ MaxRevisions \in Nat \ {0} /\ MaxChanges \in Nat
  /\ MaxRebuilds \in Nat /\ MaxFaults \in Nat

Builders == {Worker, Operator}
Revisions == 1 .. MaxRevisions
Hashes == {0} \cup Revisions
Contents == [Units -> Hashes]
Nothing == [u \in Units |-> 0]

Statuses == {"none", "REQUESTED", "BUILDING", "READY", "ACTIVE", "RETIRED", "STALE", "FAILED"}

\* Statements whose errors fail the generation, and those whose errors do not.
TryPhases == {"planning", "writing", "readying", "activating", "confirming"}
OpenPhases == {"listing", "requesting", "covering", "restoring", "recalling", "staling",
               "beginning", "deleting", "closing"}
Phases == TryPhases \cup OpenPhases \cup
          {"reading", "structuring", "marking", "collecting", "projecting", "failing", "thrown",
           "completing"}

\* kept: preservedVectorRevision.  status: as it was returned.  seen: the units,
\* or documents, as read.  todo: those without a vector.  overtaken: what was advertised as it
\* began is not searched, or another builder has moved the marker since.
Build == [at: Phases, revision: Revisions, kept: Hashes, status: Statuses, seen: Contents,
          todo: SUBSET Units, overtaken: BOOLEAN]
Idle == [at |-> "idle"]

\* warning: VECTOR_BUILD_PENDING or VECTOR_BUILD_FAILED.
Marker == [corpus: Revisions, vector: Hashes, warning: {"none", "pending", "failed"}]

VARIABLES
  head,      \* main
  changed,   \* the unit each revision changes
  event,     \* the events of each publication
  document,  \* knowledge_documents, as the hashes of their units
  live,      \* units whose document is neither STALE_BLOCKED nor INVALID
  unit,      \* knowledge_units, by corpus revision
  status,    \* embedding_generations, by corpus revision
  vector,    \* unit_embeddings: the hash each vector was made from
  marker,    \* vault_index_revisions
  work,      \* what each builder is doing
  touched,   \* history: generations whose units changed since a builder completed them
  crossed,   \* history: a builder relied on what another had overtaken
  struck,    \* history: the kinds of fault that have struck
  changes, rebuilds, budget  \* what is left of each bound

main == <<head, changed>>
corpus == <<document, live, unit>>
generations == <<status, vector>>
bounds == <<struck, changes, rebuilds, budget>>
vars == <<main, event, corpus, generations, marker, work, touched, crossed, bounds>>

\* A vault that an operator has rebuilt; its first event is still to be handled.
Init ==
  /\ head = 1
  /\ changed = [r \in Revisions |-> IF r = 1 THEN Units ELSE {}]
  /\ event = [r \in Revisions |-> IF r = 1 THEN "open" ELSE "none"]
  /\ document = [u \in Units |-> 1]
  /\ live = Units
  /\ unit = [r \in Revisions |-> [u \in Units |-> IF r = 1 THEN 1 ELSE 0]]
  /\ status = [r \in Revisions |-> IF r = 1 THEN "ACTIVE" ELSE "none"]
  /\ vector = unit
  /\ marker = [corpus |-> 1, vector |-> 1, warning |-> "none"]
  /\ work = [b \in Builders |-> Idle]
  /\ touched = {} /\ crossed = FALSE /\ struck = {}
  /\ changes = MaxChanges /\ rebuilds = MaxRebuilds /\ budget = MaxFaults

Spend(kind) ==
  /\ kind \in Faults /\ budget > 0
  /\ budget' = budget - 1 /\ struck' = struck \cup {kind}
  /\ UNCHANGED <<changes, rebuilds>>

\* What no later statement reads is forgotten.
Forget(w) ==
  [w EXCEPT !.kept = IF w.at = "completing" THEN 0 ELSE @,
            !.status = IF w.at \in {"covering", "activating"} THEN @ ELSE "none",
            !.seen = IF w.at \in {"projecting", "requesting", "covering", "staling", "beginning",
                                  "deleting", "planning", "writing", "readying"} THEN @
                     ELSE Nothing,
            !.overtaken = @ /\ w.at # "completing",
            !.todo = IF w.at = "writing" THEN @ ELSE {}]
After(b, w) == [work EXCEPT ![b] = Forget(w)]
MoveTo(b, at) == work' = After(b, [work[b] EXCEPT !.at = at])
Other(b) == IF b = Worker THEN Operator ELSE Worker
\* b goes on, and has moved the marker under the other.
Overtake(b, at) ==
  [After(b, [work[b] EXCEPT !.at = at]) EXCEPT
     ![Other(b)] = IF @ = Idle THEN Idle ELSE [@ EXCEPT !.overtaken = TRUE]]

\* The vectors that a complete generation of r has, if e are the live units.
Eligible(contents, e) == [u \in Units |-> IF u \in e THEN contents[u] ELSE 0]
\* akp_embedding_generation_is_complete.
Whole(r) == vector[r] = Eligible(unit[r], live)
Selectable == {r \in Revisions : status[r] \in {"READY", "ACTIVE"}}
Searched == {r \in Revisions : status[r] = "ACTIVE"}
currentActiveVectorRevision ==
  IF Searched = {} THEN 0 ELSE CHOOSE r \in Searched : TRUE
\* Search joins the ACTIVE generation with the marker.
Searchable == marker.vector \in Searched

\* History: the units of complete generations that a step changes.
Touch ==
  touched' = touched \cup {r \in Selectable :
                             Eligible(unit'[r], live') # Eligible(unit[r], live)}
\* History: what b relied on has been overtaken.
Cross(b) == crossed' = (crossed \/ work[b].overtaken)

-----------------------------------------------------------------------------
(* Documents.                                                                *)

\* A publication commits its events with it.
Publish(u) ==
  /\ head < MaxRevisions
  /\ head' = head + 1
  /\ changed' = [changed EXCEPT ![head + 1] = {u}]
  /\ event' = [event EXCEPT ![head + 1] = "open"]
  /\ UNCHANGED <<corpus, generations, marker, work, touched, crossed, bounds>>

\* A document is blocked with its source, or verified again.
changeRefreshStatus(u) ==
  /\ changes > 0
  /\ changes' = changes - 1
  /\ live' = IF u \in live THEN live \ {u} ELSE live \cup {u}
  /\ UNCHANGED <<document, unit>>
  /\ Touch
  /\ UNCHANGED <<main, event, generations, marker, work, crossed, struck, rebuilds, budget>>

-----------------------------------------------------------------------------
(* incrementalIndex, the handler of CorpusRevisionPublished.                 *)

NewBuild(at, r) ==
  [at |-> at, revision |-> r, kept |-> 0, status |-> "none",
   seen |-> Nothing, todo |-> {}, overtaken |-> FALSE]

\* An event that main has overtaken is acknowledged.
takeEvent(r) ==
  /\ work[Worker] = Idle /\ event[r] = "open"
  /\ IF r = head
     THEN work' = [work EXCEPT ![Worker] = NewBuild("reading", r)] /\ UNCHANGED event
     ELSE event' = [event EXCEPT ![r] = "indexed"] /\ UNCHANGED work
  /\ UNCHANGED <<main, corpus, generations, marker, touched, crossed, bounds>>

\* What is searched stays advertised while its successor is built.
readMarker ==
  /\ work[Worker].at = "reading"
  /\ LET kept == IF marker.vector # 0 THEN marker.vector ELSE currentActiveVectorRevision
     IN  work' = [work EXCEPT
           ![Worker].at = IF marker.corpus = work[Worker].revision THEN "marking"
                          ELSE "structuring",
           ![Worker].kept = kept,
           ![Worker].overtaken = kept \notin Searched]
  /\ UNCHANGED <<main, event, corpus, generations, marker, touched, crossed, bounds>>

\* The changed documents are verified, their units written, and those of the
\* others copied from the snapshot that the marker names.
rebuildChangedUnits ==
  /\ work[Worker].at = "structuring"
  /\ LET r == work[Worker].revision
         prior == unit[marker.corpus]
     IN  /\ document' = [u \in Units |-> IF u \in changed[r] THEN r ELSE document[u]]
         /\ live' = live \cup changed[r]
         /\ unit' = [unit EXCEPT ![r] =
              [u \in Units |-> IF u \in changed[r] THEN r
                               ELSE IF marker.corpus # r THEN prior[u] ELSE unit[r][u]]]
  /\ Touch
  /\ MoveTo(Worker, "marking")
  /\ UNCHANGED <<main, event, generations, marker, crossed, bounds>>

\* Unconditional: whatever the marker names, this revision replaces it.
markVaultIndexRevision(mark) ==
  /\ marker' = mark
  /\ Cross(Worker)
  /\ UNCHANGED <<main, event, corpus, generations, touched, bounds>>

\* Mutation: the revision is advertised before it has been built.
markPendingEarly ==
  /\ work[Worker].at = "marking"
  /\ markVaultIndexRevision([corpus |-> work[Worker].revision,
                             vector |-> work[Worker].revision, warning |-> "pending"])
  /\ MoveTo(Worker, "listing")

markPending ==
  /\ work[Worker].at = "marking"
  /\ markVaultIndexRevision([corpus |-> work[Worker].revision, vector |-> work[Worker].kept,
                             warning |-> "pending"])
  /\ MoveTo(Worker, "listing")

markActivated ==
  /\ work[Worker].at = "closing"
  /\ markVaultIndexRevision([corpus |-> work[Worker].revision,
                             vector |-> work[Worker].revision, warning |-> "none"])
  /\ MoveTo(Worker, "completing")

\* The worker's build threw: the prior revision is advertised.
markFailed ==
  /\ work[Worker].at = "thrown"
  /\ markVaultIndexRevision([corpus |-> work[Worker].revision, vector |-> work[Worker].kept,
                             warning |-> "failed"])
  /\ MoveTo(Worker, "completing")

acknowledge ==
  /\ work[Worker].at = "completing"
  /\ event' = [event EXCEPT ![work[Worker].revision] = "indexed"]
  /\ work' = [work EXCEPT ![Worker] = Idle]
  /\ UNCHANGED <<main, corpus, generations, marker, touched, crossed, bounds>>

\* VectorIndexUpdateRequested, which follows: whatever was built, the vectors are
\* advertised as those of the corpus.
markIndexRequestComplete(r) ==
  /\ work[Worker] = Idle /\ event[r] = "indexed"
  /\ event' = [event EXCEPT ![r] = "done"]
  /\ marker' = [marker EXCEPT !.vector = marker.corpus]
  /\ UNCHANGED <<main, corpus, generations, work, touched, crossed, bounds>>

-----------------------------------------------------------------------------
(* rebuildSpaceProjections, an operator's request.                           *)

startRebuild ==
  /\ work[Operator] = Idle /\ rebuilds > 0
  /\ rebuilds' = rebuilds - 1
  /\ work' = [work EXCEPT ![Operator] = NewBuild("collecting", head)]
  /\ UNCHANGED <<main, event, corpus, generations, marker, touched, crossed, struck, changes,
                 budget>>

\* Documents are read before the transaction that writes their units.
collectDocuments ==
  /\ work[Operator].at = "collecting"
  /\ work' = [work EXCEPT ![Operator].at = "projecting", ![Operator].seen = document]
  /\ UNCHANGED <<main, event, corpus, generations, marker, touched, crossed, bounds>>

\* Units and marker in one transaction, which reads the ACTIVE generation under
\* the marker's lock.
rebuildSpaceProjections ==
  /\ work[Operator].at = "projecting"
  /\ LET r == work[Operator].revision
     IN  /\ unit' = [unit EXCEPT ![r] = work[Operator].seen]
         /\ marker' = [corpus |-> r, vector |-> currentActiveVectorRevision,
                       warning |-> "pending"]
  /\ UNCHANGED <<main, event, document, live, generations, crossed, bounds>>
  /\ Touch
  /\ work' = Overtake(Operator, "listing")

\* Mutation: the warning is left as it was.
warnNothing ==
  /\ work[Operator].at = "thrown"
  /\ work' = [work EXCEPT ![Operator] = Idle]
  /\ UNCHANGED <<main, event, corpus, generations, marker, touched, crossed, bounds>>

\* The operator's build threw.
warnFailed ==
  /\ work[Operator].at = "thrown"
  /\ marker' = IF marker.corpus = work[Operator].revision
               THEN [marker EXCEPT !.warning = "failed"] ELSE marker
  /\ work' = [work EXCEPT ![Operator] = Idle]
  /\ UNCHANGED <<main, event, corpus, generations, touched, crossed, bounds>>

-----------------------------------------------------------------------------
(* buildEmbeddingIndex.                                                      *)

listUnits(b) ==
  /\ work[b].at = "listing"
  /\ work' = [work EXCEPT ![b].at = "requesting",
                          ![b].seen = Eligible(unit[work[b].revision], live)]
  /\ UNCHANGED <<main, event, corpus, generations, marker, touched, crossed, bounds>>

request(b) ==
  /\ work[b].at = "requesting"
  /\ LET r == work[b].revision
         now == IF status[r] = "none" THEN "REQUESTED" ELSE status[r]
     IN  /\ status' = [status EXCEPT ![r] = now]
         /\ work' = [work EXCEPT ![b].at = "covering", ![b].status = now]
  /\ UNCHANGED <<main, event, corpus, vector, marker, touched, crossed, bounds>>

Count(contents) == Cardinality({u \in Units : contents[u] # 0})

\* What is complete is activated again, what should be and is not is repaired.
generationCoverage(b) ==
  /\ work[b].at = "covering"
  /\ LET r == work[b].revision
         complete == Whole(r) /\ Count(vector[r]) = Count(work[b].seen)
     IN  MoveTo(b, IF complete /\ work[b].status \in {"ACTIVE", "READY", "RETIRED"}
                   THEN "restoring"
                   ELSE IF ~complete /\ work[b].status \in {"ACTIVE", "READY"}
                   THEN "staling" ELSE "beginning")
  /\ UNCHANGED <<main, event, corpus, generations, marker, touched, crossed, bounds>>

\* A transition that its row's status allows, or that has been made already.
transition(b, to, allowed, next) ==
  /\ LET r == work[b].revision
     IN  IF status[r] \in allowed \cup {to}
         THEN status' = [status EXCEPT ![r] = to] /\ MoveTo(b, next)
         ELSE UNCHANGED status /\ MoveTo(b, "thrown")
  /\ UNCHANGED <<main, event, corpus, vector, marker, touched, bounds>>

stale(b) ==
  /\ work[b].at = "staling"
  /\ transition(b, "STALE", {"REQUESTED", "BUILDING", "READY", "ACTIVE"}, "beginning")
  /\ Cross(b)

beginBuild(b) ==
  /\ work[b].at = "beginning"
  /\ transition(b, "BUILDING", {"REQUESTED", "FAILED", "STALE", "RETIRED"}, "deleting")
  /\ UNCHANGED crossed

deleteInvalidGenerationEmbeddings(b) ==
  /\ work[b].at = "deleting"
  /\ LET r == work[b].revision
     IN  vector' = [vector EXCEPT ![r] =
           [u \in Units |-> IF vector[r][u] = Eligible(unit[r], live)[u] THEN vector[r][u]
                            ELSE 0]]
  /\ MoveTo(b, "planning")
  /\ UNCHANGED <<main, event, corpus, status, marker, touched, crossed, bounds>>

listMissing(b) ==
  /\ work[b].at = "planning"
  /\ LET r == work[b].revision
         missing == {u \in Units : work[b].seen[u] # 0
                                   /\ (vector[r][u] = 0 \/ vector[r][u] # unit[r][u])}
     IN  work' = [work EXCEPT ![b].at = IF missing = {} THEN "readying" ELSE "writing",
                              ![b].todo = missing]
  /\ UNCHANGED <<main, event, corpus, generations, marker, touched, crossed, bounds>>

\* The vector is copied from another generation or computed; a row that exists
\* is left as it is.
writeEmbedding(b, u) ==
  /\ work[b].at = "writing" /\ u \in work[b].todo
  /\ LET r == work[b].revision
         hash == work[b].seen[u]
         left == work[b].todo \ {u}
         fits == vector[r][u] = hash \/ (vector[r][u] = 0 /\ unit[r][u] = hash)
     IN  IF status[r] = "BUILDING" /\ fits
         THEN /\ vector' = [vector EXCEPT ![r][u] = hash]
              /\ work' = After(b, [work[b] EXCEPT !.at = IF left = {} THEN "readying" ELSE @,
                                                  !.todo = left])
         ELSE UNCHANGED vector /\ MoveTo(b, "failing")
  /\ UNCHANGED <<main, event, corpus, status, marker, touched, crossed, bounds>>

\* Mutation: no trigger checks what the application has counted.
markCounted(b) ==
  /\ work[b].at = "readying"
  /\ LET r == work[b].revision
         counted == status[r] = "BUILDING" /\ Count(vector[r]) = Count(work[b].seen)
     IN  IF counted
         THEN /\ status' = [status EXCEPT ![r] = "READY"]
              /\ work' = After(b, [work[b] EXCEPT !.at = "activating", !.status = "READY"])
              /\ touched' = touched \ {r}
         ELSE UNCHANGED <<status, touched>> /\ MoveTo(b, "failing")
  /\ UNCHANGED <<main, event, corpus, vector, marker, crossed, bounds>>

\* The count is the application's check, completeness the trigger's.
markReady(b) ==
  /\ work[b].at = "readying"
  /\ LET r == work[b].revision
         counted == status[r] = "BUILDING" /\ Count(vector[r]) = Count(work[b].seen)
     IN  IF Whole(r) /\ (counted \/ r \in Selectable)
         THEN LET now == IF counted THEN "READY" ELSE status[r]
              IN  /\ status' = [status EXCEPT ![r] = now]
                  /\ work' = After(b, [work[b] EXCEPT !.at = "activating", !.status = now])
                  /\ touched' = IF counted THEN touched \ {r} ELSE touched
         ELSE UNCHANGED <<status, touched>> /\ MoveTo(b, "failing")
  /\ UNCHANGED <<main, event, corpus, vector, marker, crossed, bounds>>

\* The build returned: the worker marks what it believes to be activated.
Return(b, activated) ==
  IF b = Operator THEN work' = [work EXCEPT ![b] = Idle]
  ELSE MoveTo(b, IF activated THEN "closing" ELSE "completing")

\* Only for the revision that the marker names, and only what is complete; the
\* generation searched so far is retired and the marker moved with it.
activateCurrentGeneration(b) ==
  /\ work[b].at \in {"activating", "restoring"}
  /\ LET r == work[b].revision
         trying == work[b].at = "activating"
     IN  IF marker.corpus # r
         THEN /\ Return(b, trying /\ work[b].status = "ACTIVE")
              /\ UNCHANGED <<status, marker, touched>>
         ELSE IF status[r] \in {"READY", "ACTIVE", "RETIRED"} /\ Whole(r)
         THEN /\ status' = [s \in Revisions |-> IF s = r THEN "ACTIVE"
                                                ELSE IF status[s] = "ACTIVE" THEN "RETIRED"
                                                ELSE status[s]]
              /\ marker' = [marker EXCEPT !.vector = r, !.warning = "none"]
              /\ touched' = touched \ {r}
              /\ work' = Overtake(b, IF trying THEN "confirming" ELSE "recalling")
         ELSE UNCHANGED <<status, marker, touched>>
              /\ MoveTo(b, IF trying THEN "failing" ELSE "thrown")
  /\ UNCHANGED <<main, event, corpus, vector, crossed, bounds>>

confirm(b) ==
  /\ work[b].at \in {"confirming", "recalling"}
  /\ Return(b, status[work[b].revision] = "ACTIVE")
  /\ UNCHANGED <<main, event, corpus, generations, marker, touched, crossed, bounds>>

fail(b) ==
  /\ work[b].at = "failing"
  /\ LET r == work[b].revision
     IN  status' = [status EXCEPT ![r] = IF @ \in {"REQUESTED", "BUILDING"} THEN "FAILED"
                                         ELSE @]
  /\ MoveTo(b, "thrown")
  /\ UNCHANGED <<main, event, corpus, vector, marker, touched, crossed, bounds>>

-----------------------------------------------------------------------------
(* Faults.                                                                   *)

\* The provider or a statement of the build, or of its mark, throws; after the activation, the
\* builder does not know that it has retired what it preserves.  An error of fail itself is
\* swallowed: the generation stays as it was.
buildThrows(b) ==
  /\ work[b].at \in TryPhases \cup OpenPhases \cup {"failing"}
  /\ Spend("error")
  /\ work' = After(b, [work[b] EXCEPT
       !.at = IF @ \in TryPhases THEN "failing" ELSE "thrown",
       !.overtaken = @ \/ work[b].at \in {"confirming", "recalling", "closing"}])
  /\ UNCHANGED <<main, event, corpus, generations, marker, touched, crossed>>

\* The worker dies, or one of its own statements throws: the event is delivered
\* again.
Crash ==
  /\ work[Worker] # Idle
  /\ Spend("crash")
  /\ work' = [work EXCEPT ![Worker] = Idle]
  /\ UNCHANGED <<main, event, corpus, generations, marker, touched, crossed>>

\* The operator's request dies, or fails outside the build - the community index, which it
\* rebuilds after the marker was written - and nobody repeats it.
Abort ==
  /\ work[Operator] # Idle
  /\ Spend("abort")
  /\ work' = [work EXCEPT ![Operator] = Idle]
  /\ UNCHANGED <<main, event, corpus, generations, marker, touched, crossed>>

BuildStep(b) ==
  \/ listUnits(b) \/ request(b) \/ generationCoverage(b) \/ stale(b) \/ beginBuild(b)
  \/ deleteInvalidGenerationEmbeddings(b) \/ listMissing(b)
  \/ \E u \in Units : writeEmbedding(b, u)
  \/ markReady(b) \/ activateCurrentGeneration(b) \/ confirm(b) \/ fail(b)

WorkerStep ==
  \/ readMarker \/ rebuildChangedUnits \/ markPending \/ markActivated \/ markFailed
  \/ acknowledge \/ BuildStep(Worker)

HandleEvent == \E r \in Revisions : takeEvent(r) \/ markIndexRequestComplete(r)

OperatorStep == collectDocuments \/ rebuildSpaceProjections \/ warnFailed \/ BuildStep(Operator)

Next ==
  \/ \E u \in Edited : Publish(u)
  \/ \E u \in Units : changeRefreshStatus(u)
  \/ HandleEvent \/ WorkerStep
  \/ startRebuild \/ OperatorStep
  \/ \E b \in Builders : buildThrows(b)
  \/ Crash \/ Abort

Spec == Init /\ [][Next]_vars

-----------------------------------------------------------------------------
(* Properties.                                                               *)

TypeOK ==
  /\ head \in Revisions
  /\ changed \in [Revisions -> SUBSET Units]
  /\ event \in [Revisions -> {"none", "open", "indexed", "done"}]
  /\ document \in Contents /\ live \subseteq Units
  /\ unit \in [Revisions -> Contents]
  /\ status \in [Revisions -> Statuses]
  /\ vector \in [Revisions -> Contents]
  /\ marker \in Marker
  /\ work \in [Builders -> Build \cup {Idle}]
  /\ touched \subseteq Revisions
  /\ crossed \in BOOLEAN
  /\ struck \subseteq FaultKinds
  /\ changes \in Nat /\ rebuilds \in Nat /\ budget \in Nat

\* What may be searched has exactly the vectors of its units, however builders
\* overtake each other, unless the units changed once it was complete: a
\* document was blocked or rewritten (migration 020).
SelectedIsWhole == \A r \in Selectable \ touched : Whole(r)

\* One generation at most is searched (migration 019, the partial unique index).
OneActive == \A r, s \in Searched : r = s

\* An index reported to be consistent is searched with its own vectors, until a
\* builder writes what another had overtaken.
ConsistentIsServed == ~crossed /\ marker.warning = "none" => marker.corpus \in Searched

\* Units, generations and marker agree.
VectorsAgree == TypeOK /\ SelectedIsWhole /\ OneActive /\ ConsistentIsServed

\* What is searched stays searchable while its successor is built, and when that
\* fails (incrementalIndex, rebuildSpaceProjections).  The exceptions: a builder
\* writes what another had overtaken, a generation whose units changed is
\* repaired, and a vector request advertises what was not built (README).
SearchStays ==
  [][Searchable /\ ~Searchable'
       => \/ crossed'
          \/ \E r \in touched : r \in Searched /\ status'[r] = "STALE"
          \/ \E r \in Revisions : markIndexRequestComplete(r)]_vars

\* A build reported to be pending is under way, or an event will bring another:
\* no crash of the worker, failure of a build or race of builders leaves the report
\* behind.  An operator's request that died or failed before its build does (README).
PendingIsOwned ==
  marker.warning = "pending" /\ "abort" \notin struck
    => \/ \E b \in Builders : work[b] # Idle
       \/ \E r \in Revisions : event[r] = "open"
=============================================================================
