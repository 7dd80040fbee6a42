----------------------------- MODULE Projection -----------------------------
(***************************************************************************)
(* The projections a reader queries: documents, lexical units, relations   *)
(* and the marker of the revision that is served (packages/indexing,       *)
(* apps/worker/src/event-handlers.ts, apps/api/src/projections.ts).        *)
(*                                                                         *)
(* All vaults publish to one main branch.  A publication's event names its *)
(* commit and the path it changed.  A worker that handles the event skips  *)
(* it if main has moved on, and otherwise works through statements and     *)
(* transactions of their own.  Meanwhile main may move again, the worker   *)
(* may fail or die, and an operator may rebuild a vault's projections.     *)
(*                                                                         *)
(* A revision is the position of a commit on main; a file's version is the *)
(* commit that wrote it, 0 when it is absent.  Outbox has the deliveries:  *)
(* here an event is open until it is acknowledged, and one worker at a     *)
(* time holds it.  A commit changes one path, and vaults share none.       *)
(* The vector channel, communities and renames are left out.               *)
(* WorkerProofs has the theorems of several modules, hence the prefixes.   *)
(***************************************************************************)
EXTENDS Naturals, Sequences

CONSTANTS
  Paths, Vaults,
  VaultOf,            \* the vault of each path
  Indexers, Operator,  \* who writes projections
  MaxPublications,    \* bound: drafts merged
  MaxDisturbances     \* bound: crashes, failures and rebuilds in a behaviour

ASSUME VaultAssumption == VaultOf \in [Paths -> Vaults]
ASSUME OperatorAssumption == Operator \notin Indexers
ASSUME PublicationAssumption ==
  MaxPublications \in Nat /\ MaxDisturbances \in Nat

\* Every publication may be compensated by a commit of its own.
Revisions == 1 .. 1 + 2 * MaxPublications
Versions == {0} \cup Revisions
Files == [Paths -> Versions]
NoFiles == [p \in Paths |-> 0]

\* CorpusRevisionPublished.
Event == [path: Paths, operation: {"UPDATE", "DELETE"}, status: {"open", "done"}]
Unpublished == [status |-> "none"]

Processes == Indexers \cup {Operator}
WorkerPhases == {"taken", "starting", "running", "synchronizing", "collecting", "writing",
                 "relating", "linking", "marking", "completing", "acknowledging"}
OperatorPhases == {"relating", "linking", "collecting", "writing"}
Idle == [at |-> "idle"]

\* full: no snapshot exists to clone.  seen: the documents as last read.
Task == [at: WorkerPhases, revision: Revisions, vault: Vaults, full: BOOLEAN, seen: Files]

VARIABLES
  main,       \* the files of every commit, oldest first
  event,      \* the events, by revision
  publishing, \* a merge is not yet finalized
  document,   \* knowledge_documents
  unit,       \* knowledge_units, by corpus revision
  relation,   \* knowledge_relations, as the documents they were built from
  marker,     \* vault_index_revisions, 0 when there is no row
  run,        \* incremental_index_runs
  work,       \* what each process is doing
  skipped,    \* history: events acknowledged because main had moved on
  rebuilt,    \* history: an operator has rebuilt a vault
  publications, disturbances  \* what is left of each bound

git == <<main, publishing>>
tables == <<document, unit, relation, marker>>
history == <<skipped, rebuilt>>
bounds == <<publications, disturbances>>
indexVars == <<git, event, tables, run, work, history, bounds>>

HEAD == Len(main)
PathsOf(v) == {p \in Paths : VaultOf[p] = v}

IndexInit ==
  /\ main = <<NoFiles>>
  /\ event = [r \in Revisions |-> Unpublished]
  /\ publishing = FALSE
  /\ document = NoFiles
  /\ unit = [r \in Revisions |-> NoFiles]
  /\ relation = NoFiles
  /\ marker = [v \in Vaults |-> 0]
  /\ run = [r \in Revisions |-> "none"]
  /\ work = [w \in Processes |-> Idle]
  /\ skipped = {} /\ rebuilt = FALSE
  /\ publications = MaxPublications /\ disturbances = MaxDisturbances

Disturb == disturbances > 0 /\ disturbances' = disturbances - 1 /\ UNCHANGED publications

MoveTo(w, at) == work' = [work EXCEPT ![w].at = at]

-----------------------------------------------------------------------------
(* Publication: main moves before its event exists, and moves without one    *)
(* when the publication is compensated.  The publication lock is held from   *)
(* the merge to either end.  A rollback publishes in the same way.           *)

mergeDraft(p, operation) ==
  /\ ~publishing /\ publications > 0
  /\ operation = "DELETE" => main[HEAD][p] # 0
  /\ main' = Append(main, [main[HEAD] EXCEPT ![p] = IF operation = "DELETE" THEN 0
                                                    ELSE HEAD + 1])
  /\ publishing' = TRUE
  /\ publications' = publications - 1
  /\ UNCHANGED <<event, tables, run, work, history, disturbances>>

appendPublicationLifecycle ==
  /\ publishing
  /\ publishing' = FALSE
  /\ \E p \in Paths :
       /\ main[HEAD][p] # main[HEAD - 1][p]
       /\ event' = [event EXCEPT ![HEAD] =
            [path |-> p, operation |-> IF main[HEAD][p] = 0 THEN "DELETE" ELSE "UPDATE",
             status |-> "open"]]
  /\ UNCHANGED <<main, tables, run, work, history, bounds>>

compensateGit ==
  /\ publishing
  /\ publishing' = FALSE
  /\ main' = Append(main, main[HEAD - 1])
  /\ UNCHANGED <<event, tables, run, work, history, bounds>>

-----------------------------------------------------------------------------
(* The handler of CorpusRevisionPublished.                                   *)

takeEvent(w, r) ==
  /\ work[w] = Idle
  /\ event[r].status = "open"
  /\ \A o \in Indexers : work[o] # Idle => work[o].revision # r
  /\ work' = [work EXCEPT ![w] = [at |-> "taken", revision |-> r,
                                  vault |-> VaultOf[event[r].path],
                                  full |-> FALSE, seen |-> NoFiles]]
  /\ UNCHANGED <<git, event, tables, run, history, bounds>>

\* Mutation: every event is indexed, however late it is delivered.
checkNothing(w) ==
  /\ work[w].at = "taken"
  /\ MoveTo(w, "starting") /\ UNCHANGED <<history, git, event, tables, run, bounds>>

\* The newer commit is trusted to have an event of its own.
checkRevision(w) ==
  /\ work[w].at = "taken"
  /\ IF work[w].revision = HEAD
     THEN MoveTo(w, "starting") /\ UNCHANGED skipped
     ELSE MoveTo(w, "acknowledging") /\ skipped' = skipped \cup {work[w].revision}
  /\ UNCHANGED <<git, event, tables, run, rebuilt, bounds>>

\* Mutation: a run that was started is not started again.
startOnce(w) ==
  /\ work[w].at = "starting"
  /\ IF run[work[w].revision] = "none"
     THEN run' = [run EXCEPT ![work[w].revision] = "RUNNING"] /\ MoveTo(w, "running")
     ELSE MoveTo(w, "acknowledging") /\ UNCHANGED run
  /\ UNCHANGED <<git, event, tables, history, bounds>>

startIncrementalRun(w) ==
  /\ work[w].at = "starting"
  /\ run' = [run EXCEPT ![work[w].revision] = IF @ = "COMPLETED" THEN @ ELSE "RUNNING"]
  /\ MoveTo(w, "running")
  /\ UNCHANGED <<git, event, tables, history, bounds>>

\* The marker alone says whether the structure is complete.
currentVaultIndexRevision(w) ==
  /\ work[w].at = "running"
  /\ LET served == marker[work[w].vault]
     IN  work' = [work EXCEPT ![w].at = IF served = work[w].revision THEN "marking"
                                        ELSE "synchronizing",
                              ![w].full = served = 0]
  /\ UNCHANGED <<git, event, tables, run, history, bounds>>

\* One transaction: the changed path as it is in the event's commit.
synchronizeManagedPaths(w) ==
  /\ work[w].at = "synchronizing"
  /\ LET r == work[w].revision
         change == event[r]
     IN  document' = [document EXCEPT ![change.path] =
                        IF change.operation = "DELETE" THEN 0 ELSE main[r][change.path]]
  /\ MoveTo(w, "collecting")
  /\ UNCHANGED <<git, event, unit, relation, marker, run, history, bounds>>

\* Documents are read before the transaction that writes their units.
collectDocuments(w) ==
  /\ work[w].at = "collecting"
  /\ work' = [work EXCEPT ![w].at = "writing", ![w].seen = document]
  /\ UNCHANGED <<git, event, tables, run, history, bounds>>

Rebuilt(w) == IF work[w].full \/ w = Operator THEN PathsOf(work[w].vault)
              ELSE {event[work[w].revision].path}

\* Mutation: only what the event changed is in the new snapshot.
CloneNothing(w, p) == FALSE

\* Live documents' units that are copied from the snapshot served so far.
Cloned(w, p) ==
  LET prior == marker[work[w].vault]
  IN  /\ w # Operator /\ ~work[w].full
      /\ prior # 0 /\ prior # work[w].revision
      /\ p \in PathsOf(work[w].vault) \ Rebuilt(w)
      /\ document[p] # 0 /\ unit[prior][p] # 0

\* One transaction.  A document that is gone takes its units of every revision
\* out of service.
rebuildUnits(w, gone) ==
  unit' = [r \in Revisions |-> [p \in Paths |->
             IF p \in gone THEN 0
             ELSE IF r = work[w].revision /\ p \in Rebuilt(w) /\ work[w].seen[p] # 0
             THEN work[w].seen[p]
             ELSE IF r = work[w].revision /\ Cloned(w, p) THEN unit[marker[work[w].vault]][p]
             ELSE unit[r][p]]]

rebuildChangedUnits(w) ==
  /\ w \in Indexers /\ work[w].at = "writing"
  /\ rebuildUnits(w, {p \in Rebuilt(w) : work[w].seen[p] = 0})
  /\ MoveTo(w, "relating")
  /\ UNCHANGED <<git, event, document, relation, marker, run, history, bounds>>

\* rebuildManagedRelations reads the documents, then replaces all edges of the
\* vault in a transaction.
readLinks(w) ==
  /\ work[w].at = "relating"
  /\ work' = [work EXCEPT ![w].at = "linking", ![w].seen = document]
  /\ UNCHANGED <<git, event, tables, run, history, bounds>>

rebuildManagedRelations(w) ==
  /\ work[w].at = "linking"
  /\ relation' = [p \in Paths |-> IF VaultOf[p] = work[w].vault THEN work[w].seen[p]
                                  ELSE relation[p]]
  /\ MoveTo(w, IF w = Operator THEN "collecting" ELSE "marking")
  /\ UNCHANGED <<git, event, document, unit, marker, run, history, bounds>>

\* Unconditional: whatever is served, this revision replaces it.
markVaultIndexRevision(w) ==
  /\ work[w].at = "marking"
  /\ marker' = [marker EXCEPT ![work[w].vault] = work[w].revision]
  /\ MoveTo(w, "completing")
  /\ UNCHANGED <<git, event, document, unit, relation, run, history, bounds>>

completeIncrementalRun(w) ==
  /\ work[w].at = "completing"
  /\ run' = [run EXCEPT ![work[w].revision] = "COMPLETED"]
  /\ MoveTo(w, "acknowledging")
  /\ UNCHANGED <<git, event, tables, history, bounds>>

acknowledge(w) ==
  /\ work[w].at = "acknowledging"
  /\ event' = [event EXCEPT ![work[w].revision].status = "done"]
  /\ work' = [work EXCEPT ![w] = Idle]
  /\ UNCHANGED <<git, tables, run, history, bounds>>

\* A statement fails: its transaction rolls back and the event stays open.
indexFails(w) ==
  /\ w \in Indexers
  /\ work[w].at \notin {"idle", "acknowledging"}
  /\ Disturb
  /\ run' = IF work[w].at \in {"taken", "starting"} THEN run
            ELSE [run EXCEPT ![work[w].revision] = "FAILED"]
  /\ work' = [work EXCEPT ![w] = Idle]
  /\ UNCHANGED <<git, event, tables, history>>

processDies(w) ==
  /\ work[w] # Idle
  /\ Disturb
  /\ work' = [work EXCEPT ![w] = Idle]
  /\ UNCHANGED <<git, event, tables, run, history>>

-----------------------------------------------------------------------------
(* The operator's rebuild takes documents as they are and the revision of    *)
(* main as it is, whether or not the one has been synchronized with the      *)
(* other.                                                                    *)

startRebuild(v) ==
  /\ work[Operator] = Idle
  /\ Disturb
  /\ rebuilt' = TRUE
  /\ work' = [work EXCEPT ![Operator] = [at |-> "relating", revision |-> HEAD, vault |-> v,
                                         full |-> FALSE, seen |-> NoFiles]]
  /\ UNCHANGED <<git, event, tables, run, skipped>>

\* Units and marker in one transaction.
rebuildSpaceProjections ==
  /\ work[Operator].at = "writing"
  /\ rebuildUnits(Operator, {p \in PathsOf(work[Operator].vault) : document[p] = 0})
  /\ marker' = [marker EXCEPT ![work[Operator].vault] = work[Operator].revision]
  /\ work' = [work EXCEPT ![Operator] = Idle]
  /\ UNCHANGED <<git, event, document, relation, run, history, bounds>>

IndexStep(w) ==
  \/ checkRevision(w) \/ startIncrementalRun(w) \/ currentVaultIndexRevision(w)
  \/ synchronizeManagedPaths(w) \/ collectDocuments(w) \/ rebuildChangedUnits(w)
  \/ readLinks(w) \/ rebuildManagedRelations(w) \/ markVaultIndexRevision(w)
  \/ completeIncrementalRun(w) \/ acknowledge(w)

Publish == appendPublicationLifecycle \/ compensateGit

IndexNext ==
  \/ \E p \in Paths, operation \in {"UPDATE", "DELETE"} : mergeDraft(p, operation)
  \/ Publish
  \/ \E w \in Indexers, r \in Revisions : takeEvent(w, r)
  \/ \E w \in Processes : IndexStep(w) \/ indexFails(w) \/ processDies(w)
  \/ \E v \in Vaults : startRebuild(v)
  \/ rebuildSpaceProjections

IndexSpec == IndexInit /\ [][IndexNext]_indexVars

\* Workers poll and their statements return, and publications are settled.
IndexFairSpec ==
  /\ IndexSpec
  /\ WF_indexVars(Publish)
  /\ \A w \in Indexers : WF_indexVars(IndexStep(w)) /\ WF_indexVars(\E r \in Revisions : takeEvent(w, r))

-----------------------------------------------------------------------------
(* Properties.                                                               *)

IndexTypeOK ==
  /\ main \in Seq(Files) /\ Len(main) \in Revisions
  /\ event \in [Revisions -> Event \cup {Unpublished}]
  /\ publishing \in BOOLEAN
  /\ document \in Files /\ relation \in Files
  /\ unit \in [Revisions -> Files]
  /\ marker \in [Vaults -> Versions]
  /\ run \in [Revisions -> {"none", "RUNNING", "COMPLETED", "FAILED"}]
  /\ work \in [Processes -> Task \cup {Idle}]
  /\ skipped \subseteq Revisions
  /\ rebuilt \in BOOLEAN
  /\ publications \in Nat /\ disturbances \in Nat

EventsSettled == \A r \in Revisions : event[r].status # "open"
Served(p) == LET r == marker[VaultOf[p]] IN IF r = 0 THEN 0 ELSE unit[r][p]

\* Once its events are settled, a path whose last change was indexed is served
\* as that change left it, in units and relations, whatever crashed, failed and
\* was retried on the way, and whatever other paths' events were skipped.  An
\* operator's rebuild may break this (README, section 4).
IndexedIsServed ==
  ~rebuilt /\ EventsSettled =>
    \A r \in Revisions :
      LET p == event[r].path
      IN  /\ event[r].status = "done" /\ r \notin skipped
          /\ \A s \in Revisions : event[s].status = "done" /\ s > r => event[s].path # p
          => Served(p) = main[r][p] /\ relation[p] = main[r][p]

\* Once every event is settled, readers are served what main holds.
NothingIsLost ==
  EventsSettled /\ ~publishing => \A p \in Paths : Served(p) = main[HEAD][p]

\* The journal of runs does not claim more than the marker serves
\* (reconcileIncrementalIndex reports such a drift, and repairs none).
CompletedIsServed ==
  ~rebuilt =>
    \A r \in Revisions : run[r] = "COMPLETED" => marker[VaultOf[event[r].path]] >= r

\* What a run has indexed is what readers get, and no run claims more than that.
IndexAgrees == IndexTypeOK /\ IndexedIsServed /\ CompletedIsServed

\* A worker never takes a vault's readers back to an earlier revision, which is
\* what the handler skips stale events for.
MarkerAdvances ==
  [][\A v \in Vaults : ~rebuilt => marker'[v] >= marker[v]]_indexVars

\* The head of main, once published, does not stay unserved.
HeadIsServed ==
  []<>(rebuilt \/ event[HEAD].status = "none" \/ marker[VaultOf[event[HEAD].path]] = HEAD)
=============================================================================
