--------------------------- MODULE TemporalTruth ---------------------------
(***************************************************************************)
(* The truth of a vault (packages/postgres/src/temporal-truth.ts): facts   *)
(* that rest on sources and on other facts, recorded, superseded and       *)
(* withdrawn by revisions; the worker that follows an invalidation         *)
(* (apps/worker/src/truth-maintenance.ts); and a strict query, which       *)
(* captures a revision and keeps to it (apps/api/src/routes/search.ts).    *)
(*                                                                         *)
(* A support set is the set of its alternative groups of references; one   *)
(* without alternatives is a single group.  A reference is a fact or a     *)
(* source: an episode, which may be withdrawn, or a piece of evidence,     *)
(* which may be invalidated.  What is disputed counts as supported, as it  *)
(* does for everything here.                                               *)
(***************************************************************************)
EXTENDS Integers, FiniteSets

CONSTANTS
  Facts, Sources,
  NoFact,
  Items,        \* derived items: vectors
  Supports,     \* the support sets tried for each fact and item
  Windows,      \* the valid times of facts: [from, to)
  Home,         \* the vault
  Others,       \* the other vaults of a query
  MaxSeq,       \* bound: revisions of a vault
  MaxTime       \* bound: the valid times asked for

Refs == Facts \cup Sources
Vaults == {Home} \cup Others
Time == 0 .. MaxTime
Seqs == 0 .. MaxSeq

ASSUME FactAssumption == IsFiniteSet(Facts) /\ NoFact \notin Refs /\ Facts \cap Sources = {}
ASSUME SupportAssumption == Supports \in [Facts \cup Items -> SUBSET (SUBSET (SUBSET Refs))]
ASSUME WindowAssumption == Windows \subseteq [from : Int, to : Int]
ASSUME VaultAssumption == Home \notin Others
ASSUME BoundAssumption == MaxSeq \in Nat /\ MaxTime \in Nat

Fact == [seq : Seqs, support : SUBSET (SUBSET Refs), when : Windows \cup {[from |-> 0, to |-> 0]},
         old : Facts \cup {NoFact}]
Unrecorded == [seq |-> 0, support |-> {}, when |-> [from |-> 0, to |-> 0], old |-> NoFact]

\* DerivedSupportInvalidationRequested, of the revision that asked for it, and
\* the projection it triggers: the items that are no longer valid.
Event == [status : {"none", "pending", "projected", "settled"}, resource : Refs \cup {NoFact},
          invalid : SUBSET Items]
NoEvent == [status |-> "none", resource |-> NoFact, invalid |-> {}]

\* cleanupInvalidDerivedItems: the head it locked, and what it judged by it.
\* again: history, what was derived again since, by a revision it knew.
Worker == [at : {"idle", "locked"}, event : Seqs, rev : Seqs, when : Time,
           judged : SUBSET Items, again : SUBSET Items]
IdleWorker == [at |-> "idle", event |-> 0, rev |-> 0, when |-> 0, judged |-> {},
               again |-> {}]

\* A strict query: the vaults it has still to read, the snapshot, the revision
\* of its verdicts.  History: cut, the heads when the capture was complete;
\* exact, whether the snapshot and the verdicts of the last answer were of it.
Query == [at : {"idle", "capture", "search", "check"}, left : SUBSET Vaults,
          snap : [Vaults -> Seqs], rev : Seqs, cut : [Vaults -> Seqs], exact : BOOLEAN]
Zero == [v \in Vaults |-> 0]
IdleQuery == [at |-> "idle", left |-> {}, snap |-> Zero, rev |-> 0, cut |-> Zero, exact |-> TRUE]

VARIABLES
  head,     \* truth_revision_heads: the revision of each vault
  fact,     \* temporal_facts and their supersessions
  gone,     \* the revision that withdrew or invalidated a source, or 0
  deps,     \* derived_truth_dependencies
  vectors,  \* the items that have their vector
  event,    \* by revision
  worker,
  query

truth == <<head, fact, gone>>
derived == <<deps, vectors>>
vars == <<truth, derived, event, worker, query>>

Init ==
  /\ head = Zero
  /\ fact = [f \in Facts |-> Unrecorded]
  /\ gone = [x \in Sources |-> 0]
  /\ deps = {} /\ vectors = {}
  /\ event = [s \in 1 .. MaxSeq |-> NoEvent]
  /\ worker = IdleWorker
  /\ query = IdleQuery

-----------------------------------------------------------------------------
(* What is supported at a revision and a time.                               *)

In(when, t) == when.from <= t /\ t < when.to
Recorded(f, s) == fact[f].seq \in 1 .. s

\* Mutation: a supersession counts at every revision.
currentWhateverRevision(s, t) ==
  {f \in Facts : /\ Recorded(f, s) /\ In(fact[f].when, t)
                 /\ ~\E g \in Facts : fact[g].old = f /\ In(fact[g].when, t)}

\* The facts that are recorded and in force, and not replaced by one in force.
Current(s, t) ==
  {f \in Facts : /\ Recorded(f, s) /\ In(fact[f].when, t)
                 /\ ~\E g \in Facts : /\ fact[g].old = f
                                      /\ Recorded(g, s) /\ In(fact[g].when, t)}

Standing(s) == {x \in Sources : gone[x] \notin 1 .. s}

\* The references that hold: sources that stand, and facts one of whose groups
\* holds.  A fact's support is older than the fact, so as many rounds as there
\* are facts reach them all.
Held(standing, support) ==
  LET round[n \in 0 .. Cardinality(Facts)] ==
        IF n = 0 THEN standing
        ELSE LET held == round[n - 1]
             IN  held \cup {f \in DOMAIN support : \E g \in support[f] : g \subseteq held}
  IN  round[Cardinality(Facts)]

HeldAt(s, t) == Held(Standing(s), [f \in Current(s, t) |-> fact[f].support])

supportEvaluation(support, s, t) ==
  LET held == HeldAt(s, t) IN \E g \in support : g \subseteq held

\* The newest dependency the revision knows decides; an item with newer ones
\* only is not valid, one without any is.
Decides(d, s) ==
  d.seq <= s /\ \A e \in deps : (e.item = d.item /\ e.seq <= s) => e.seq <= d.seq

validateDerivedItem(i, s, t) ==
  \/ s = 0 \/ ~\E d \in deps : d.item = i
  \/ \E d \in deps : d.item = i /\ Decides(d, s) /\ supportEvaluation(d.support, s, t)

-----------------------------------------------------------------------------
(* Revisions.                                                                *)

\* Mutation: a cleanup does not lock the head.
publishesUnlocked(v) ==
  /\ head[v] < MaxSeq
  /\ head' = [head EXCEPT ![v] = head[v] + 1]

\* The head is locked for update: not while a cleanup has it locked for share.
publishRevision(v) ==
  /\ head[v] < MaxSeq
  /\ v = Home => worker.at # "locked"
  /\ head' = [head EXCEPT ![v] = head[v] + 1]

Requests(x) ==
  event' = [event EXCEPT ![head[Home] + 1] =
              [status |-> "pending", resource |-> x, invalid |-> {}]]

\* The support set names facts that are recorded.
Exists(support) == \A f \in UNION support : f \in Facts => fact[f].seq > 0

recordFact(f, support, when, old) ==
  /\ fact[f].seq = 0
  /\ Exists(support)
  /\ old # NoFact => fact[old].seq > 0
  /\ publishRevision(Home)
  /\ fact' = [fact EXCEPT ![f] = [seq |-> head[Home] + 1, support |-> support,
                                  when |-> when, old |-> old]]
  /\ \/ old = NoFact /\ UNCHANGED event
     \/ old # NoFact /\ Requests(old)
  /\ UNCHANGED <<gone, derived, worker, query>>

\* withdrawSourceEpisode, invalidateEvidence: the second of two answers with
\* the revision of the first.
withdrawSource(x) ==
  /\ gone[x] = 0
  /\ publishRevision(Home)
  /\ gone' = [gone EXCEPT ![x] = head[Home] + 1]
  /\ Requests(x)
  /\ UNCHANGED <<fact, derived, worker, query>>

\* Something changes in another vault.
publishElsewhere(v) ==
  /\ publishRevision(v)
  /\ UNCHANGED <<fact, gone, derived, event, worker, query>>

-----------------------------------------------------------------------------
(* Derived items.                                                            *)

embed(i) ==
  /\ i \notin vectors
  /\ vectors' = vectors \cup {i}
  /\ UNCHANGED <<truth, deps, event, worker, query>>

\* Whoever derives an item names a revision, which need not be the head any
\* more; the second dependency of an item and a revision is a conflict.
registerDerivedDependency(i, support, s) ==
  /\ s \in 1 .. head[Home]
  /\ Exists(support)
  /\ ~\E d \in deps : d.item = i /\ d.seq = s
  /\ deps' = deps \cup {[item |-> i, support |-> support, seq |-> s]}
  /\ worker' = IF worker.at = "locked" /\ s <= worker.rev
               THEN [worker EXCEPT !.again = worker.again \cup {i}] ELSE worker
  /\ UNCHANGED <<truth, vectors, event, query>>

-----------------------------------------------------------------------------
(* The worker.                                                               *)

\* Mutation: what rests on the facts that rest on it is not looked for.
affectedDirectly(x, s) == {i \in Items : \E d \in deps : /\ d.item = i /\ d.seq <= s
                                                         /\ x \in UNION d.support}

\* The items with a support set that mentions the resource, or a fact that
\* rests on one that does.
affected(x, s) ==
  LET reach[n \in 0 .. Cardinality(Facts)] ==
        IF n = 0 THEN {x}
        ELSE LET found == reach[n - 1]
             IN  found \cup {f \in Facts : Recorded(f, s) /\ (UNION fact[f].support) \cap found # {}}
      all == reach[Cardinality(Facts)]
  IN  {i \in Items : \E d \in deps : /\ d.item = i /\ d.seq <= s
                                     /\ (UNION d.support) \cap all # {}}

\* Everything is judged at the event's revision and time; the projection is
\* stored once for an event.
rebuildDerivedProjection(s, t) ==
  /\ worker.at = "idle"
  /\ event[s].status = "pending"
  /\ event' = [event EXCEPT ![s].status = "projected",
                            ![s].invalid = {i \in affected(event[s].resource, s) :
                                              ~validateDerivedItem(i, s, t)}]
  /\ UNCHANGED <<truth, derived, worker, query>>

\* The head is locked for share, and the projection's invalid items are judged
\* again, by the head and the time it is now.
cleanupInvalidDerivedItems(s, t) ==
  /\ worker.at = "idle" /\ event[s].status = "projected"
  /\ worker' = [at |-> "locked", event |-> s, rev |-> head[Home], when |-> t, again |-> {},
                judged |-> {i \in event[s].invalid : ~validateDerivedItem(i, head[Home], t)}]
  /\ UNCHANGED <<truth, derived, event, query>>

removeVectors ==
  /\ worker.at = "locked"
  /\ vectors' = vectors \ worker.judged
  /\ event' = [event EXCEPT ![worker.event].status = "settled"]
  /\ worker' = IdleWorker
  /\ UNCHANGED <<truth, deps, query>>

\* The event is delivered again.
workerCrashes ==
  /\ worker.at = "locked"
  /\ worker' = IdleWorker
  /\ UNCHANGED <<truth, derived, event, query>>

-----------------------------------------------------------------------------
(* A strict query.                                                           *)

startQuery ==
  /\ query.at = "idle"
  /\ query' = [IdleQuery EXCEPT !.at = "capture", !.left = Vaults]
  /\ UNCHANGED <<truth, derived, event, worker>>

\* captureSnapshot reads the vaults' heads one by one.
captureSnapshot(v) ==
  LET snap == [query.snap EXCEPT ![v] = head[v]]
      last == query.left = {v}
  IN  /\ query.at = "capture" /\ v \in query.left
      /\ query' = [query EXCEPT !.snap = snap, !.left = query.left \ {v},
                                !.at = IF last THEN "search" ELSE "capture",
                                !.cut = IF last THEN head ELSE Zero]
      /\ UNCHANGED <<truth, derived, event, worker>>

\* The items that are found are judged by the snapshot's revision; by the one
\* the vault has now, if it had none.
filterDerivedTruth ==
  /\ query.at = "search"
  /\ query' = [query EXCEPT !.at = "check", !.left = Vaults,
                            !.rev = IF query.snap[Home] = 0 THEN head[Home] ELSE query.snap[Home]]
  /\ UNCHANGED <<truth, derived, event, worker>>

\* The heads are read again, one by one; one that changed is an error.
recheck(v, same) ==
  /\ query.at = "check" /\ v \in query.left
  /\ query' = IF same /\ query.left # {v} THEN [query EXCEPT !.left = query.left \ {v}]
              ELSE [IdleQuery EXCEPT !.exact =
                      same => query.snap = query.cut /\ query.rev = query.cut[Home]]
  /\ UNCHANGED <<truth, derived, event, worker>>

\* Mutation: a vault that had no revision is not compared.
unchangedWhereKnown(v) == recheck(v, query.snap[v] \in {0, head[v]})

snapshotUnchanged(v) == recheck(v, query.snap[v] = head[v])

-----------------------------------------------------------------------------

Next ==
  \/ \E f \in Facts, when \in Windows, old \in Facts \cup {NoFact} :
       \E support \in Supports[f] : recordFact(f, support, when, old)
  \/ \E x \in Sources : withdrawSource(x)
  \/ \E v \in Others : publishElsewhere(v)
  \/ \E i \in Items : \/ embed(i)
                      \/ \E support \in Supports[i], s \in Seqs : registerDerivedDependency(i, support, s)
  \/ \E s \in 1 .. MaxSeq, t \in Time : rebuildDerivedProjection(s, t) \/ cleanupInvalidDerivedItems(s, t)
  \/ removeVectors \/ workerCrashes
  \/ startQuery \/ filterDerivedTruth
  \/ \E v \in Vaults : captureSnapshot(v) \/ snapshotUnchanged(v)

Spec == Init /\ [][Next]_vars

-----------------------------------------------------------------------------
(* Properties.                                                               *)

TypeOK ==
  /\ head \in [Vaults -> Seqs]
  /\ fact \in [Facts -> Fact]
  /\ gone \in [Sources -> Seqs]
  /\ deps \subseteq [item : Items, support : SUBSET (SUBSET Refs), seq : Seqs]
  /\ vectors \subseteq Items
  /\ event \in [1 .. MaxSeq -> Event]
  /\ worker \in Worker
  /\ query \in Query

\* What held at a revision holds there for ever: whatever is recorded,
\* superseded or withdrawn later, a query of an old revision gives the same
\* answer for every valid time.
PastIsStable ==
  [][\A s \in 0 .. head[Home], t \in Time : HeldAt(s, t)' = HeldAt(s, t)]_truth

\* A strict answer is of one moment, though the heads of its vaults are read one
\* by one: the snapshot is what they all were when it was complete, and the
\* verdicts are of that revision.
StrictAnswerIsOneCut == query.exact

\* An invalidation misses nothing: what rested on a support that held before a
\* revision, and does not hold at it, is among the items affected by what the
\* revision asked to invalidate, however many facts lie between.  A revision
\* that asks for nothing takes no support away.
InvalidatedIsAffected ==
  \A s \in 1 .. head[Home], t \in Time :
    LET before == HeldAt(s - 1, t)
        after == HeldAt(s, t)
    IN  \A d \in deps :
          (/\ d.seq <= s
           /\ \E g \in d.support : g \subseteq before
           /\ ~\E g \in d.support : g \subseteq after) =>
             event[s].status # "none" /\ d.item \in affected(event[s].resource, s)

\* Facts, revisions and the items that rest on them agree.
SupportsAgree == TypeOK /\ InvalidatedIsAffected

\* A vector that is removed is not valid by the head, whatever was published
\* since its projection; unless the item was derived again, by a revision that
\* the cleanup already knew, after it had been judged.
RemovedIsInvalid ==
  [][\A i \in vectors \ vectors' :
       validateDerivedItem(i, head[Home], worker.when) => i \in worker.again]_vectors
=============================================================================
