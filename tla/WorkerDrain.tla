----------------------------- MODULE WorkerDrain -----------------------------
(***************************************************************************)
(* The drain of the worker (apps/worker/src/drain.ts): one process runs     *)
(* the four queues of the database - event deliveries, connector events,    *)
(* assurance runs and ingest jobs - until nothing is left, something has    *)
(* failed for good, or its deadline has passed.  Every queue is one table;  *)
(* a unit of work is an item of one kind.  Beside the drain runs one peer,  *)
(* an ordinary worker over the same tables, and requests add new items.     *)
(*                                                                          *)
(* Time is a counter: a retry and a lease carry the time they are due.      *)
(* WorkerProofs has the theorems of several modules, hence the prefixes.    *)
(***************************************************************************)
EXTENDS Naturals, FiniteSets, FiniteSetsExt

CONSTANTS
    Items,          \* units of work
    Kind,           \* Items -> {"event", "connector", "run", "job"}
    After,          \* Items -> SUBSET Items: what a cause or an earlier sequence number holds up
    Feeds,          \* Items -> SUBSET Items: the work an item creates when it is done
    Present,        \* the items that are there when the drain starts
    Requested,      \* the items that come from requests while it runs
    RunAttempts,    \* attempts of an assurance run
    Deadline,       \* when the drain gives up
    MaxClock,       \* bound on time
    DrainFaults,    \* bound on failures, crashes and lapsed leases
    none            \* a model value: nobody, nothing

Kinds == {"event", "connector", "run", "job"}

Claimants == {"drain", "peer"}

Endings == {"QUIESCENT", "DEADLINE_EXCEEDED", "QUARANTINED", "CONNECTOR_REJECTED",
            "CONNECTOR_GAP_BLOCKED", "ASSURANCE_FAILED"}

ASSUME DrainAssumption ==
    /\ Kind \in [Items -> Kinds]
    /\ After \in [Items -> SUBSET Items]
    /\ Feeds \in [Items -> SUBSET Items]
    /\ Present \subseteq Items
    /\ Requested \subseteq Items
    /\ RunAttempts \in Nat \ {0}
    /\ {Deadline, MaxClock, DrainFaults} \subseteq Nat
    /\ Deadline < MaxClock

\* A table has finitely many rows.
ASSUME ItemsAssumption == IsFiniteSet(Items)

ASSUME NobodyAssumption == none \notin Claimants \union Endings

VARIABLES
    item,       \* the row of each item
    clock,      \* the time
    pc,         \* where the drain stands in its loop
    held,       \* the item the drain is working on
    saw,        \* what its summaries have told it, one per kind
    until,      \* when its sleep ends
    reason,     \* how the drain ended
    stood,      \* history: the rows when it began to read its summaries
    faults      \* failures, crashes and lapsed leases so far

drainVars == <<item, clock, pc, held, saw, until, reason, stood, faults>>

NoItem == [status |-> "absent", due |-> 0, owner |-> none, attempts |-> 0]

NoRows == [i \in Items |-> NoItem]

NoSummary == [work |-> 0, claimable |-> 0, failed |-> 0, gap |-> 0, wakes |-> {}]

Unseen == [k \in Kinds |-> NoSummary]

NextQueue == [event |-> "connector", connector |-> "run", run |-> "job", job |-> "readEvent"]

Of(k) == {i \in Items : Kind[i] = k}

-----------------------------------------------------------------------------
(* Rows.  A pending item is due at its next attempt, a leased one when its  *)
(* lease runs out; new work is due at once.                                 *)

Outstanding(row) == row.status \in {"pending", "leased"}

\* An event waits for its cause, and a connector event for the one before it,
\* which may not have arrived.
Blocked(i) == \E j \in After[i] : item[j].status # "done"

Due(i) == Outstanding(item[i]) /\ item[i].due <= clock

\* What the four claims take.  Those of runs and of connector events look at the
\* attempts that are left, and a connector event without any is REJECTED already.
Claimable(i) ==
    /\ Due(i)
    /\ ~Blocked(i)
    /\ Kind[i] = "run" => item[i].attempts < RunAttempts

Leased(i, w) == [item EXCEPT ![i] = [status |-> "leased", due |-> clock + 1, owner |-> w,
                                     attempts |-> @.attempts + (IF Kind[i] = "run" THEN 1 ELSE 0)]]

\* Finishing an item commits what it feeds in the same transaction.
Done(i) ==
    [j \in Items |->
        IF j = i THEN [NoItem EXCEPT !.status = "done"]
        ELSE IF j \in Feeds[i] /\ item[j].status = "absent"
        THEN [NoItem EXCEPT !.status = "pending"]
        ELSE item[j]]

Retried(i) == [item EXCEPT ![i].status = "pending", ![i].owner = none, ![i].due = clock + 1]

Failed(i) == [item EXCEPT ![i] = [NoItem EXCEPT !.status = "failed"]]

\* The outcomes of working on an item: it is done, or it is refused, which is
\* retried later or fails for good.  A run whose last attempt fails is FAILED.
Completed(i) == item' = Done(i) /\ UNCHANGED faults

Refused(i) ==
    /\ faults < DrainFaults
    /\ faults' = faults + 1
    /\ \/ item' = Failed(i)
       \/ /\ Kind[i] = "run" => item[i].attempts < RunAttempts
          /\ item' = Retried(i)

Settled(i) == Completed(i) \/ Refused(i)

\* A worker whose lease was taken over is refused by the fence of the row.
Lost(i, w) == item[i].owner # w /\ UNCHANGED <<item, faults>>

-----------------------------------------------------------------------------
(* Summaries: one query per queue.                                          *)

Waking(i) == Outstanding(item[i]) /\ item[i].due > clock

\* An event delivery that fails for good is QUARANTINED, a connector event
\* REJECTED and a run FAILED, which is what their summaries count.  An ingest job
\* is FAILED too, but its summary counts the jobs in QUARANTINED, which no code
\* writes: nothing tells the drain of a failed job.
CountedAsFailed(k) == {i \in Of(k) : k # "job" /\ item[i].status = "failed"}

Tell(k, open, claimable, waking) ==
    [work      |-> Cardinality(open),
     claimable |-> Cardinality(claimable),
     failed    |-> Cardinality(CountedAsFailed(k)),
     gap       |-> Cardinality({i \in open : k = "connector" /\ Blocked(i)}),
     wakes     |-> {item[i].due : i \in waking}]

Open(k) == {i \in Of(k) : Outstanding(item[i])}

Ready(k) == {i \in Open(k) : Due(i) /\ ~Blocked(i)}

\* A connector event behind a gap wakes nobody; a blocked event delivery does.
Sleeping(k) == {i \in Open(k) : Waking(i) /\ ~(k = "connector" /\ Blocked(i))}

\* Mutation: leased items are not work.
SummaryOfPending(k) ==
    Tell(k, {i \in Open(k) : item[i].status = "pending"}, Ready(k), Sleeping(k))

\* Mutation: what waits for its cause or behind a gap counts as claimable.
SummaryOfDue(k) == Tell(k, Open(k), {i \in Open(k) : Due(i)}, Sleeping(k))

\* Mutation: the next wake-up forgets the leases of other workers.
SummaryWithoutLeases(k) ==
    Tell(k, Open(k), Ready(k), {i \in Sleeping(k) : item[i].status = "pending"})

\* What was finished or has failed is no work.  An assurance run counts as
\* claimable whatever attempts it has left.
Summary(k) == Tell(k, Open(k), Ready(k), Sleeping(k))

-----------------------------------------------------------------------------
(* The drain.                                                               *)

DrainInit ==
    /\ item = [i \in Items |-> IF i \in Present THEN [NoItem EXCEPT !.status = "pending"] ELSE NoItem]
    /\ clock = 0
    /\ pc = "event"
    /\ held = none
    /\ saw = Unseen
    /\ until = 0
    /\ reason = none
    /\ stood = NoRows
    /\ faults = 0

\* A claim that finds something leases it; a connector event is applied in the
\* transaction that selects it, with no lease.  A connector event that is refused
\* is reported as no event, and the claim of an assurance run follows.
claim(k) ==
    /\ pc = k
    /\ \E i \in Of(k) :
        /\ Claimable(i)
        /\ IF k = "connector"
           THEN /\ \/ Completed(i) /\ pc' = "event"
                   \/ Refused(i) /\ pc' = "run"
                /\ UNCHANGED held
           ELSE /\ item' = Leased(i, "drain")
                /\ held' = i
                /\ pc' = "work"
                /\ UNCHANGED faults
    /\ UNCHANGED <<clock, saw, until, reason, stood>>

\* An event falls through to the other queues; the rest start the loop again.
finish ==
    /\ pc = "work"
    /\ \/ item[held].owner = "drain" /\ Settled(held)
       \/ Lost(held, "drain")
    /\ held' = none
    /\ pc' = IF Kind[held] = "event" THEN "connector" ELSE "event"
    /\ UNCHANGED <<clock, saw, until, reason, stood>>

claimNothing(k) ==
    /\ pc = k
    /\ ~\E i \in Of(k) : Claimable(i)
    /\ pc' = NextQueue[k]
    /\ stood' = IF k = "job" THEN item ELSE stood
    /\ UNCHANGED <<item, clock, held, saw, until, reason, faults>>

\* The four summaries are four statements, each with its own snapshot.
summarize(k, here, next) ==
    /\ pc = here
    /\ saw' = [saw EXCEPT ![k] = Summary(k)]
    /\ pc' = next
    /\ UNCHANGED <<item, clock, held, until, reason, stood, faults>>

Summarize ==
    \/ summarize("event", "readEvent", "readJob")
    \/ summarize("job", "readJob", "readRun")
    \/ summarize("run", "readRun", "readConnector")
    \/ summarize("connector", "readConnector", "decide")

Wakes == UNION {saw[k].wakes : k \in Kinds}

\* Mutation: the deadline is looked at only when nothing is claimable.
VerdictWithoutDeadline ==
    IF saw["event"].failed + saw["job"].failed > 0 THEN "QUARANTINED"
    ELSE IF saw["connector"].failed > 0 THEN "CONNECTOR_REJECTED"
    ELSE IF saw["connector"].gap > 0 /\ saw["connector"].claimable = 0 /\ saw["connector"].wakes = {}
    THEN "CONNECTOR_GAP_BLOCKED"
    ELSE IF saw["run"].failed > 0 THEN "ASSURANCE_FAILED"
    ELSE IF clock >= Deadline /\ \A k \in Kinds : saw[k].claimable = 0 THEN "DEADLINE_EXCEEDED"
    ELSE IF \A k \in Kinds : saw[k].work = 0 THEN "QUIESCENT"
    ELSE none

Verdict ==
    IF saw["event"].failed + saw["job"].failed > 0 THEN "QUARANTINED"
    ELSE IF saw["connector"].failed > 0 THEN "CONNECTOR_REJECTED"
    ELSE IF saw["connector"].gap > 0 /\ saw["connector"].claimable = 0 /\ saw["connector"].wakes = {}
    THEN "CONNECTOR_GAP_BLOCKED"
    ELSE IF saw["run"].failed > 0 THEN "ASSURANCE_FAILED"
    ELSE IF clock >= Deadline THEN "DEADLINE_EXCEEDED"
    ELSE IF \A k \in Kinds : saw[k].work = 0 THEN "QUIESCENT"
    ELSE none

\* A claimable item sends the drain round again at once; otherwise it sleeps
\* until the earliest time the database holds, or its deadline.
decide ==
    /\ pc = "decide"
    /\ reason' = Verdict
    /\ \/ /\ Verdict # none
          /\ pc' = "ended"
          /\ UNCHANGED <<until, stood>>
       \/ /\ Verdict = none
          /\ \E k \in Kinds : saw[k].claimable > 0
          /\ pc' = "event"
          /\ stood' = NoRows
          /\ UNCHANGED until
       \/ /\ Verdict = none
          /\ \A k \in Kinds : saw[k].claimable = 0
          /\ pc' = "wait"
          /\ until' = Min(Wakes \union {Deadline})
          /\ UNCHANGED stood
    /\ saw' = Unseen
    /\ UNCHANGED <<item, clock, held, faults>>

waitUntil ==
    /\ pc = "wait"
    /\ clock >= until
    /\ pc' = "event"
    /\ until' = 0
    /\ stood' = NoRows
    /\ UNCHANGED <<item, clock, held, saw, reason, faults>>

-----------------------------------------------------------------------------
(* The others.                                                              *)

Others == UNCHANGED <<clock, pc, held, saw, until, reason, stood>>

\* The peer applies a connector event in one transaction and leases the rest.
PeerTakes(i) ==
    /\ reason = none
    /\ Claimable(i)
    /\ IF Kind[i] = "connector" THEN Settled(i) ELSE item' = Leased(i, "peer") /\ UNCHANGED faults
    /\ Others

\* A peer that has stopped never settles: its lease runs out.
PeerSettles(i) ==
    /\ reason = none
    /\ item[i].status = "leased"
    /\ item[i].owner = "peer"
    /\ Settled(i)
    /\ Others

\* A request commits new work: an upload, a published revision, a connector event.
Arrives(i) ==
    /\ reason = none
    /\ i \in Requested
    /\ item[i].status = "absent"
    /\ item' = [item EXCEPT ![i] = [NoItem EXCEPT !.status = "pending"]]
    /\ UNCHANGED faults
    /\ Others

Tick ==
    /\ clock < MaxClock
    /\ reason = none
    /\ clock' = clock + 1
    /\ UNCHANGED <<item, pc, held, saw, until, reason, stood, faults>>

Drain ==
    \/ \E k \in Kinds : claim(k) \/ claimNothing(k)
    \/ finish
    \/ Summarize
    \/ decide
    \/ waitUntil

DrainNext ==
    \/ Drain
    \/ \E i \in Items : PeerTakes(i) \/ PeerSettles(i) \/ Arrives(i)
    \/ Tick

DrainSpec == DrainInit /\ [][DrainNext]_drainVars

\* The drain is the process under study and keeps running, and time passes.
DrainFairSpec == DrainSpec /\ WF_drainVars(Drain) /\ WF_drainVars(Tick)

-----------------------------------------------------------------------------
(* Properties.                                                              *)

RowOK(row) ==
    /\ row.status \in {"absent", "pending", "leased", "done", "failed"}
    /\ row.due \in 0 .. MaxClock + 1
    /\ row.owner \in Claimants \union {none}
    /\ row.attempts \in Nat
    /\ row.status = "leased" <=> row.owner # none

\* A drain that reports QUIESCENT leaves no work behind: every item that was
\* there when it began to read its four summaries has been done with - although
\* the four queries see four different moments and a peer works between them -
\* and the only items that have failed are ingest jobs, which it cannot tell from
\* finished ones.  (Items that arrive during the reading may be missed: the drain
\* promises nothing about them.)
DoneWith(i) ==
    \/ item[i].status = "done"
    \/ Kind[i] = "job" /\ item[i].status = "failed"

QuiescentLeftNothing ==
    /\ \A i \in Items : RowOK(item[i])
    /\ reason = "QUIESCENT" => \A i \in Items : stood[i].status # "absent" => DoneWith(i)

\* The drain never sleeps past work it knew of: an item that has not changed
\* since the reading began, and waits for nothing that has, becomes claimable
\* no earlier than the end of the sleep.
NeverOversleeps ==
    pc = "wait" =>
        \A i \in Items :
            /\ \A j \in After[i] \union {i} : item[j] = stood[j]
            /\ Claimable(i)
            => clock >= until

\* The drain starts its loop again without sleeping only when a claim would
\* succeed, somebody else has moved since it began to read, or an assurance run
\* has used up its attempts under a lapsed lease: that one the summary counts as
\* claimable and no claim takes.
LoopsForWork ==
    [][(pc = "decide" /\ pc' = "event") =>
           \/ \E i \in Items : Claimable(i)
           \/ item # stood
           \/ \E i \in Of("run") : Due(i) /\ item[i].attempts >= RunAttempts]_drainVars

\* The drain ends, whatever the peer does or leaves undone, once requests stop.
DrainEnds == <>(reason # none)

=============================================================================
