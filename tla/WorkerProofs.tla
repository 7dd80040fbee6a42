---------------------------- MODULE WorkerProofs ----------------------------
(***************************************************************************)
(* Machine-checked theorems about the queues the worker process works off, *)
(* for every value of the constants:                                       *)
(*                                                                         *)
(*   1. the drain (WorkerDrain): what its word on the queues is worth, with *)
(*      a peer and requests between any two of its readings;               *)
(*   2. the projections (Projection): what readers find once the events are *)
(*      settled, over failures, crashes and overtaking publications;       *)
(*   3. the inbox of source connectors (SourceConnector): an ordered log.  *)
(*                                                                         *)
(* The three share no variables; each part uses definitions of its own     *)
(* module only.                                                            *)
(***************************************************************************)
EXTENDS WorkerDrain, Projection, SourceConnector, FiniteSetTheorems, WellFoundedInduction, TLAPS

-----------------------------------------------------------------------------
(***************************************************************************)
(* 1. The drain.                                                           *)
(***************************************************************************)

Statuses == {"absent", "pending", "leased", "done", "failed"}

DrainRow == [status: Statuses, due: Nat, owner: Claimants \union {none}, attempts: Nat]

Telling == [work: Nat, claimable: Nat, failed: Nat, gap: Nat, wakes: SUBSET Nat]

DrainTypeOK ==
    /\ item \in [Items -> DrainRow] /\ stood \in [Items -> DrainRow]
    /\ clock \in 0 .. MaxClock /\ faults \in Nat /\ until \in Nat
    /\ pc = "work" => held \in Items
    /\ pc \in Kinds \union {"work", "readEvent", "readJob", "readRun", "readConnector", "decide",
                            "wait", "ended"}
    /\ saw \in [Kinds -> Telling]
    /\ reason \in Endings \union {none}
    /\ reason # none => pc = "ended"

\* A leased row has an owner, and nobody waits longer than the next tick.
RowsInOrder ==
    \A i \in Items :
        /\ item[i].status = "leased" <=> item[i].owner # none
        /\ item[i].due <= clock + 1
        /\ item[i].status = "absent" => item[i] = NoItem

\* DrainRow b is row a, or may come after it: rows only move forward - to a later
\* time, from a lease that ends to pending, and to an end.
Onward(a, b) ==
    \/ a = b
    \/ a.status = "absent" /\ b.status # "absent"
    \/ Outstanding(a) /\ b.status \in {"done", "failed"}
    \/ /\ Outstanding(a) /\ Outstanding(b)
       /\ a.due < b.due \/ (a.due = b.due /\ a.status = "leased" /\ b.status = "pending")

\* No row has moved back since the drain began to read its summaries.
StoodBefore == \A i \in Items : Onward(stood[i], item[i])

\* The drain has read the summary of k and not yet decided.
Told(k) ==
    \/ pc = "decide"
    \/ pc = "readConnector" /\ k # "connector"
    \/ pc = "readRun" /\ k \in {"event", "job"}
    \/ pc = "readJob" /\ k = "event"

\* Neither the item nor what it waits for has moved since the drain began to
\* read, and it is held up by nothing but time.
Unmoved(i) ==
    /\ \A j \in After[i] \union {i} : item[j] = stood[j]
    /\ Outstanding(item[i])
    /\ ~Blocked(i)

\* No work and no failure of a kind: what stood when the reading began is done with.
ToldOfWork(k) ==
    saw[k].work = 0 /\ saw[k].failed = 0 =>
        \A i \in Of(k) : stood[i].status # "absent" => DoneWith(i)

\* The summary has counted, or given the time of, what has not moved since.
ToldOfTimes(k) ==
    \A i \in Of(k) : Unmoved(i) => saw[k].claimable > 0 \/ item[i].due \in saw[k].wakes

\* What the summary counted as claimable is still there unless a row has moved.
ToldOfClaims(k) ==
    item = stood /\ saw[k].claimable > 0 => \E i \in Of(k) : Due(i) /\ ~Blocked(i)

Heard == \A k \in Kinds : Told(k) => ToldOfWork(k) /\ ToldOfTimes(k) /\ ToldOfClaims(k)

\* The sleep ends before anything the drain knew of is due.
SleepsInTime == pc = "wait" => \A i \in Items : Unmoved(i) => until <= item[i].due

LeftNothing ==
    reason = "QUIESCENT" => \A i \in Items : stood[i].status # "absent" => DoneWith(i)

DrainInv ==
    DrainTypeOK /\ RowsInOrder /\ StoodBefore /\ Heard /\ SleepsInTime /\ LeftNothing

-----------------------------------------------------------------------------
(* The order of rows.                                                           *)

\* Rows that move forward twice have moved forward.
LEMMA OnwardTransitive ==
    ASSUME NEW a \in DrainRow, NEW b \in DrainRow, NEW c \in DrainRow, Onward(a, b), Onward(b, c)
    PROVE  Onward(a, c)
BY DEF Onward, Outstanding, DrainRow

\* A row that comes back has never been away.
LEMMA OnwardAntisymmetric ==
    ASSUME NEW a \in DrainRow, NEW b \in DrainRow, Onward(a, b), Onward(b, a)
    PROVE  a = b
BY DEF Onward, Outstanding, DrainRow

\* What is done, or has failed, stays as it is.
LEMMA DoneStays ==
    ASSUME NEW a \in DrainRow, NEW b \in DrainRow, Onward(a, b), a.status \in {"done", "failed"}
    PROVE  b.status = a.status
BY DEF Onward, Outstanding

\* The rows move forward, each to a row of the table.
RowsMove ==
    /\ item' \in [Items -> DrainRow]
    /\ RowsInOrder'
    /\ \A i \in Items : Onward(item[i], item'[i])

\* An item that does not exist is an absent row that nobody owns.
LEMMA NoItemIsRow == NoItem \in DrainRow /\ NoItem.status = "absent" /\ NoItem.due = 0 /\ NoItem.owner = none
BY DEF NoItem, DrainRow, Statuses

\* An item that comes into being does so in some status, unowned and due.
LEMMA StatusOfNoItem ==
    ASSUME NEW s \in {"pending", "done", "failed"}
    PROVE  LET r == [NoItem EXCEPT !.status = s]
           IN  r \in DrainRow /\ r.status = s /\ r.due = 0 /\ r.owner = none
BY DEF NoItem, DrainRow, Statuses

\* An item that is done ends, and what it feeds begins.
LEMMA DoneMoves ==
    ASSUME DrainTypeOK, RowsInOrder, NEW i \in Items, Outstanding(item[i]),
           item' = Done(i), clock' = clock
    PROVE  RowsMove
<1>1. clock \in Nat
    BY DrainAssumption DEF DrainTypeOK
<1>2. ASSUME NEW j \in Items
      PROVE  /\ item'[j] \in DrainRow
             /\ item'[j].status = "leased" <=> item'[j].owner # none
             /\ item'[j].due <= clock' + 1
             /\ item'[j].status = "absent" => item'[j] = NoItem
             /\ Onward(item[j], item'[j])
    <2>1. CASE j = i
        <3>1. item'[j] = [NoItem EXCEPT !.status = "done"]
            BY <2>1 DEF Done
        <3>2. QED
            BY <1>1, <2>1, <3>1, StatusOfNoItem DEF Onward
    <2>2. CASE j # i /\ j \in Feeds[i] /\ item[j].status = "absent"
        <3>1. item'[j] = [NoItem EXCEPT !.status = "pending"]
            BY <2>2 DEF Done
        <3>2. QED
            BY <1>1, <2>2, <3>1, StatusOfNoItem DEF Onward
    <2>3. CASE j # i /\ ~(j \in Feeds[i] /\ item[j].status = "absent")
        <3>1. item'[j] = item[j]
            BY <2>3 DEF Done
        <3>2. QED
            BY <3>1 DEF DrainTypeOK, RowsInOrder, Onward
    <2>4. QED
        BY <2>1, <2>2, <2>3
<1>3. item' \in [Items -> DrainRow]
    <2>1. item' = [j \in Items |-> item'[j]]
        BY DEF Done
    <2>2. QED
        BY <1>2, <2>1
<1>4. QED
    BY <1>2, <1>3 DEF RowsMove, RowsInOrder

Replaced(i, r) == item' = [item EXCEPT ![i] = r]

\* DrainRow r is one that item i may have next.
Follows(i, r) ==
    /\ r \in DrainRow
    /\ r.status = "leased" <=> r.owner # none
    /\ r.due <= clock + 1
    /\ r.status # "absent"
    /\ Onward(item[i], r)

\* One row is replaced by one that may come after it.
LEMMA OneMoves ==
    ASSUME DrainTypeOK, RowsInOrder, NEW i \in Items, NEW r,
           Replaced(i, r), Follows(i, r), clock' = clock
    PROVE  RowsMove
<1>1. item' \in [Items -> DrainRow]
    BY DEF DrainTypeOK, Replaced, Follows
<1>2. \A j \in Items : item'[j] = IF j = i THEN r ELSE item[j]
    BY DEF DrainTypeOK, Replaced
<1>3. RowsInOrder'
    BY <1>2 DEF RowsInOrder, Follows
<1>4. \A j \in Items : Onward(item[j], item'[j])
    BY <1>2 DEF Onward, Follows
<1>5. QED
    BY <1>1, <1>3, <1>4 DEF RowsMove

\* A lease of what is due.
LEMMA LeasedMoves ==
    ASSUME DrainTypeOK, RowsInOrder, NEW i \in Items, Due(i), NEW w \in Claimants,
           item' = Leased(i, w), clock' = clock
    PROVE  RowsMove
<1> DEFINE n == item[i].attempts + (IF Kind[i] = "run" THEN 1 ELSE 0)
           r == [status |-> "leased", due |-> clock + 1, owner |-> w, attempts |-> n]
<1>1. item[i] \in DrainRow /\ clock \in Nat
    BY DrainAssumption DEF DrainTypeOK
<1>2. n \in Nat
    BY <1>1 DEF DrainRow
<1>3. item' = [item EXCEPT ![i] = r]
    BY DEF Leased, DrainTypeOK
<1> HIDE DEF n
<1>4. r \in DrainRow
    BY <1>1, <1>2 DEF DrainRow, Statuses
<1>5. r.owner # none
    BY NobodyAssumption
<1>6. item[i].due < r.due
    BY <1>1 DEF Due, DrainRow
<1>7. Onward(item[i], r)
    BY <1>6 DEF Onward, Due, Outstanding
<1> HIDE DEF r
<1>8. r.status = "leased" /\ r.due = clock + 1
    BY DEF r
<1>9. Follows(i, r)
    BY <1>1, <1>4, <1>5, <1>7, <1>8 DEF Follows
<1>10. QED
    BY <1>3, <1>9, OneMoves DEF Replaced

\* The row of an item that is retried.
LEMMA RetriedRow ==
    ASSUME NEW a \in DrainRow, NEW n \in Nat
    PROVE  LET r == [a EXCEPT !.status = "pending", !.owner = none, !.due = n + 1]
           IN  r \in DrainRow /\ r.status = "pending" /\ r.owner = none /\ r.due = n + 1
<1> DEFINE Owners == Claimants \union {none}
           r == [a EXCEPT !.status = "pending", !.owner = none, !.due = n + 1]
<1>1. "pending" \in Statuses /\ none \in Owners /\ n + 1 \in Nat
    BY DEF Statuses
<1>2. a \in [status: Statuses, due: Nat, owner: Owners, attempts: Nat]
    BY DEF DrainRow
<1> HIDE DEF Owners
<1>3. r \in [status: Statuses, due: Nat, owner: Owners, attempts: Nat]
    BY <1>1, <1>2
<1>4. r.status = "pending" /\ r.owner = none /\ r.due = n + 1
    BY <1>2
<1>5. QED
    BY <1>3, <1>4 DEF Owners, DrainRow

\* The outcomes of work on a leased item, or on one that is due.
LEMMA SettledMoves ==
    ASSUME DrainTypeOK, RowsInOrder, NEW i \in Items, Settled(i), clock' = clock,
           item[i].status = "leased" \/ Due(i)
    PROVE  RowsMove /\ faults' \in Nat
<1>1. item[i] \in DrainRow /\ clock \in Nat /\ Outstanding(item[i]) /\ item[i].due <= clock + 1
    BY DrainAssumption DEF DrainTypeOK, RowsInOrder, Due, Outstanding, DrainRow
<1>2. ASSUME item' = Done(i) PROVE RowsMove
    BY <1>1, <1>2, DoneMoves
<1>3. ASSUME item' = Failed(i) PROVE RowsMove
    <2>1. Onward(item[i], [NoItem EXCEPT !.status = "failed"])
        BY <1>1, StatusOfNoItem DEF Onward
    <2>2. Follows(i, [NoItem EXCEPT !.status = "failed"])
        BY <1>1, <2>1, StatusOfNoItem DEF Follows
    <2>3. QED
        BY <1>3, <2>2, OneMoves DEF Failed, Replaced
<1>4. ASSUME item' = Retried(i) PROVE RowsMove
    <2> DEFINE r == [item[i] EXCEPT !.status = "pending", !.owner = none, !.due = clock + 1]
    <2>1. /\ r \in DrainRow
          /\ r.status = "pending" /\ r.owner = none /\ r.due = clock + 1
        BY <1>1, RetriedRow
    <2>2. item' = [item EXCEPT ![i] = r]
        BY <1>4 DEF Retried, DrainTypeOK
    <2> HIDE DEF r
    <2>3. Onward(item[i], r)
        BY <1>1, <2>1 DEF Onward, Outstanding, Due, DrainRow
    <2>4. Follows(i, r)
        BY <1>1, <2>1, <2>3 DEF Follows
    <2>5. QED
        BY <2>2, <2>4, OneMoves DEF Replaced
<1>5. faults' \in Nat
    BY DEF Settled, Completed, Refused, DrainTypeOK
<1>6. QED
    BY <1>2, <1>3, <1>4, <1>5 DEF Settled, Completed, Refused

\* A request.
LEMMA ArrivesMoves ==
    ASSUME DrainTypeOK, RowsInOrder, NEW i \in Items, item[i].status = "absent", clock' = clock,
           item' = [item EXCEPT ![i] = [NoItem EXCEPT !.status = "pending"]]
    PROVE  RowsMove
<1>1. clock \in Nat
    BY DrainAssumption DEF DrainTypeOK
<1>2. Onward(item[i], [NoItem EXCEPT !.status = "pending"])
    BY StatusOfNoItem DEF Onward
<1>3. Follows(i, [NoItem EXCEPT !.status = "pending"])
    BY <1>1, <1>2, StatusOfNoItem DEF Follows
<1>4. QED
    BY <1>3, OneMoves DEF Replaced

-----------------------------------------------------------------------------
(* What a summary says of the rows it counts.                                   *)

\* The items of one kind are finitely many.
LEMMA OfIsFinite ==
    ASSUME NEW k
    PROVE  \A S : S \subseteq Of(k) => IsFiniteSet(S)
<1>1. Of(k) \subseteq Items
    BY DEF Of
<1>2. QED
    BY <1>1, ItemsAssumption, FS_Subset

\* A count of zero counts nothing.
LEMMA CountIsZero ==
    ASSUME NEW k, NEW S \in SUBSET Of(k)
    PROVE  /\ Cardinality(S) \in Nat
           /\ Cardinality(S) = 0 <=> S = {}
<1>1. IsFiniteSet(S)
    BY OfIsFinite
<1>2. QED
    BY <1>1, FS_CardinalityType, FS_EmptySet

\* A summary, read at one moment, is the truth about that moment.
LEMMA SummaryIsTrue ==
    ASSUME DrainTypeOK, NEW k \in Kinds
    PROVE  /\ Summary(k) \in Telling
           /\ Summary(k).work = 0 => Open(k) = {}
           /\ Summary(k).failed = 0 /\ k # "job" => \A i \in Of(k) : item[i].status # "failed"
           /\ Summary(k).claimable > 0 <=> Ready(k) # {}
           /\ \A i \in Sleeping(k) : item[i].due \in Summary(k).wakes
<1> DEFINE failed == CountedAsFailed(k)
           behind == {i \in Open(k) : k = "connector" /\ Blocked(i)}
           wakes == {item[i].due : i \in Sleeping(k)}
<1>1. /\ Open(k) \in SUBSET Of(k) /\ Ready(k) \in SUBSET Of(k) /\ Sleeping(k) \in SUBSET Of(k)
      /\ failed \in SUBSET Of(k) /\ behind \in SUBSET Of(k)
    BY DEF Open, Ready, Sleeping, CountedAsFailed
<1>2. Summary(k) = [work |-> Cardinality(Open(k)), claimable |-> Cardinality(Ready(k)),
                    failed |-> Cardinality(failed), gap |-> Cardinality(behind), wakes |-> wakes]
    BY DEF Summary, Tell
<1>3. /\ Cardinality(Open(k)) \in Nat /\ (Cardinality(Open(k)) = 0 => Open(k) = {})
      /\ Cardinality(Ready(k)) \in Nat /\ (Cardinality(Ready(k)) = 0 <=> Ready(k) = {})
      /\ Cardinality(failed) \in Nat /\ (Cardinality(failed) = 0 => failed = {})
      /\ Cardinality(behind) \in Nat
    BY <1>1, CountIsZero
<1>4. wakes \in SUBSET Nat
    BY <1>1 DEF Of, DrainTypeOK, DrainRow
<1>5. \A i \in Sleeping(k) : item[i].due \in wakes
    OBVIOUS
<1>6. failed = {} /\ k # "job" => \A i \in Of(k) : item[i].status # "failed"
    BY DEF CountedAsFailed
<1> HIDE DEF failed, behind, wakes
<1>7. Summary(k) \in Telling
    BY <1>2, <1>3, <1>4 DEF Telling
<1>8. QED
    BY <1>2, <1>3, <1>5, <1>6, <1>7

\* The earliest of some times comes no later than any of them.
LEMMA EarliestTime ==
    ASSUME NEW S \in SUBSET Nat, S # {}
    PROVE  Min(S) \in S /\ \A n \in S : Min(S) <= n
<1>1. PICK m \in S : \A n \in S : ~(<<n, m>> \in OpToRel(<, Nat))
    BY NatLessThanWellFounded, WFMin, Zenon
<1>2. ASSUME NEW n \in S, n < m PROVE FALSE
    <2>1. n \in Nat /\ m \in Nat
        OBVIOUS
    <2>2. <<n, m>> \in OpToRel(<, Nat)
        BY <1>2, <2>1 DEF OpToRel
    <2>3. QED
        BY <1>1, <2>2
<1>3. \A n \in S : m <= n
    BY <1>2
<1>4. QED
    BY <1>3 DEF Min

-----------------------------------------------------------------------------
(* What the drain was told stays true while others work.                        *)

\* What has not moved after a step had not moved before it.
LEMMA MovedStaysMoved ==
    ASSUME DrainTypeOK, StoodBefore, RowsMove, stood' = stood
    PROVE  /\ StoodBefore'
           /\ \A i \in Items : item'[i] = stood'[i] => item[i] = stood[i] /\ item'[i] = item[i]
           /\ \A i \in Items : Unmoved(i)' => Unmoved(i) /\ item'[i] = item[i]
<1>1. \A i \in Items : item[i] \in DrainRow /\ stood[i] \in DrainRow /\ item'[i] \in DrainRow
    BY DEF DrainTypeOK, RowsMove
<1>2. \A i \in Items : Onward(stood[i], item[i]) /\ Onward(item[i], item'[i])
    BY DEF StoodBefore, RowsMove
<1>3. StoodBefore'
    BY <1>1, <1>2, OnwardTransitive DEF StoodBefore
<1>4. \A i \in Items : item'[i] = stood'[i] => item[i] = stood[i] /\ item'[i] = item[i]
    BY <1>1, <1>2, OnwardAntisymmetric
<1>5. ASSUME NEW i \in Items, Unmoved(i)'
      PROVE  Unmoved(i) /\ item'[i] = item[i]
    <2>1. \A j \in After[i] \union {i} : j \in Items
        BY DrainAssumption
    <2>2. \A j \in After[i] \union {i} : item[j] = stood[j] /\ item'[j] = item[j]
        BY <1>4, <1>5, <2>1 DEF Unmoved
    <2>3. QED
        BY <1>5, <2>2 DEF Unmoved, Blocked
<1>6. QED
    BY <1>3, <1>4, <1>5

\* A step of the peer, of a request, or of time.
LEMMA HeardStays ==
    ASSUME DrainTypeOK, StoodBefore, Heard, SleepsInTime, LeftNothing, RowsMove,
           UNCHANGED <<stood, saw, pc, until, reason>>, clock' \in Nat, clock <= clock'
    PROVE  StoodBefore' /\ Heard' /\ SleepsInTime' /\ LeftNothing'
<1>1. /\ StoodBefore'
      /\ \A i \in Items : item'[i] = stood'[i] => item[i] = stood[i] /\ item'[i] = item[i]
      /\ \A i \in Items : Unmoved(i)' => Unmoved(i) /\ item'[i] = item[i]
    BY MovedStaysMoved
<1>2. ASSUME NEW i \in Items, DoneWith(i) PROVE DoneWith(i)'
    <2>1. item[i] \in DrainRow /\ item'[i] \in DrainRow /\ Onward(item[i], item'[i])
        BY DEF DrainTypeOK, RowsMove
    <2>2. item[i].status \in {"done", "failed"}
        BY <1>2 DEF DoneWith
    <2>3. item'[i].status = item[i].status
        BY <2>1, <2>2, DoneStays
    <2>4. QED
        BY <1>2, <2>3 DEF DoneWith
<1>3. ASSUME NEW k \in Kinds, Told(k)'
      PROVE  (ToldOfWork(k) /\ ToldOfTimes(k) /\ ToldOfClaims(k))'
    <2>1. ToldOfWork(k) /\ ToldOfTimes(k) /\ ToldOfClaims(k)
        BY <1>3 DEF Heard, Told
    <2>2. ToldOfWork(k)'
        BY <1>2, <2>1 DEF ToldOfWork, Of
    <2>3. ToldOfTimes(k)'
        BY <1>1, <2>1 DEF ToldOfTimes, Of
    <2>4. ASSUME item' = stood', (saw[k].claimable > 0)'
          PROVE  (\E i \in Of(k) : Due(i) /\ ~Blocked(i))'
        <3>1. item' = item /\ item = stood
            BY <1>1, <2>4 DEF DrainTypeOK, RowsMove
        <3>2. PICK i \in Of(k) : Due(i) /\ ~Blocked(i)
            BY <2>1, <2>4, <3>1 DEF ToldOfClaims
        <3>3. i \in Items /\ item[i].due \in Nat /\ clock \in Nat
            BY DrainAssumption DEF Of, DrainTypeOK, DrainRow
        <3>4. Due(i)' /\ ~Blocked(i)'
            BY <3>1, <3>2, <3>3 DEF Due, Blocked
        <3>5. QED
            BY <3>2, <3>4 DEF Of
    <2>5. QED
        BY <2>2, <2>3, <2>4 DEF ToldOfClaims
<1>4. SleepsInTime'
    BY <1>1 DEF SleepsInTime
<1>5. LeftNothing'
    BY <1>2 DEF LeftNothing
<1>6. QED
    BY <1>1, <1>3, <1>4, <1>5 DEF Heard

-----------------------------------------------------------------------------
(* The steps.                                                                   *)

\* A step of the drain while it claims or works: it has been told nothing.
LEMMA ClaimingStep ==
    ASSUME DrainInv, RowsMove, UNCHANGED <<clock, saw, until, reason, stood>>, reason = none,
           pc' \in {"event", "connector", "run", "work"}, pc' = "work" => held' \in Items,
           faults' \in Nat
    PROVE  DrainInv'
<1>1. StoodBefore'
    BY MovedStaysMoved DEF DrainInv
<1>2. DrainTypeOK'
    BY DEF DrainInv, DrainTypeOK, RowsMove, Kinds
<1>3. Heard' /\ SleepsInTime'
    BY DEF Heard, Told, SleepsInTime
<1>4. LeftNothing'
    BY NobodyAssumption DEF LeftNothing, Endings
<1>5. QED
    BY <1>1, <1>2, <1>3, <1>4 DEF DrainInv, RowsMove

\* The rows stand still.
LEMMA RowsStand ==
    ASSUME DrainTypeOK, RowsInOrder, item' = item, clock' \in Nat, clock <= clock'
    PROVE  RowsMove
<1>1. \A i \in Items : item[i].due \in Nat /\ clock \in Nat
    BY DrainAssumption DEF DrainTypeOK, DrainRow
<1>2. QED
    BY <1>1 DEF RowsMove, DrainTypeOK, RowsInOrder, Onward

\* The drain claims an item of a queue.
LEMMA ClaimStep ==
    ASSUME DrainInv, NEW k \in Kinds, claim(k)
    PROVE  DrainInv'
<1>1. pc = k /\ UNCHANGED <<clock, saw, until, reason, stood>>
    BY DEF claim
<1>2. reason = none
    BY <1>1 DEF DrainInv, DrainTypeOK, Kinds
<1>3. PICK i \in Of(k) :
        /\ Claimable(i)
        /\ IF k = "connector"
           THEN Settled(i) /\ pc' \in {"event", "run"} /\ UNCHANGED held
           ELSE /\ item' = Leased(i, "drain")
                /\ held' = i
                /\ pc' = "work"
                /\ UNCHANGED faults
    BY DEF claim, Settled
<1>4. i \in Items /\ Due(i)
    BY <1>3 DEF Of, Claimable
<1>5. CASE k = "connector"
    <2>1. RowsMove /\ faults' \in Nat
        BY <1>1, <1>3, <1>4, <1>5, SettledMoves DEF DrainInv
    <2>2. QED
        BY <1>1, <1>2, <1>3, <1>5, <2>1, ClaimingStep
<1>6. CASE k # "connector"
    <2>1. "drain" \in Claimants
        BY DEF Claimants
    <2>2. RowsMove
        BY <1>1, <1>3, <1>4, <1>6, <2>1, LeasedMoves DEF DrainInv
    <2>3. faults' \in Nat
        BY <1>3, <1>6 DEF DrainInv, DrainTypeOK
    <2>4. QED
        BY <1>1, <1>2, <1>3, <1>4, <1>6, <2>2, <2>3, ClaimingStep
<1>7. QED
    BY <1>5, <1>6

\* The drain is done with what it claimed, one way or the other.
LEMMA FinishStep ==
    ASSUME DrainInv, finish
    PROVE  DrainInv'
<1>1. /\ pc = "work" /\ pc' \in {"event", "connector"}
      /\ UNCHANGED <<clock, saw, until, reason, stood>>
    BY DEF finish
<1>2. reason = none /\ held \in Items
    BY <1>1 DEF DrainInv, DrainTypeOK
<1>3. RowsMove /\ faults' \in Nat
    <2>1. ASSUME item[held].owner = "drain", Settled(held)
          PROVE  RowsMove /\ faults' \in Nat
        <3>1. item[held].status = "leased"
            BY <1>2, <2>1, NobodyAssumption DEF DrainInv, RowsInOrder, Claimants
        <3>2. QED
            BY <1>1, <1>2, <2>1, <3>1, SettledMoves DEF DrainInv
    <2>2. ASSUME Lost(held, "drain")
          PROVE  RowsMove /\ faults' \in Nat
        <3>1. clock \in Nat
            BY DrainAssumption DEF DrainInv, DrainTypeOK
        <3>2. QED
            BY <1>1, <2>2, <3>1, RowsStand DEF DrainInv, DrainTypeOK, Lost
    <2>3. QED
        BY <2>1, <2>2 DEF finish
<1>4. QED
    BY <1>1, <1>2, <1>3, ClaimingStep

\* A queue has nothing to claim, and the drain turns to the next or begins to read.
LEMMA ClaimNothingStep ==
    ASSUME DrainInv, NEW k \in Kinds, claimNothing(k)
    PROVE  DrainInv'
<1>1. /\ pc = k /\ pc' \in {"connector", "run", "job", "readEvent"}
      /\ UNCHANGED <<item, clock, held, saw, until, reason, faults>>
      /\ stood' = item \/ stood' = stood
    BY DEF claimNothing, Kinds, NextQueue
<1>2. reason = none
    BY <1>1 DEF DrainInv, DrainTypeOK, Kinds
<1>3. DrainTypeOK'
    BY <1>1 DEF DrainInv, DrainTypeOK, Kinds
<1>4. RowsInOrder' /\ StoodBefore'
    BY <1>1 DEF DrainInv, RowsInOrder, StoodBefore, Onward
<1>5. Heard' /\ SleepsInTime'
    BY <1>1 DEF Heard, Told, SleepsInTime
<1>6. LeftNothing'
    BY <1>1, <1>2, NobodyAssumption DEF LeftNothing, Endings
<1>7. QED
    BY <1>3, <1>4, <1>5, <1>6 DEF DrainInv

\* What was told of the other queues is still true, what is told now is.
LEMMA SummarizeStep ==
    ASSUME DrainInv, NEW k \in Kinds, NEW here, NEW next,
           summarize(k, here, next),
           here \in {"readEvent", "readJob", "readRun", "readConnector"},
           next \in {"readJob", "readRun", "readConnector", "decide"},
           \A q \in Kinds : Told(q)' => q = k \/ Told(q)
    PROVE  DrainInv'
<1>1. /\ pc = here /\ pc' = next /\ saw' = [saw EXCEPT ![k] = Summary(k)]
      /\ UNCHANGED <<item, clock, held, until, reason, stood, faults>>
    BY DEF summarize
<1>2. reason = none
    BY <1>1 DEF DrainInv, DrainTypeOK
<1>3. /\ Summary(k) \in Telling
      /\ Summary(k).work = 0 => Open(k) = {}
      /\ Summary(k).failed = 0 /\ k # "job" => \A i \in Of(k) : item[i].status # "failed"
      /\ Summary(k).claimable > 0 <=> Ready(k) # {}
      /\ \A i \in Sleeping(k) : item[i].due \in Summary(k).wakes
    BY SummaryIsTrue DEF DrainInv
<1>4. DrainTypeOK'
    BY <1>1, <1>3 DEF DrainInv, DrainTypeOK
<1>5. RowsInOrder' /\ StoodBefore'
    BY <1>1 DEF DrainInv, RowsInOrder, StoodBefore
<1>6. saw' \in [Kinds -> Telling] /\ \A q \in Kinds : saw'[q] = IF q = k THEN Summary(k) ELSE saw[q]
    BY <1>1, <1>3 DEF DrainInv, DrainTypeOK
<1>7. ASSUME NEW q \in Kinds, Told(q)'
      PROVE  (ToldOfWork(q) /\ ToldOfTimes(q) /\ ToldOfClaims(q))'
    <2>1. CASE q # k
        <3>1. ToldOfWork(q) /\ ToldOfTimes(q) /\ ToldOfClaims(q)
            BY <1>7, <2>1 DEF DrainInv, Heard
        <3>2. saw'[q] = saw[q]
            BY <1>6, <2>1
        <3>3. QED
            BY <1>1, <3>1, <3>2
               DEF ToldOfWork, ToldOfTimes, ToldOfClaims, Unmoved, Blocked, Due, DoneWith
    <2>2. CASE q = k
        <3>1. saw'[k] = Summary(k)
            BY <1>6
        <3>2. ASSUME saw'[k].work = 0, saw'[k].failed = 0, NEW i \in Of(k),
                     stood[i].status # "absent"
              PROVE  DoneWith(i)
            <4>1. i \in Items /\ item[i] \in DrainRow /\ Onward(stood[i], item[i])
                BY DEF Of, DrainInv, DrainTypeOK, StoodBefore
            <4>2. ~Outstanding(item[i]) /\ (Kind[i] # "job" => item[i].status # "failed")
                BY <1>3, <3>1, <3>2 DEF Open, Of
            <4>3. item[i].status # "absent"
                BY <3>2, <4>1 DEF Onward, Outstanding
            <4>4. QED
                BY <4>1, <4>2, <4>3 DEF Outstanding, DrainRow, Statuses, DoneWith
        <3>3. ASSUME NEW i \in Of(k), Unmoved(i)
              PROVE  saw'[k].claimable > 0 \/ item[i].due \in saw'[k].wakes
            <4>1. i \in Open(k)
                BY <3>3 DEF Unmoved, Open
            <4>2. item[i].due \in Nat /\ clock \in Nat
                BY DrainAssumption DEF Of, DrainInv, DrainTypeOK, DrainRow
            <4>3. CASE item[i].due <= clock
                BY <1>3, <3>1, <3>3, <4>1, <4>3 DEF Ready, Due, Unmoved
            <4>4. CASE item[i].due > clock
                BY <1>3, <3>1, <3>3, <4>1, <4>4 DEF Sleeping, Waking, Unmoved
            <4>5. QED
                BY <4>2, <4>3, <4>4
        <3>4. ASSUME saw'[k].claimable > 0
              PROVE  \E i \in Of(k) : Due(i) /\ ~Blocked(i)
            BY <1>3, <3>1, <3>4 DEF Ready, Open
        <3>5. QED
            BY <1>1, <2>2, <3>2, <3>3, <3>4
               DEF ToldOfWork, ToldOfTimes, ToldOfClaims, Unmoved, Blocked, Due, DoneWith
    <2>3. QED
        BY <2>1, <2>2
<1>8. SleepsInTime'
    BY <1>1 DEF SleepsInTime
<1>9. LeftNothing'
    BY <1>1, <1>2, NobodyAssumption DEF LeftNothing, Endings
<1>10. QED
    BY <1>4, <1>5, <1>7, <1>8, <1>9 DEF DrainInv, Heard

\* QUIESCENT is said only when no summary counts work, or a failure.
LEMMA QuiescentVerdict ==
    ASSUME DrainTypeOK, Verdict = "QUIESCENT", NEW k \in Kinds
    PROVE  saw[k].work = 0 /\ saw[k].failed = 0
<1>1. \A q \in Kinds : saw[q].failed \in Nat
    BY DEF DrainTypeOK, Telling
<1>2. /\ ~(saw["event"].failed + saw["job"].failed > 0)
      /\ ~(saw["connector"].failed > 0) /\ ~(saw["run"].failed > 0)
      /\ \A q \in Kinds : saw[q].work = 0
    BY NobodyAssumption DEF Verdict, Endings
<1>3. /\ saw["event"].failed \in Nat /\ saw["job"].failed \in Nat
      /\ saw["connector"].failed \in Nat /\ saw["run"].failed \in Nat
    BY <1>1 DEF Kinds
<1>4. /\ saw["event"].failed = 0 /\ saw["job"].failed = 0
      /\ saw["connector"].failed = 0 /\ saw["run"].failed = 0
    BY <1>2, <1>3
<1>5. QED
    BY <1>2, <1>4 DEF Kinds

\* The times of all summaries, and the deadline.
LEMMA WakesAreTimes ==
    ASSUME DrainTypeOK
    PROVE  Wakes \union {Deadline} \in SUBSET Nat
BY DrainAssumption DEF Wakes, DrainTypeOK, Telling

\* From its four summaries the drain draws a verdict, a time to wake, or another round.
LEMMA DecideStep ==
    ASSUME DrainInv, decide
    PROVE  DrainInv'
<1>1. /\ pc = "decide" /\ reason' = Verdict /\ saw' = Unseen
      /\ UNCHANGED <<item, clock, held, faults>>
      /\ \/ /\ pc' = "ended" /\ Verdict # none /\ UNCHANGED <<until, stood>>
         \/ /\ pc' = "event" /\ Verdict = none /\ stood' = NoRows /\ UNCHANGED until
         \/ /\ pc' = "wait" /\ Verdict = none /\ UNCHANGED stood
            /\ \A k \in Kinds : saw[k].claimable = 0
            /\ until' = Min(Wakes \union {Deadline})
    BY DEF decide
<1>2. \A k \in Kinds : ToldOfWork(k) /\ ToldOfTimes(k)
    BY <1>1 DEF DrainInv, Heard, Told
<1>3. Verdict \in Endings \union {none}
    BY DEF Verdict, Endings
<1>4. /\ Min(Wakes \union {Deadline}) \in Nat
      /\ \A n \in Wakes \union {Deadline} : Min(Wakes \union {Deadline}) <= n
    BY WakesAreTimes, EarliestTime DEF DrainInv
<1>5. NoRows \in [Items -> DrainRow]
    BY NoItemIsRow DEF NoRows
<1>6. Unseen \in [Kinds -> Telling]
    <2>1. NoSummary \in Telling
        BY DEF NoSummary, Telling
    <2>2. QED
        BY <2>1 DEF Unseen
<1>7. DrainTypeOK'
    <2>1. until' \in Nat
        BY <1>1, <1>4 DEF DrainInv, DrainTypeOK
    <2>2. stood' \in [Items -> DrainRow]
        BY <1>1, <1>5 DEF DrainInv, DrainTypeOK
    <2>3. /\ pc' \in {"ended", "event", "wait"}
          /\ reason' # none => pc' = "ended"
        BY <1>1
    <2>4. QED
        BY <1>1, <1>3, <1>6, <2>1, <2>2, <2>3 DEF DrainInv, DrainTypeOK, Kinds
<1>8. RowsInOrder' /\ StoodBefore'
    <2>1. ASSUME NEW i \in Items
          PROVE  Onward(NoRows[i], item[i])
        <3>1. NoRows[i].status = "absent" /\ (item[i].status = "absent" => item[i] = NoRows[i])
            BY NoItemIsRow DEF NoRows, DrainInv, RowsInOrder
        <3>2. QED
            BY <3>1 DEF Onward
    <2>2. QED
        BY <1>1, <2>1 DEF DrainInv, RowsInOrder, StoodBefore
<1>9. Heard'
    BY <1>1 DEF Heard, Told
<1>10. SleepsInTime'
    <2>1. ASSUME pc' = "wait", NEW i \in Items, Unmoved(i)'
          PROVE  (until <= item[i].due)'
        <3>1. Unmoved(i) /\ \A k \in Kinds : saw[k].claimable = 0
            BY <1>1, <2>1 DEF Unmoved, Blocked
        <3>2. Kind[i] \in Kinds /\ i \in Of(Kind[i])
            BY DrainAssumption DEF Of
        <3>3. item[i].due \in saw[Kind[i]].wakes
            BY <1>2, <3>1, <3>2 DEF ToldOfTimes
        <3>4. item[i].due \in Wakes
            BY <3>2, <3>3 DEF Wakes
        <3>5. QED
            BY <1>1, <1>4, <2>1, <3>4
    <2>2. QED
        BY <2>1 DEF SleepsInTime
<1>11. LeftNothing'
    <2>1. ASSUME Verdict = "QUIESCENT", NEW i \in Items, stood[i].status # "absent"
          PROVE  DoneWith(i)
        <3>1. Kind[i] \in Kinds /\ i \in Of(Kind[i])
            BY DrainAssumption DEF Of
        <3>2. saw[Kind[i]].work = 0 /\ saw[Kind[i]].failed = 0
            BY <2>1, <3>1, QuiescentVerdict DEF DrainInv
        <3>3. QED
            BY <1>2, <2>1, <3>1, <3>2 DEF ToldOfWork
    <2>2. Verdict = "QUIESCENT" => stood' = stood
        BY <1>1, NobodyAssumption DEF Endings
    <2>3. QED
        BY <1>1, <2>1, <2>2 DEF LeftNothing, DoneWith
<1>12. QED
    BY <1>7, <1>8, <1>9, <1>10, <1>11 DEF DrainInv

\* The drain sleeps, and begins again.
LEMMA WaitStep ==
    ASSUME DrainInv, waitUntil
    PROVE  DrainInv'
<1>1. /\ pc = "wait" /\ pc' = "event" /\ until' = 0 /\ stood' = NoRows
      /\ UNCHANGED <<item, clock, held, saw, reason, faults>>
    BY DEF waitUntil
<1>2. reason = none
    BY <1>1 DEF DrainInv, DrainTypeOK
<1>3. NoRows \in [Items -> DrainRow]
    BY NoItemIsRow DEF NoRows
<1>4. DrainTypeOK'
    BY <1>1, <1>2, <1>3 DEF DrainInv, DrainTypeOK, Kinds
<1>5. ASSUME NEW i \in Items
      PROVE  Onward(NoRows[i], item[i])
    <2>1. NoRows[i].status = "absent" /\ (item[i].status = "absent" => item[i] = NoRows[i])
        BY NoItemIsRow DEF NoRows, DrainInv, RowsInOrder
    <2>2. QED
        BY <2>1 DEF Onward
<1>6. RowsInOrder' /\ StoodBefore'
    BY <1>1, <1>5 DEF DrainInv, RowsInOrder, StoodBefore
<1>7. Heard' /\ SleepsInTime'
    BY <1>1 DEF Heard, Told, SleepsInTime
<1>8. LeftNothing'
    BY <1>1, <1>2, NobodyAssumption DEF LeftNothing, Endings
<1>9. QED
    BY <1>4, <1>6, <1>7, <1>8 DEF DrainInv

\* A step of another moves the rows forward and changes nothing of the drain's.
LEMMA OthersStep ==
    ASSUME DrainInv, RowsMove, Others, faults' \in Nat
    PROVE  DrainInv'
<1>1. UNCHANGED <<clock, pc, held, saw, until, reason, stood>>
    BY DEF Others
<1>2. clock' \in Nat /\ clock <= clock'
    BY <1>1, DrainAssumption DEF DrainInv, DrainTypeOK
<1>3. StoodBefore' /\ Heard' /\ SleepsInTime' /\ LeftNothing'
    BY <1>1, <1>2, HeardStays DEF DrainInv
<1>4. DrainTypeOK' /\ RowsInOrder'
    BY <1>1 DEF DrainInv, DrainTypeOK, RowsMove
<1>5. QED
    BY <1>3, <1>4 DEF DrainInv

\* The peer takes or settles an item, or a request brings one.
LEMMA PeerStep ==
    ASSUME DrainInv, NEW i \in Items, PeerTakes(i) \/ PeerSettles(i) \/ Arrives(i)
    PROVE  DrainInv'
<1>1. Others /\ clock' = clock
    BY DEF PeerTakes, PeerSettles, Arrives, Others
<1>2. "peer" \in Claimants
    BY DEF Claimants
<1>3. ASSUME PeerTakes(i) PROVE RowsMove /\ faults' \in Nat
    <2>1. Due(i)
        BY <1>3 DEF PeerTakes, Claimable
    <2>2. CASE Kind[i] = "connector"
        BY <1>1, <1>3, <2>1, <2>2, SettledMoves DEF PeerTakes, DrainInv
    <2>3. CASE Kind[i] # "connector"
        BY <1>1, <1>2, <1>3, <2>1, <2>3, LeasedMoves DEF PeerTakes, DrainInv, DrainTypeOK
    <2>4. QED
        BY <2>2, <2>3
<1>4. ASSUME PeerSettles(i) PROVE RowsMove /\ faults' \in Nat
    BY <1>1, <1>4, SettledMoves DEF PeerSettles, DrainInv
<1>5. ASSUME Arrives(i) PROVE RowsMove /\ faults' \in Nat
    BY <1>1, <1>5, ArrivesMoves DEF Arrives, DrainInv, DrainTypeOK
<1>6. QED
    BY <1>1, <1>3, <1>4, <1>5, OthersStep

\* Time passes.
LEMMA TickStep ==
    ASSUME DrainInv, Tick
    PROVE  DrainInv'
<1>1. /\ clock < MaxClock /\ clock' = clock + 1
      /\ UNCHANGED <<item, pc, held, saw, until, reason, stood, faults>>
    BY DEF Tick
<1>2. clock' \in 0 .. MaxClock /\ clock' \in Nat /\ clock <= clock'
    BY <1>1, DrainAssumption DEF DrainInv, DrainTypeOK
<1>3. RowsMove
    BY <1>1, <1>2, RowsStand DEF DrainInv
<1>4. StoodBefore' /\ Heard' /\ SleepsInTime' /\ LeftNothing'
    BY <1>1, <1>2, <1>3, HeardStays DEF DrainInv
<1>5. DrainTypeOK' /\ RowsInOrder'
    BY <1>1, <1>2, <1>3 DEF DrainInv, DrainTypeOK, RowsMove
<1>6. QED
    BY <1>4, <1>5 DEF DrainInv

\* The drain starts with what is there, told nothing.
LEMMA DrainStarts == DrainInit => DrainInv
<1> SUFFICES ASSUME DrainInit PROVE DrainInv
    OBVIOUS
<1>1. /\ clock = 0 /\ pc = "event" /\ saw = Unseen /\ until = 0 /\ reason = none
      /\ stood = NoRows /\ faults = 0
      /\ \A i \in Items : item[i] = NoItem \/ item[i] = [NoItem EXCEPT !.status = "pending"]
    BY DEF DrainInit
<1>2. \A i \in Items : /\ item[i] \in DrainRow /\ item[i].owner = none /\ item[i].due = 0
                       /\ item[i].status \in {"absent", "pending"}
                       /\ item[i].status = "absent" => item[i] = NoItem
    BY <1>1, NoItemIsRow, StatusOfNoItem
<1>3. item \in [Items -> DrainRow]
    <2>1. item = [i \in Items |-> item[i]]
        BY DEF DrainInit
    <2>2. QED
        BY <1>2, <2>1
<1>4. NoRows \in [Items -> DrainRow] /\ \A i \in Items : NoRows[i].status = "absent" /\ NoRows[i] = NoItem
    BY NoItemIsRow DEF NoRows
<1>5. Unseen \in [Kinds -> Telling]
    <2>1. NoSummary \in Telling
        BY DEF NoSummary, Telling
    <2>2. QED
        BY <2>1 DEF Unseen
<1>6. DrainTypeOK
    BY <1>1, <1>3, <1>4, <1>5, DrainAssumption DEF DrainTypeOK, Kinds
<1>7. RowsInOrder /\ StoodBefore
    BY <1>1, <1>2, <1>4 DEF RowsInOrder, StoodBefore, Onward
<1>8. Heard /\ SleepsInTime /\ LeftNothing
    BY <1>1, NobodyAssumption DEF Heard, Told, SleepsInTime, LeftNothing, Endings
<1>9. QED
    BY <1>6, <1>7, <1>8 DEF DrainInv

\* Every step of anybody keeps what the drain was told.
LEMMA DrainInvStep == DrainInv /\ [DrainNext]_drainVars => DrainInv'
<1> SUFFICES ASSUME DrainInv, [DrainNext]_drainVars PROVE DrainInv'
    OBVIOUS
<1>1. ASSUME Summarize PROVE DrainInv'
    <2>1. ASSUME summarize("event", "readEvent", "readJob") PROVE DrainInv'
        <3>1. \A q \in Kinds : Told(q)' => q = "event" \/ Told(q)
            BY <2>1 DEF summarize, Told
        <3>2. QED
            BY <2>1, <3>1, SummarizeStep DEF Kinds
    <2>2. ASSUME summarize("job", "readJob", "readRun") PROVE DrainInv'
        <3>1. \A q \in Kinds : Told(q)' => q = "job" \/ Told(q)
            BY <2>2 DEF summarize, Told
        <3>2. QED
            BY <2>2, <3>1, SummarizeStep DEF Kinds
    <2>3. ASSUME summarize("run", "readRun", "readConnector") PROVE DrainInv'
        <3>1. \A q \in Kinds : Told(q)' => q = "run" \/ Told(q)
            BY <2>3 DEF summarize, Told, Kinds
        <3>2. QED
            BY <2>3, <3>1, SummarizeStep DEF Kinds
    <2>4. ASSUME summarize("connector", "readConnector", "decide") PROVE DrainInv'
        <3>1. \A q \in Kinds : Told(q)' => q = "connector" \/ Told(q)
            BY <2>4 DEF summarize, Told
        <3>2. QED
            BY <2>4, <3>1, SummarizeStep DEF Kinds
    <2>5. QED
        BY <1>1, <2>1, <2>2, <2>3, <2>4 DEF Summarize
<1>2. ASSUME UNCHANGED drainVars PROVE DrainInv'
    BY <1>2 DEF drainVars, DrainInv, DrainTypeOK, RowsInOrder, StoodBefore, Heard, Told, ToldOfWork,
                ToldOfTimes, ToldOfClaims, Unmoved, Blocked, Due, SleepsInTime, LeftNothing,
                DoneWith
<1>3. QED
    BY <1>1, <1>2, ClaimStep, ClaimNothingStep, FinishStep, DecideStep, WaitStep, PeerStep, TickStep
       DEF DrainNext, Drain

-----------------------------------------------------------------------------
(* The theorems.                                                                *)

\* At every moment, with any number of items: rows only move forward, and what
\* the drain has been told by its summaries is true of what has not moved since.
THEOREM DrainInvHolds == DrainSpec => []DrainInv
BY DrainStarts, DrainInvStep, PTL DEF DrainSpec

\* A drain that ends QUIESCENT has left no work behind of what stood when it
\* began to read, although it read four moments and a peer worked between them;
\* and of what stood only ingest jobs have failed, which its summaries do not
\* count.
THEOREM QuiescentHolds == DrainSpec => []QuiescentLeftNothing
<1>1. DrainInv => QuiescentLeftNothing
    <2> SUFFICES ASSUME DrainInv PROVE QuiescentLeftNothing
        OBVIOUS
    <2>1. ASSUME NEW i \in Items PROVE RowOK(item[i])
        <3>1. item[i] \in DrainRow /\ item[i].due <= clock + 1 /\ clock \in 0 .. MaxClock
            BY DEF DrainInv, DrainTypeOK, RowsInOrder
        <3>2. item[i].due \in 0 .. MaxClock + 1
            BY <3>1, DrainAssumption DEF DrainRow
        <3>3. item[i].status = "leased" <=> item[i].owner # none
            BY DEF DrainInv, RowsInOrder
        <3>4. QED
            BY <3>1, <3>2, <3>3 DEF RowOK, DrainRow, Statuses
    <2>2. QED
        BY <2>1 DEF DrainInv, LeftNothing, QuiescentLeftNothing
<1>2. QED
    BY <1>1, DrainInvHolds, PTL

\* The drain never sleeps past work it knew of.
THEOREM NeverOversleepsHolds == DrainSpec => []NeverOversleeps
<1>1. DrainInv => NeverOversleeps
    <2> SUFFICES ASSUME DrainInv, pc = "wait", NEW i \in Items,
                        \A j \in After[i] \union {i} : item[j] = stood[j], Claimable(i)
                 PROVE  clock >= until
        BY DEF NeverOversleeps
    <2>1. Unmoved(i) /\ item[i].due <= clock
        BY DEF Unmoved, Claimable, Due
    <2>2. until <= item[i].due
        BY <2>1 DEF DrainInv, SleepsInTime
    <2>3. item[i].due \in Nat /\ until \in Nat /\ clock \in Nat
        BY DrainAssumption DEF DrainInv, DrainTypeOK, DrainRow
    <2>4. QED
        BY <2>1, <2>2, <2>3
<1>2. QED
    BY <1>1, DrainInvHolds, PTL

\* The drain goes round again only for work that is there, unless somebody has
\* moved since it began to read or a run has used up its attempts.
THEOREM LoopsForWorkHolds == DrainSpec => LoopsForWork
<1> DEFINE Reason == \/ \E i \in Items : Claimable(i)
                     \/ item # stood
                     \/ \E i \in Of("run") : Due(i) /\ item[i].attempts >= RunAttempts
<1>1. DrainInv /\ [DrainNext]_drainVars => [(pc = "decide" /\ pc' = "event") => Reason]_drainVars
    <2> SUFFICES ASSUME DrainInv, DrainNext, pc = "decide", pc' = "event", item = stood
                 PROVE  Reason
        BY DEF drainVars
    <2>1. decide
        BY DEF DrainNext, Drain, claim, claimNothing, finish, Summarize, summarize, waitUntil,
               PeerTakes, PeerSettles, Arrives, Others, Tick, Kinds
    <2>2. PICK k \in Kinds : saw[k].claimable > 0
        BY <2>1 DEF decide
    <2>3. PICK i \in Of(k) : Due(i) /\ ~Blocked(i)
        BY <2>2 DEF DrainInv, Heard, Told, ToldOfClaims
    <2>4. i \in Items /\ Kind[i] = k /\ item[i].attempts \in Nat /\ RunAttempts \in Nat
        BY DrainAssumption DEF Of, DrainInv, DrainTypeOK, DrainRow
    <2>5. CASE k = "run" /\ item[i].attempts >= RunAttempts
        BY <2>3, <2>5
    <2>6. CASE ~(k = "run" /\ item[i].attempts >= RunAttempts)
        <3>1. Claimable(i)
            BY <2>3, <2>4, <2>6 DEF Claimable
        <3>2. QED
            BY <2>4, <3>1
    <2>7. QED
        BY <2>5, <2>6
<1>2. QED
    BY <1>1, DrainInvHolds, PTL DEF DrainSpec, LoopsForWork

-----------------------------------------------------------------------------
(***************************************************************************)
(* 2. The projections.                                                     *)
(***************************************************************************)

\* A merge that is not finalized may still be compensated by a commit.
Kept == IF publishing THEN 1 ELSE 0

\* The merges still allowed leave room for their commits.
RoomToPublish ==
  /\ publications \in 0 .. MaxPublications
  /\ HEAD + 2 * publications + Kept <= 1 + 2 * MaxPublications
  /\ publishing => HEAD > 1

\* An event tells what its commit did to the path; the newest commit has none
\* until its publication is finalized.
EventsOfCommits ==
  /\ \A r \in Revisions : event[r] # Unpublished =>
       /\ r <= HEAD
       /\ event[r].operation = "DELETE" <=> main[r][event[r].path] = 0
  /\ publishing => event[HEAD] = Unpublished

\* Whoever works on an event is alone in it, and the event is open.  The
\* operator works only once a rebuild was asked for.
TasksHaveEvents ==
  /\ \A w \in Indexers : work[w] # Idle =>
       /\ event[work[w].revision].status = "open"
       /\ work[w].vault = VaultOf[event[work[w].revision].path]
  /\ \A w, o \in Indexers :
       work[w] # Idle /\ work[o] # Idle /\ work[w].revision = work[o].revision => w = o
  /\ work[Operator] # Idle => rebuilt /\ work[Operator].at \in OperatorPhases

JournalInv == IndexTypeOK /\ RoomToPublish /\ EventsOfCommits /\ TasksHaveEvents

-----------------------------------------------------------------------------

Started(r) == run[r] # "none"

VaultOfRevision(r) == VaultOf[event[r].path]

\* What was started has an event, and only what was started leaves traces.
TracesOfStarted ==
  \A r \in Revisions :
    /\ Started(r) => event[r] # Unpublished
    /\ ~Started(r) => unit[r] = NoFiles
    /\ \A p \in Paths : unit[r][p] # 0 => VaultOf[p] = VaultOfRevision(r)
    /\ run[r] = "COMPLETED" => marker[VaultOfRevision(r)] >= r
    /\ event[r].status = "done" /\ r \notin skipped => run[r] = "COMPLETED"

MarkersOfStarted ==
  \A v \in Vaults : marker[v] # 0 => Started(marker[v]) /\ VaultOfRevision(marker[v]) = v

\* The worker has found main where its event left it and indexes that revision.
Indexing(w) ==
  /\ work[w] # Idle
  /\ work[w].at # "taken"
  /\ work[w].at = "acknowledging" => work[w].revision \notin skipped

\* A worker starts what was main's head, so nothing newer has been started.
NewestIsIndexed ==
  /\ \A r \in skipped : r < HEAD
  /\ \A w \in Indexers : Indexing(w) =>
       /\ work[w].revision \notin skipped
       /\ \A s \in Revisions : Started(s) => s <= work[w].revision

\* The last started change of its path, whose structure is complete.
Clean(r) ==
  /\ Started(r)
  /\ \A s \in Revisions : s > r /\ Started(s) => event[s].path # event[r].path
  /\ run[r] = "COMPLETED" \/ marker[VaultOfRevision(r)] = r

\* A clean change is what readers find, and what the next snapshot clones.
CleanIsServed ==
  \A r \in Revisions : Clean(r) =>
    LET p == event[r].path
        m == marker[VaultOf[p]]
    IN  /\ document[p] = main[r][p]
        /\ relation[p] = main[r][p]
        /\ m # 0 /\ unit[m][p] = main[r][p]
        /\ \A s \in Revisions : s > m => unit[s][p] \in {0, main[r][p]}

\* The snapshot of revision r holds the documents that are known to be right.
SnapshotHolds(r) ==
  /\ unit[r][event[r].path] = main[r][event[r].path]
  /\ \A s \in Revisions : Clean(s) /\ VaultOfRevision(s) = VaultOfRevision(r) =>
       unit[r][event[s].path] = main[s][event[s].path]

\* What the worker has got done, phase by phase.
Progress(w) ==
  LET r == work[w].revision
      p == event[r].path
      at == work[w].at
  IN  /\ at \in WorkerPhases \ {"taken", "starting", "acknowledging"} => run[r] \in {"RUNNING", "COMPLETED"}
      /\ at = "acknowledging" => r \in skipped \/ run[r] = "COMPLETED"
      /\ at \in {"synchronizing", "collecting", "writing"} => work[w].full = (marker[work[w].vault] = 0)
      /\ at \in {"synchronizing", "collecting", "writing", "relating", "linking"} => marker[work[w].vault] # r
      /\ at \in {"collecting", "writing", "relating", "linking", "marking"} => document[p] = main[r][p]
      /\ at \in {"writing", "linking"} => work[w].seen = document
      /\ at \in {"relating", "linking", "marking"} => SnapshotHolds(r)
      /\ at = "marking" => relation[p] = main[r][p]
      /\ at = "completing" => marker[work[w].vault] = r

ProgressInv == \A w \in Indexers : work[w] # Idle => Progress(w)

ServedInv ==
  TracesOfStarted /\ MarkersOfStarted /\ NewestIsIndexed /\ CleanIsServed /\ ProgressInv

IndexInv == JournalInv /\ (~rebuilt => ServedInv)

\* The deployment runs one worker (docker-compose.team-node.yml).
OneIndexer == \A w, o \in Indexers : w = o

-----------------------------------------------------------------------------
(* The tasks of the processes.                                                  *)

\* A process that stands at a phase has a task.
LEMMA BusyHasTask ==
  ASSUME IndexTypeOK, NEW w \in Processes
  PROVE  /\ work[w] # Idle => work[w] \in Task
         /\ work[w].at # "idle" => work[w] # Idle
         /\ \A o \in Indexers : o \in Processes /\ o # Operator
         /\ Operator \in Processes
BY OperatorAssumption DEF IndexTypeOK, Idle, Processes

\* What a task is made of.
LEMMA TaskIsBusy ==
  ASSUME NEW t \in Task
  PROVE  t # Idle /\ t.at # "idle" /\ t.at \in WorkerPhases /\ t.revision \in Revisions
         /\ t.vault \in Vaults /\ t.full \in BOOLEAN /\ t.seen \in Files
BY DEF Task, Idle, WorkerPhases

\* Process w goes on to phase at with what it has; the others stand still.
GoesOn(w, at) ==
  /\ work' \in [Processes -> Task \cup {Idle}]
  /\ work'[w] \in Task
  /\ work'[w].at = at
  /\ work'[w].revision = work[w].revision
  /\ work'[w].vault = work[w].vault
  /\ \A o \in Processes \ {w} : work'[o] = work[o]

\* A process that moves on keeps its task.
LEMMA MoveGoesOn ==
  ASSUME IndexTypeOK, NEW w \in Processes, work[w] # Idle, NEW at \in WorkerPhases, MoveTo(w, at)
  PROVE  GoesOn(w, at) /\ work'[w].full = work[w].full /\ work'[w].seen = work[w].seen
<1> DEFINE x == [work[w] EXCEPT !.at = at]
<1>1. work[w] \in Task /\ work \in [Processes -> Task \cup {Idle}]
  BY BusyHasTask DEF IndexTypeOK
<1>2. /\ x \in Task /\ x.at = at /\ x.revision = work[w].revision /\ x.vault = work[w].vault
      /\ x.full = work[w].full /\ x.seen = work[w].seen
  BY <1>1 DEF Task
<1>3. work' = [work EXCEPT ![w] = x]
  BY <1>1 DEF MoveTo
<1> HIDE DEF x
<1>4. work'[w] = x /\ \A o \in Processes \ {w} : work'[o] = work[o]
  BY <1>1, <1>3
<1>5. work' \in [Processes -> Task \cup {Idle}]
  BY <1>1, <1>2, <1>3
<1>6. QED
  BY <1>2, <1>4, <1>5 DEF GoesOn

\* As MoveGoesOn, for a step that reads the documents.
LEMMA ReadGoesOn ==
  ASSUME IndexTypeOK, NEW w \in Processes, work[w] # Idle, NEW at \in WorkerPhases,
         work' = [work EXCEPT ![w].at = at, ![w].seen = document]
  PROVE  GoesOn(w, at) /\ work'[w].full = work[w].full /\ work'[w].seen = document
<1> DEFINE x == [work[w] EXCEPT !.at = at, !.seen = document]
<1>1. work[w] \in Task /\ work \in [Processes -> Task \cup {Idle}] /\ document \in Files
  BY BusyHasTask DEF IndexTypeOK
<1>2. /\ x \in Task /\ x.at = at /\ x.revision = work[w].revision /\ x.vault = work[w].vault
      /\ x.full = work[w].full /\ x.seen = document
  BY <1>1 DEF Task
<1>3. work' = [work EXCEPT ![w] = x]
  BY <1>1
<1> HIDE DEF x
<1>4. work'[w] = x /\ \A o \in Processes \ {w} : work'[o] = work[o]
  BY <1>1, <1>3
<1>5. work' \in [Processes -> Task \cup {Idle}]
  BY <1>1, <1>2, <1>3
<1>6. QED
  BY <1>2, <1>4, <1>5 DEF GoesOn

\* As MoveGoesOn, for the step that reads the marker.
LEMMA MarkerGoesOn ==
  ASSUME IndexTypeOK, NEW w \in Processes, work[w] # Idle, NEW at \in WorkerPhases, NEW f \in BOOLEAN,
         work' = [work EXCEPT ![w].at = at, ![w].full = f]
  PROVE  GoesOn(w, at) /\ work'[w].full = f
<1> DEFINE x == [work[w] EXCEPT !.at = at, !.full = f]
<1>1. work[w] \in Task /\ work \in [Processes -> Task \cup {Idle}]
  BY BusyHasTask DEF IndexTypeOK
<1>2. /\ x \in Task /\ x.at = at /\ x.revision = work[w].revision /\ x.vault = work[w].vault
      /\ x.full = f
  BY <1>1 DEF Task
<1>3. work' = [work EXCEPT ![w] = x]
  BY <1>1
<1> HIDE DEF x
<1>4. work'[w] = x /\ \A o \in Processes \ {w} : work'[o] = work[o]
  BY <1>1, <1>3
<1>5. work' \in [Processes -> Task \cup {Idle}]
  BY <1>1, <1>2, <1>3
<1>6. QED
  BY <1>2, <1>4, <1>5 DEF GoesOn

\* Process w drops what it was doing.
Stops(w) ==
  /\ work' \in [Processes -> Task \cup {Idle}]
  /\ work'[w] = Idle
  /\ \A o \in Processes \ {w} : work'[o] = work[o]

\* A process whose task is taken away has none.
LEMMA StopsIdle ==
  ASSUME IndexTypeOK, NEW w \in Processes, work' = [work EXCEPT ![w] = Idle]
  PROVE  Stops(w)
BY DEF IndexTypeOK, Stops

-----------------------------------------------------------------------------
(* Types and the journal, for any number of workers.                            *)

\* The tables, the journal of runs and what is left of the bounds.
StoreTypeOK ==
  /\ document \in Files /\ relation \in Files
  /\ unit \in [Revisions -> Files]
  /\ marker \in [Vaults -> Versions]
  /\ run \in [Revisions -> {"none", "RUNNING", "COMPLETED", "FAILED"}]
  /\ skipped \subseteq Revisions
  /\ disturbances \in Nat

\* The phases only workers are in.
LEMMA WorkerAtWork ==
  ASSUME JournalInv, NEW w \in Processes,
         work[w].at \in WorkerPhases \ OperatorPhases
  PROVE  w \in Indexers
<1>1. work[w] # Idle
  BY DEF Idle, WorkerPhases
<1>2. w # Operator
  BY <1>1 DEF JournalInv, TasksHaveEvents
<1>3. QED
  BY <1>2 DEF Processes

\* What a published event is made of.
LEMMA EventOfRevision ==
  ASSUME IndexTypeOK, NEW r \in Revisions, event[r] # Unpublished
  PROVE  /\ event[r] \in Event /\ event[r].path \in Paths /\ VaultOfRevision(r) \in Vaults
         /\ event[r].status \in {"open", "done"} /\ event[r].operation \in {"UPDATE", "DELETE"}
BY VaultAssumption DEF IndexTypeOK, Event, VaultOfRevision

\* An event that is open or done is there.
LEMMA OpenIsPublished ==
  ASSUME NEW r, event[r].status \in {"open", "done"}
  PROVE  event[r] # Unpublished
BY DEF Unpublished

\* Revisions count from 1; the version 0 is a file that is absent.
LEMMA RevisionsAreNumbers ==
  /\ MaxPublications \in Nat /\ 1 \in Revisions /\ Revisions \subseteq Nat \ {0}
  /\ \A r \in Revisions : r >= 1 /\ r \in Versions /\ r # 0 /\ r \in Nat
  /\ \A r \in Versions : r # 0 => r \in Revisions
  /\ 0 \in Versions /\ Versions \subseteq Nat
BY PublicationAssumption DEF Revisions, Versions

\* A process that goes on with its task, or drops it, leaves the events and main
\* as the journal knows them.
LEMMA ProcessKeepsJournal ==
  ASSUME JournalInv, NEW w \in Processes, StoreTypeOK',
         UNCHANGED <<main, publishing, event, publications, rebuilt>>,
         \/ Stops(w)
         \/ /\ work[w] # Idle
            /\ \E at : GoesOn(w, at) /\ (w = Operator => at \in OperatorPhases)
  PROVE  JournalInv'
<1>1. IndexTypeOK'
  BY DEF JournalInv, IndexTypeOK, StoreTypeOK, Stops, GoesOn
<1>2. RoomToPublish' /\ EventsOfCommits'
  BY DEF JournalInv, RoomToPublish, Kept, EventsOfCommits, HEAD
<1>3. \A o \in Processes : work'[o] # Idle =>
        work[o] # Idle /\ work'[o].revision = work[o].revision /\ work'[o].vault = work[o].vault
  BY DEF Stops, GoesOn
<1>4. work'[Operator] # Idle => rebuilt' /\ work'[Operator].at \in OperatorPhases
  <2>1. Operator \in Processes
    BY DEF Processes
  <2>2. QED
    BY <1>3, <2>1 DEF JournalInv, TasksHaveEvents, Stops, GoesOn
<1>5. \A o \in Indexers : o \in Processes
  BY DEF Processes
<1>6. TasksHaveEvents'
  BY <1>3, <1>4, <1>5 DEF JournalInv, TasksHaveEvents
<1>7. QED
  BY <1>1, <1>2, <1>6 DEF JournalInv

-----------------------------------------------------------------------------
(* What each step of a task does.                                               *)

\* What no step of a task but the last changes.
SameJournal == UNCHANGED <<main, publishing, event, publications, rebuilt>>

\* The worker compares its event with the head of main.
LEMMA CheckEffect ==
  ASSUME JournalInv, NEW w \in Processes, checkRevision(w)
  PROVE  /\ w \in Indexers /\ work[w] # Idle /\ work[w].at = "taken" /\ SameJournal /\ StoreTypeOK'
         /\ UNCHANGED <<document, unit, relation, marker, run>>
         /\ \/ GoesOn(w, "starting") /\ work[w].revision = HEAD /\ skipped' = skipped
            \/ /\ GoesOn(w, "acknowledging") /\ work[w].revision # HEAD
               /\ skipped' = skipped \cup {work[w].revision}
<1>1. work[w].at = "taken" /\ UNCHANGED <<git, event, tables, run, rebuilt, bounds>>
  BY Zenon DEF checkRevision
<1>2. w \in Indexers
  BY <1>1, WorkerAtWork DEF WorkerPhases, OperatorPhases
<1>3. work[w] # Idle /\ work[w] \in Task /\ work[w].revision \in Revisions
  BY <1>1, BusyHasTask, TaskIsBusy DEF JournalInv
<1>4. "starting" \in WorkerPhases /\ "acknowledging" \in WorkerPhases
  BY DEF WorkerPhases
<1>5. CASE work[w].revision = HEAD
  <2>1. MoveTo(w, "starting") /\ skipped' = skipped
    BY <1>5 DEF checkRevision
  <2>2. QED
    BY <1>1, <1>2, <1>3, <1>4, <1>5, <2>1, MoveGoesOn
       DEF JournalInv, IndexTypeOK, StoreTypeOK, SameJournal, git, tables, bounds
<1>6. CASE work[w].revision # HEAD
  <2>1. MoveTo(w, "acknowledging") /\ skipped' = skipped \cup {work[w].revision}
    BY <1>6 DEF checkRevision
  <2>2. QED
    BY <1>1, <1>2, <1>3, <1>4, <1>6, <2>1, MoveGoesOn
       DEF JournalInv, IndexTypeOK, StoreTypeOK, SameJournal, git, tables, bounds
<1>7. QED
  BY <1>5, <1>6

\* A run is started, or found completed.
LEMMA StartEffect ==
  ASSUME JournalInv, NEW w \in Processes, startIncrementalRun(w)
  PROVE  /\ w \in Indexers /\ work[w] # Idle /\ work[w].at = "starting" /\ SameJournal /\ StoreTypeOK'
         /\ UNCHANGED <<document, unit, relation, marker, skipped>>
         /\ GoesOn(w, "running")
         /\ \A r \in Revisions : run'[r] = IF r # work[w].revision \/ run[r] = "COMPLETED" THEN run[r]
                                           ELSE "RUNNING"
<1>1. /\ work[w].at = "starting" /\ UNCHANGED <<git, event, tables, history, bounds>>
      /\ MoveTo(w, "running")
      /\ run' = [run EXCEPT ![work[w].revision] = IF @ = "COMPLETED" THEN @ ELSE "RUNNING"]
  BY Zenon DEF startIncrementalRun
<1>2. w \in Indexers
  BY <1>1, WorkerAtWork DEF WorkerPhases, OperatorPhases
<1>3. work[w] # Idle /\ work[w] \in Task /\ work[w].revision \in Revisions
  BY <1>1, BusyHasTask, TaskIsBusy DEF JournalInv
<1>4. "running" \in WorkerPhases
  BY DEF WorkerPhases
<1>5. GoesOn(w, "running")
  BY <1>1, <1>3, <1>4, MoveGoesOn DEF JournalInv
<1>6. /\ run' \in [Revisions -> {"none", "RUNNING", "COMPLETED", "FAILED"}]
      /\ \A r \in Revisions : run'[r] = IF r # work[w].revision \/ run[r] = "COMPLETED" THEN run[r]
                                        ELSE "RUNNING"
  BY <1>1, <1>3 DEF JournalInv, IndexTypeOK
<1>7. QED
  BY <1>1, <1>2, <1>3, <1>5, <1>6
     DEF JournalInv, IndexTypeOK, StoreTypeOK, SameJournal, git, tables, history, bounds

\* The worker reads what its vault serves.
LEMMA MarkerEffect ==
  ASSUME JournalInv, NEW w \in Processes, currentVaultIndexRevision(w)
  PROVE  /\ w \in Indexers /\ work[w] # Idle /\ work[w].at = "running" /\ SameJournal /\ StoreTypeOK'
         /\ UNCHANGED <<document, unit, relation, marker, run, skipped>>
         /\ \/ GoesOn(w, "marking") /\ marker[work[w].vault] = work[w].revision
            \/ GoesOn(w, "synchronizing") /\ marker[work[w].vault] # work[w].revision
         /\ work'[w].full = (marker[work[w].vault] = 0)
<1> DEFINE served == marker[work[w].vault]
           at == IF served = work[w].revision THEN "marking" ELSE "synchronizing"
<1>1. /\ work[w].at = "running" /\ UNCHANGED <<git, event, tables, run, history, bounds>>
      /\ work' = [work EXCEPT ![w].at = at, ![w].full = (served = 0)]
  BY Zenon DEF currentVaultIndexRevision
<1>2. w \in Indexers
  BY <1>1, WorkerAtWork DEF WorkerPhases, OperatorPhases
<1>3. work[w] # Idle
  BY <1>1, BusyHasTask DEF JournalInv
<1>4. at \in WorkerPhases /\ (served = 0) \in BOOLEAN
  BY DEF WorkerPhases
<1> HIDE DEF at
<1>5. GoesOn(w, at) /\ work'[w].full = (served = 0)
  BY <1>1, <1>3, <1>4, MarkerGoesOn DEF JournalInv
<1>6. \/ GoesOn(w, "marking") /\ served = work[w].revision
      \/ GoesOn(w, "synchronizing") /\ served # work[w].revision
  BY <1>5 DEF at
<1>7. QED
  BY <1>1, <1>2, <1>3, <1>5, <1>6
     DEF JournalInv, IndexTypeOK, StoreTypeOK, SameJournal, git, tables, history, bounds

\* The changed path becomes what the commit of the event made of it.
LEMMA SynchronizeEffect ==
  ASSUME JournalInv, NEW w \in Processes, synchronizeManagedPaths(w)
  PROVE  /\ w \in Indexers /\ work[w] # Idle /\ work[w].at = "synchronizing"
         /\ SameJournal /\ StoreTypeOK'
         /\ UNCHANGED <<unit, relation, marker, run, skipped>>
         /\ GoesOn(w, "collecting") /\ work'[w].full = work[w].full
         /\ LET p == event[work[w].revision].path
            IN  /\ document'[p] = main[work[w].revision][p]
                /\ \A q \in Paths : q # p => document'[q] = document[q]
<1> DEFINE r == work[w].revision
           p == event[r].path
           now == IF event[r].operation = "DELETE" THEN 0 ELSE main[r][p]
<1>1. /\ work[w].at = "synchronizing"
      /\ UNCHANGED <<git, event, unit, relation, marker, run, history, bounds>>
      /\ MoveTo(w, "collecting")
      /\ document' = [document EXCEPT ![p] = now]
  BY Zenon DEF synchronizeManagedPaths
<1>2. w \in Indexers
  BY <1>1, WorkerAtWork DEF WorkerPhases, OperatorPhases
<1>3. work[w] # Idle /\ work[w] \in Task /\ r \in Revisions
  BY <1>1, BusyHasTask, TaskIsBusy DEF JournalInv
<1>4. "collecting" \in WorkerPhases
  BY DEF WorkerPhases
<1>5. GoesOn(w, "collecting") /\ work'[w].full = work[w].full
  BY <1>1, <1>3, <1>4, MoveGoesOn DEF JournalInv
<1>6. event[r] # Unpublished
  BY <1>2, <1>3, OpenIsPublished DEF JournalInv, TasksHaveEvents
<1>7. p \in Paths /\ r <= HEAD /\ (event[r].operation = "DELETE" <=> main[r][p] = 0)
  BY <1>3, <1>6, EventOfRevision DEF JournalInv, EventsOfCommits
<1>8. r \in 1 .. Len(main) /\ main[r] \in Files
  BY <1>3, <1>7, RevisionsAreNumbers DEF JournalInv, IndexTypeOK, HEAD
<1>9. now = main[r][p] /\ now \in Versions
  BY <1>7, <1>8 DEF Files
<1> HIDE DEF now
<1>10. document' \in Files /\ document'[p] = main[r][p] /\ \A q \in Paths : q # p => document'[q] = document[q]
  BY <1>1, <1>7, <1>9 DEF JournalInv, IndexTypeOK, Files
<1>11. QED
  BY <1>1, <1>2, <1>3, <1>5, <1>10
     DEF JournalInv, IndexTypeOK, StoreTypeOK, SameJournal, git, history, bounds

\* The documents are read.
LEMMA CollectEffect ==
  ASSUME JournalInv, NEW w \in Processes, collectDocuments(w)
  PROVE  /\ work[w] # Idle /\ work[w].at = "collecting"
         /\ SameJournal /\ StoreTypeOK'
         /\ UNCHANGED <<document, unit, relation, marker, run, skipped>>
         /\ GoesOn(w, "writing") /\ work'[w].full = work[w].full /\ work'[w].seen = document
<1>1. /\ work[w].at = "collecting" /\ UNCHANGED <<git, event, tables, run, history, bounds>>
      /\ work' = [work EXCEPT ![w].at = "writing", ![w].seen = document]
  BY Zenon DEF collectDocuments
<1>2. work[w] # Idle
  BY <1>1, BusyHasTask DEF JournalInv
<1>3. "writing" \in WorkerPhases
  BY DEF WorkerPhases
<1>4. GoesOn(w, "writing") /\ work'[w].full = work[w].full /\ work'[w].seen = document
  BY <1>1, <1>2, <1>3, ReadGoesOn DEF JournalInv
<1>5. QED
  BY <1>1, <1>2, <1>4
     DEF JournalInv, IndexTypeOK, StoreTypeOK, SameJournal, git, tables, history, bounds

\* The documents are read again, for their links.
LEMMA ReadLinksEffect ==
  ASSUME JournalInv, NEW w \in Processes, readLinks(w)
  PROVE  /\ work[w] # Idle /\ work[w].at = "relating"
         /\ SameJournal /\ StoreTypeOK'
         /\ UNCHANGED <<document, unit, relation, marker, run, skipped>>
         /\ GoesOn(w, "linking") /\ work'[w].seen = document
<1>1. /\ work[w].at = "relating" /\ UNCHANGED <<git, event, tables, run, history, bounds>>
      /\ work' = [work EXCEPT ![w].at = "linking", ![w].seen = document]
  BY Zenon DEF readLinks
<1>2. work[w] # Idle
  BY <1>1, BusyHasTask DEF JournalInv
<1>3. "linking" \in WorkerPhases
  BY DEF WorkerPhases
<1>4. GoesOn(w, "linking") /\ work'[w].seen = document
  BY <1>1, <1>2, <1>3, ReadGoesOn DEF JournalInv
<1>5. QED
  BY <1>1, <1>2, <1>4
     DEF JournalInv, IndexTypeOK, StoreTypeOK, SameJournal, git, tables, history, bounds

\* What a rebuild of units stores for path q in revision s.
Written(w, gone, s, q) ==
  IF q \in gone THEN 0
  ELSE IF s = work[w].revision /\ q \in Rebuilt(w) /\ work[w].seen[q] # 0 THEN work[w].seen[q]
  ELSE IF s = work[w].revision /\ Cloned(w, q) THEN unit[marker[work[w].vault]][q]
  ELSE unit[s][q]

\* Units are written as the documents that were read, or cloned, or emptied.
LEMMA UnitsAreFiles ==
  ASSUME JournalInv, NEW w \in Processes, work[w] # Idle, NEW gone, rebuildUnits(w, gone)
  PROVE  /\ unit' \in [Revisions -> Files]
         /\ \A s \in Revisions, q \in Paths : unit'[s][q] = Written(w, gone, s, q)
<1>1. /\ work[w] \in Task /\ work[w].seen \in Files /\ work[w].vault \in Vaults
      /\ marker[work[w].vault] \in Versions
  BY BusyHasTask, TaskIsBusy DEF JournalInv, IndexTypeOK
<1>2. ASSUME NEW s \in Revisions, NEW q \in Paths PROVE Written(w, gone, s, q) \in Versions
  <2>1. unit[s][q] \in Versions /\ work[w].seen[q] \in Versions /\ 0 \in Versions
    BY <1>1, RevisionsAreNumbers DEF JournalInv, IndexTypeOK, Files
  <2>2. ASSUME Cloned(w, q) PROVE unit[marker[work[w].vault]][q] \in Versions
    <3>1. marker[work[w].vault] # 0
      BY <2>2 DEF Cloned
    <3>2. marker[work[w].vault] \in Revisions
      BY <1>1, <3>1, RevisionsAreNumbers
    <3>3. QED
      BY <3>2 DEF JournalInv, IndexTypeOK, Files
  <2>3. QED
    BY <2>1, <2>2 DEF Written
<1>3. unit' = [s \in Revisions |-> [q \in Paths |-> Written(w, gone, s, q)]]
  BY Zenon DEF rebuildUnits, Written
<1>4. QED
  BY <1>2, <1>3 DEF Files

\* The worker's own path is rebuilt, the rest of its vault cloned.
LEMMA WriteEffect ==
  ASSUME JournalInv, NEW w \in Processes, rebuildChangedUnits(w)
  PROVE  /\ w \in Indexers /\ work[w] # Idle /\ work[w].at = "writing"
         /\ SameJournal /\ StoreTypeOK'
         /\ UNCHANGED <<document, relation, marker, run, skipped>>
         /\ GoesOn(w, "relating")
         /\ \A s \in Revisions, q \in Paths :
              unit'[s][q] = Written(w, {p \in Rebuilt(w) : work[w].seen[p] = 0}, s, q)
<1>1. /\ w \in Indexers /\ work[w].at = "writing"
      /\ UNCHANGED <<git, event, document, relation, marker, run, history, bounds>>
      /\ MoveTo(w, "relating")
      /\ rebuildUnits(w, {p \in Rebuilt(w) : work[w].seen[p] = 0})
  BY Zenon DEF rebuildChangedUnits
<1>2. work[w] # Idle
  BY <1>1, BusyHasTask DEF JournalInv
<1>3. "relating" \in WorkerPhases
  BY DEF WorkerPhases
<1>4. GoesOn(w, "relating")
  BY <1>1, <1>2, <1>3, MoveGoesOn DEF JournalInv
<1>5. /\ unit' \in [Revisions -> Files]
      /\ \A s \in Revisions, q \in Paths :
           unit'[s][q] = Written(w, {p \in Rebuilt(w) : work[w].seen[p] = 0}, s, q)
  BY <1>1, <1>2, UnitsAreFiles
<1>6. QED
  BY <1>1, <1>2, <1>4, <1>5
     DEF JournalInv, IndexTypeOK, StoreTypeOK, SameJournal, git, history, bounds

\* All edges of the vault become those of the documents that were read.
LEMMA RelateEffect ==
  ASSUME JournalInv, NEW w \in Processes, rebuildManagedRelations(w)
  PROVE  /\ work[w] # Idle /\ work[w].at = "linking"
         /\ SameJournal /\ StoreTypeOK'
         /\ UNCHANGED <<document, unit, marker, run, skipped>>
         /\ w = Operator => GoesOn(w, "collecting")
         /\ w # Operator => GoesOn(w, "marking")
         /\ \A q \in Paths : relation'[q] = IF VaultOf[q] = work[w].vault THEN work[w].seen[q]
                                            ELSE relation[q]
<1> DEFINE at == IF w = Operator THEN "collecting" ELSE "marking"
<1>1. /\ work[w].at = "linking"
      /\ UNCHANGED <<git, event, document, unit, marker, run, history, bounds>>
      /\ MoveTo(w, at)
      /\ relation' = [q \in Paths |-> IF VaultOf[q] = work[w].vault THEN work[w].seen[q]
                                      ELSE relation[q]]
  BY Zenon DEF rebuildManagedRelations
<1>2. work[w] # Idle /\ work[w] \in Task /\ work[w].seen \in Files
  BY <1>1, BusyHasTask, TaskIsBusy DEF JournalInv
<1>3. at \in WorkerPhases
  BY DEF WorkerPhases
<1> HIDE DEF at
<1>4. GoesOn(w, at)
  BY <1>1, <1>2, <1>3, MoveGoesOn DEF JournalInv
<1>5. (w = Operator => GoesOn(w, "collecting")) /\ (w # Operator => GoesOn(w, "marking"))
  BY <1>4 DEF at
<1>6. relation' \in Files
  BY <1>1, <1>2 DEF JournalInv, IndexTypeOK, Files
<1>7. QED
  BY <1>1, <1>2, <1>5, <1>6
     DEF JournalInv, IndexTypeOK, StoreTypeOK, SameJournal, git, history, bounds

\* The vault serves the worker's revision from now on.
LEMMA MarkEffect ==
  ASSUME JournalInv, NEW w \in Processes, markVaultIndexRevision(w)
  PROVE  /\ w \in Indexers /\ work[w] # Idle /\ work[w].at = "marking"
         /\ SameJournal /\ StoreTypeOK'
         /\ UNCHANGED <<document, unit, relation, run, skipped>>
         /\ GoesOn(w, "completing")
         /\ \A v \in Vaults : marker'[v] = IF v = work[w].vault THEN work[w].revision ELSE marker[v]
<1>1. /\ work[w].at = "marking"
      /\ UNCHANGED <<git, event, document, unit, relation, run, history, bounds>>
      /\ MoveTo(w, "completing")
      /\ marker' = [marker EXCEPT ![work[w].vault] = work[w].revision]
  BY Zenon DEF markVaultIndexRevision
<1>2. w \in Indexers
  BY <1>1, WorkerAtWork DEF WorkerPhases, OperatorPhases
<1>3. work[w] # Idle /\ work[w].vault \in Vaults /\ work[w].revision \in Versions
  BY <1>1, BusyHasTask, TaskIsBusy, RevisionsAreNumbers DEF JournalInv
<1>4. "completing" \in WorkerPhases
  BY DEF WorkerPhases
<1>5. GoesOn(w, "completing")
  BY <1>1, <1>3, <1>4, MoveGoesOn DEF JournalInv
<1>6. /\ marker' \in [Vaults -> Versions]
      /\ \A v \in Vaults : marker'[v] = IF v = work[w].vault THEN work[w].revision ELSE marker[v]
  BY <1>1, <1>3 DEF JournalInv, IndexTypeOK
<1>7. QED
  BY <1>1, <1>2, <1>3, <1>5, <1>6
     DEF JournalInv, IndexTypeOK, StoreTypeOK, SameJournal, git, history, bounds

\* The run is completed.
LEMMA CompleteEffect ==
  ASSUME JournalInv, NEW w \in Processes, completeIncrementalRun(w)
  PROVE  /\ w \in Indexers /\ work[w] # Idle /\ work[w].at = "completing"
         /\ SameJournal /\ StoreTypeOK'
         /\ UNCHANGED <<document, unit, relation, marker, skipped>>
         /\ GoesOn(w, "acknowledging")
         /\ \A r \in Revisions : run'[r] = IF r = work[w].revision THEN "COMPLETED" ELSE run[r]
<1>1. /\ work[w].at = "completing"
      /\ UNCHANGED <<git, event, tables, history, bounds>>
      /\ MoveTo(w, "acknowledging")
      /\ run' = [run EXCEPT ![work[w].revision] = "COMPLETED"]
  BY Zenon DEF completeIncrementalRun
<1>2. w \in Indexers
  BY <1>1, WorkerAtWork DEF WorkerPhases, OperatorPhases
<1>3. work[w] # Idle /\ work[w].revision \in Revisions
  BY <1>1, BusyHasTask, TaskIsBusy DEF JournalInv
<1>4. "acknowledging" \in WorkerPhases
  BY DEF WorkerPhases
<1>5. GoesOn(w, "acknowledging")
  BY <1>1, <1>3, <1>4, MoveGoesOn DEF JournalInv
<1>6. /\ run' \in [Revisions -> {"none", "RUNNING", "COMPLETED", "FAILED"}]
      /\ \A r \in Revisions : run'[r] = IF r = work[w].revision THEN "COMPLETED" ELSE run[r]
  BY <1>1, <1>3 DEF JournalInv, IndexTypeOK
<1>7. QED
  BY <1>1, <1>2, <1>3, <1>5, <1>6
     DEF JournalInv, IndexTypeOK, StoreTypeOK, SameJournal, git, tables, history, bounds

\* A task that fails is dropped; its run, if it was started, is recorded FAILED.
LEMMA FailEffect ==
  ASSUME JournalInv, NEW w \in Processes, indexFails(w)
  PROVE  /\ w \in Indexers /\ work[w] # Idle /\ SameJournal /\ StoreTypeOK'
         /\ UNCHANGED <<document, unit, relation, marker, skipped>>
         /\ Stops(w)
         /\ \/ run' = run
            \/ /\ work[w].at \notin {"taken", "starting"}
               /\ work[w].at # "acknowledging"
               /\ \A r \in Revisions : run'[r] = IF r = work[w].revision THEN "FAILED" ELSE run[r]
<1>1. /\ w \in Indexers /\ work[w].at \notin {"idle", "acknowledging"}
      /\ Disturb
      /\ run' = IF work[w].at \in {"taken", "starting"} THEN run
                ELSE [run EXCEPT ![work[w].revision] = "FAILED"]
      /\ work' = [work EXCEPT ![w] = Idle]
      /\ UNCHANGED <<git, event, tables, history>>
  BY Zenon DEF indexFails
<1>2. work[w].at # "idle" /\ work[w].at # "acknowledging"
  BY <1>1
<1>3. work[w] # Idle /\ work[w].revision \in Revisions
  BY <1>2, BusyHasTask, TaskIsBusy DEF JournalInv
<1>4. Stops(w)
  BY <1>1, StopsIdle DEF JournalInv
<1>5. disturbances' \in Nat /\ publications' = publications
  BY <1>1 DEF Disturb, JournalInv, IndexTypeOK
<1>6. run' \in [Revisions -> {"none", "RUNNING", "COMPLETED", "FAILED"}]
  BY <1>1, <1>3 DEF JournalInv, IndexTypeOK
<1>7. \/ run' = run
      \/ /\ work[w].at \notin {"taken", "starting"}
         /\ \A r \in Revisions : run'[r] = IF r = work[w].revision THEN "FAILED" ELSE run[r]
  BY <1>1, <1>3 DEF JournalInv, IndexTypeOK
<1>8. QED
  BY <1>1, <1>2, <1>3, <1>4, <1>5, <1>6, <1>7
     DEF JournalInv, IndexTypeOK, StoreTypeOK, SameJournal, git, tables, history

\* A process that dies leaves everything as it is.
LEMMA DieEffect ==
  ASSUME JournalInv, NEW w \in Processes, processDies(w)
  PROVE  /\ work[w] # Idle /\ SameJournal /\ StoreTypeOK'
         /\ UNCHANGED <<document, unit, relation, marker, run, skipped>>
         /\ Stops(w)
<1>1. /\ work[w] # Idle /\ Disturb /\ work' = [work EXCEPT ![w] = Idle]
      /\ UNCHANGED <<git, event, tables, run, history>>
  BY Zenon DEF processDies
<1>2. Stops(w)
  BY <1>1, StopsIdle DEF JournalInv
<1>3. disturbances' \in Nat /\ publications' = publications
  BY <1>1 DEF Disturb, JournalInv, IndexTypeOK
<1>4. QED
  BY <1>1, <1>2, <1>3
     DEF JournalInv, IndexTypeOK, StoreTypeOK, SameJournal, git, tables, history

\* The event is done with, and so is its task.
LEMMA AcknowledgeEffect ==
  ASSUME JournalInv, NEW w \in Processes, acknowledge(w)
  PROVE  /\ w \in Indexers /\ work[w] # Idle /\ work[w].at = "acknowledging"
         /\ UNCHANGED <<main, publishing, publications, rebuilt>> /\ StoreTypeOK'
         /\ UNCHANGED <<document, unit, relation, marker, run, skipped>>
         /\ Stops(w)
         /\ event' \in [Revisions -> Event \cup {Unpublished}]
         /\ LET r == work[w].revision
            IN  /\ event[r] # Unpublished /\ event'[r] # Unpublished
                /\ event'[r].status = "done" /\ event'[r].path = event[r].path
                /\ event'[r].operation = event[r].operation
                /\ \A s \in Revisions : s # r => event'[s] = event[s]
<1> DEFINE r == work[w].revision
           e == [event[r] EXCEPT !.status = "done"]
<1>1. /\ work[w].at = "acknowledging" /\ work' = [work EXCEPT ![w] = Idle]
      /\ event' = [event EXCEPT ![r].status = "done"]
      /\ UNCHANGED <<git, tables, run, history, bounds>>
  BY Zenon DEF acknowledge
<1>2. w \in Indexers
  BY <1>1, WorkerAtWork DEF WorkerPhases, OperatorPhases
<1>3. work[w] # Idle /\ r \in Revisions
  BY <1>1, BusyHasTask, TaskIsBusy DEF JournalInv
<1>4. Stops(w)
  BY <1>1, StopsIdle DEF JournalInv
<1>5. event[r] # Unpublished
  BY <1>2, <1>3, OpenIsPublished DEF JournalInv, TasksHaveEvents
<1>6. event[r] \in Event
  BY <1>3, <1>5, EventOfRevision DEF JournalInv
<1>7. e \in Event /\ e.status = "done" /\ e.path = event[r].path /\ e.operation = event[r].operation
  BY <1>6 DEF Event
<1>8. event' = [event EXCEPT ![r] = e]
  BY <1>1, <1>3 DEF JournalInv, IndexTypeOK
<1> HIDE DEF e
<1>9. /\ event' \in [Revisions -> Event \cup {Unpublished}] /\ event'[r] = e
      /\ \A s \in Revisions : s # r => event'[s] = event[s]
  BY <1>3, <1>7, <1>8 DEF JournalInv, IndexTypeOK
<1>10. e # Unpublished
  BY <1>7 DEF Unpublished
<1>11. StoreTypeOK' /\ UNCHANGED <<main, publishing, publications, rebuilt>>
       /\ UNCHANGED <<document, unit, relation, marker, run, skipped>>
  BY <1>1 DEF JournalInv, IndexTypeOK, StoreTypeOK, git, tables, history, bounds
<1>12. QED
  BY <1>1, <1>2, <1>3, <1>4, <1>5, <1>7, <1>9, <1>10, <1>11

\* A worker without a task takes an open event nobody works on.
LEMMA TakeEffect ==
  ASSUME JournalInv, NEW w \in Indexers, NEW r \in Revisions, takeEvent(w, r)
  PROVE  /\ SameJournal /\ StoreTypeOK'
         /\ UNCHANGED <<document, unit, relation, marker, run, skipped>>
         /\ event[r].status = "open"
         /\ work' \in [Processes -> Task \cup {Idle}]
         /\ work'[w] \in Task /\ work'[w].at = "taken" /\ work'[w].revision = r
         /\ work'[w].vault = VaultOf[event[r].path]
         /\ \A o \in Processes \ {w} : work'[o] = work[o]
         /\ \A o \in Indexers : work[o] # Idle => work[o].revision # r
         /\ work[w] = Idle
<1> DEFINE x == [at |-> "taken", revision |-> r, vault |-> VaultOf[event[r].path],
                 full |-> FALSE, seen |-> NoFiles]
<1>1. /\ event[r].status = "open" /\ work' = [work EXCEPT ![w] = x] /\ work[w] = Idle
      /\ \A o \in Indexers : work[o] # Idle => work[o].revision # r
      /\ UNCHANGED <<git, event, tables, run, history, bounds>>
  BY Zenon DEF takeEvent
<1>2. VaultOf[event[r].path] \in Vaults
  BY <1>1, OpenIsPublished, EventOfRevision DEF JournalInv, VaultOfRevision
<1>3. NoFiles \in Files /\ "taken" \in WorkerPhases
  BY RevisionsAreNumbers DEF NoFiles, Files, WorkerPhases
<1>4. x \in Task
  BY <1>2, <1>3 DEF Task
<1>5. x.at = "taken" /\ x.revision = r /\ x.vault = VaultOf[event[r].path]
  OBVIOUS
<1> HIDE DEF x
<1>6. w \in Processes
  BY DEF Processes
<1>7. /\ work' \in [Processes -> Task \cup {Idle}] /\ work'[w] = x
      /\ \A o \in Processes \ {w} : work'[o] = work[o]
  BY <1>1, <1>4, <1>6 DEF JournalInv, IndexTypeOK
<1>8. StoreTypeOK' /\ SameJournal /\ UNCHANGED <<document, unit, relation, marker, run, skipped>>
  BY <1>1 DEF JournalInv, IndexTypeOK, StoreTypeOK, SameJournal, git, tables, history, bounds
<1>9. QED
  BY <1>1, <1>4, <1>5, <1>7, <1>8

-----------------------------------------------------------------------------
(* What publications and the operator do.                                       *)

\* What publications leave alone.
SameIndex == UNCHANGED <<document, unit, relation, marker, run, work, skipped, rebuilt>>

HeadIsRevision ==
  /\ HEAD \in Revisions /\ HEAD \in Nat /\ HEAD >= 1
  /\ \A r \in Revisions : r <= HEAD => r \in 1 .. Len(main) /\ main[r] \in Files

\* The head of main is a revision, and every revision up to it a commit.
LEMMA HeadInRange == ASSUME JournalInv PROVE HeadIsRevision
BY RevisionsAreNumbers DEF JournalInv, IndexTypeOK, HEAD, HeadIsRevision

\* A commit on top of main.
Commits(f) ==
  /\ main' \in Seq(Files)
  /\ HEAD' = HEAD + 1
  /\ \A r \in Revisions : r <= HEAD => main'[r] = main[r]

\* Appending files to main makes a commit.
LEMMA AppendCommits ==
  ASSUME JournalInv, NEW f \in Files, main' = Append(main, f)
  PROVE  Commits(f)
BY HeadInRange, RevisionsAreNumbers DEF JournalInv, IndexTypeOK, HEAD, Commits, HeadIsRevision

\* A merge commits, and begins a publication.
LEMMA MergeEffect ==
  ASSUME JournalInv, NEW p \in Paths, NEW operation \in {"UPDATE", "DELETE"},
         mergeDraft(p, operation)
  PROVE  /\ \E f : Commits(f)
         /\ ~publishing /\ publishing' = TRUE
         /\ publications > 0 /\ publications' = publications - 1
         /\ event' = event /\ SameIndex /\ StoreTypeOK'
<1> DEFINE f == [main[HEAD] EXCEPT ![p] = IF operation = "DELETE" THEN 0 ELSE HEAD + 1]
<1>1. /\ ~publishing /\ publications > 0 /\ main' = Append(main, f)
      /\ publishing' = TRUE /\ publications' = publications - 1
      /\ UNCHANGED <<event, tables, run, work, history, disturbances>>
  BY Zenon DEF mergeDraft
<1>2. HEAD + 2 * publications <= 1 + 2 * MaxPublications /\ publications \in Nat
  BY <1>1, HeadInRange, RevisionsAreNumbers DEF JournalInv, RoomToPublish, HeadIsRevision, Kept
<1>3. HEAD + 1 \in Revisions
  BY <1>1, <1>2, HeadInRange, RevisionsAreNumbers DEF Revisions, HeadIsRevision
<1>4. main[HEAD] \in Files
  BY HeadInRange DEF HeadIsRevision
<1>5. f \in Files
  BY <1>3, <1>4, RevisionsAreNumbers DEF Files
<1> HIDE DEF f
<1>6. Commits(f)
  BY <1>1, <1>5, AppendCommits
<1>7. QED
  BY <1>1, <1>6 DEF SameIndex, StoreTypeOK, JournalInv, IndexTypeOK, tables, history

\* A compensation commits, and ends the publication without an event.
LEMMA CompensateEffect ==
  ASSUME JournalInv, compensateGit
  PROVE  /\ \E f : Commits(f)
         /\ publishing /\ publishing' = FALSE
         /\ publications' = publications
         /\ event' = event /\ SameIndex /\ StoreTypeOK'
<1>1. /\ publishing /\ publishing' = FALSE /\ main' = Append(main, main[HEAD - 1])
      /\ UNCHANGED <<event, tables, run, work, history, bounds>>
  BY Zenon DEF compensateGit
<1>2. HEAD > 1 /\ HEAD \in Nat /\ HEAD \in Revisions
  BY <1>1, HeadInRange DEF JournalInv, RoomToPublish, HeadIsRevision
<1>3. HEAD - 1 \in Revisions
  BY <1>2, RevisionsAreNumbers DEF Revisions
<1>4. main[HEAD - 1] \in Files
  BY <1>2, <1>3, HeadInRange DEF HeadIsRevision
<1>5. Commits(main[HEAD - 1])
  BY <1>1, <1>4, AppendCommits
<1>6. QED
  BY <1>1, <1>5 DEF SameIndex, StoreTypeOK, JournalInv, IndexTypeOK, tables, history, bounds

\* A publication ends with an event of main's head.
LEMMA LifecycleEffect ==
  ASSUME JournalInv, appendPublicationLifecycle
  PROVE  /\ publishing /\ publishing' = FALSE /\ publications' = publications
         /\ main' = main /\ SameIndex /\ StoreTypeOK'
         /\ event' \in [Revisions -> Event \cup {Unpublished}]
         /\ event[HEAD] = Unpublished
         /\ \A s \in Revisions : s # HEAD => event'[s] = event[s]
         /\ event'[HEAD].status = "open"
         /\ event'[HEAD].operation = "DELETE" <=> main[HEAD][event'[HEAD].path] = 0
<1>1. /\ publishing /\ publishing' = FALSE
      /\ UNCHANGED <<main, tables, run, work, history, bounds>>
  BY Zenon DEF appendPublicationLifecycle
<1>2. PICK p \in Paths :
        event' = [event EXCEPT ![HEAD] =
            [path |-> p, operation |-> IF main[HEAD][p] = 0 THEN "DELETE" ELSE "UPDATE",
             status |-> "open"]]
  BY Zenon DEF appendPublicationLifecycle
<1> DEFINE e == [path |-> p, operation |-> IF main[HEAD][p] = 0 THEN "DELETE" ELSE "UPDATE",
                 status |-> "open"]
<1>3. e \in Event /\ e.status = "open" /\ e.path = p /\ (e.operation = "DELETE" <=> main[HEAD][p] = 0)
  BY DEF Event
<1>4. HEAD \in Revisions
  BY HeadInRange DEF HeadIsRevision
<1> HIDE DEF e
<1>5. event' = [event EXCEPT ![HEAD] = e]
  BY <1>2 DEF e
<1>6. /\ event' \in [Revisions -> Event \cup {Unpublished}] /\ event'[HEAD] = e
      /\ \A s \in Revisions : s # HEAD => event'[s] = event[s]
  BY <1>3, <1>4, <1>5 DEF JournalInv, IndexTypeOK
<1>7. event[HEAD] = Unpublished
  BY <1>1 DEF JournalInv, EventsOfCommits
<1>8. SameIndex /\ StoreTypeOK' /\ publications' = publications
  BY <1>1 DEF SameIndex, StoreTypeOK, JournalInv, IndexTypeOK, tables, history, bounds
<1>9. QED
  BY <1>1, <1>3, <1>6, <1>7, <1>8

\* A commit takes one of the merges that were allowed, or the room kept for it.
LEMMA CommitKeepsJournal ==
  ASSUME JournalInv, NEW f, Commits(f), event' = event, SameIndex, StoreTypeOK',
         \/ ~publishing /\ publishing' = TRUE /\ publications > 0 /\ publications' = publications - 1
         \/ publishing /\ publishing' = FALSE /\ publications' = publications
  PROVE  JournalInv'
<1>1. HeadIsRevision /\ MaxPublications \in Nat
  BY HeadInRange, RevisionsAreNumbers
<1>2. /\ publications \in Nat /\ publications <= MaxPublications
      /\ HEAD + 2 * publications + Kept <= 1 + 2 * MaxPublications
      /\ HEAD \in Nat /\ HEAD >= 1 /\ HEAD' = HEAD + 1
  BY <1>1 DEF JournalInv, RoomToPublish, HeadIsRevision, Commits
<1>3. \/ Kept = 0 /\ Kept' = 1 /\ publications > 0 /\ publications' = publications - 1
      \/ Kept = 1 /\ Kept' = 0 /\ publications' = publications
  BY DEF Kept
<1>4. publishing' \in BOOLEAN
  OBVIOUS
<1>5. RoomToPublish'
  <2>1. publications' \in 0 .. MaxPublications /\ HEAD' + 2 * publications' + Kept' <= 1 + 2 * MaxPublications
    BY <1>1, <1>2, <1>3
  <2>2. HEAD' > 1
    BY <1>2
  <2>3. QED
    BY <2>1, <2>2 DEF RoomToPublish
<1>6. HEAD' \in Revisions
  <2>1. HEAD + 1 <= 1 + 2 * MaxPublications
    BY <1>1, <1>2, <1>3
  <2>2. QED
    BY <1>1, <1>2, <2>1 DEF Revisions
<1>7. IndexTypeOK'
  <2>1. publications' \in Nat
    BY <1>2, <1>3
  <2>2. QED
    BY <1>4, <1>6, <2>1 DEF JournalInv, IndexTypeOK, StoreTypeOK, SameIndex, Commits, HEAD
<1>8. EventsOfCommits'
  <2>1. ASSUME NEW r \in Revisions, event[r] # Unpublished
        PROVE  r <= HEAD' /\ (event[r].operation = "DELETE" <=> main'[r][event[r].path] = 0)
    <3>1. r <= HEAD /\ (event[r].operation = "DELETE" <=> main[r][event[r].path] = 0)
      BY <2>1 DEF JournalInv, EventsOfCommits
    <3>2. main'[r] = main[r] /\ HEAD' = HEAD + 1 /\ r \in Nat
      BY <3>1, RevisionsAreNumbers DEF Commits
    <3>3. QED
      BY <1>1, <3>1, <3>2 DEF HeadIsRevision
  <2>2. event[HEAD'] = Unpublished
    <3>1. ~(HEAD' <= HEAD)
      BY <1>1 DEF Commits, HeadIsRevision
    <3>2. QED
      BY <1>6, <3>1 DEF JournalInv, EventsOfCommits
  <2>3. QED
    BY <2>1, <2>2 DEF EventsOfCommits
<1>9. TasksHaveEvents'
  BY DEF JournalInv, TasksHaveEvents, SameIndex
<1>10. QED
  BY <1>5, <1>7, <1>8, <1>9 DEF JournalInv

\* The event tells what the commit did.
LEMMA LifecycleKeepsJournal ==
  ASSUME JournalInv, appendPublicationLifecycle
  PROVE  JournalInv'
<1>1. /\ publishing' = FALSE /\ publications' = publications
      /\ main' = main /\ SameIndex /\ StoreTypeOK'
      /\ event' \in [Revisions -> Event \cup {Unpublished}]
      /\ event[HEAD] = Unpublished
      /\ \A s \in Revisions : s # HEAD => event'[s] = event[s]
      /\ event'[HEAD].operation = "DELETE" <=> main[HEAD][event'[HEAD].path] = 0
  BY LifecycleEffect
<1>2. HeadIsRevision
  BY HeadInRange
<1>3. IndexTypeOK'
  BY <1>1 DEF JournalInv, IndexTypeOK, StoreTypeOK, SameIndex
<1>4. RoomToPublish' /\ HEAD' = HEAD
  <2>1. HEAD' = HEAD /\ publications' = publications /\ Kept' = 0
    BY <1>1 DEF HEAD, Kept
  <2>2. /\ publications \in 0 .. MaxPublications /\ Kept \in {0, 1}
        /\ HEAD + 2 * publications + Kept <= 1 + 2 * MaxPublications
    BY DEF JournalInv, RoomToPublish, Kept
  <2>3. HEAD + 2 * publications <= 1 + 2 * MaxPublications
    BY <1>2, <2>2, RevisionsAreNumbers DEF HeadIsRevision
  <2>4. ~publishing'
    BY <1>1
  <2>5. HEAD' + 2 * publications' + Kept' <= 1 + 2 * MaxPublications
    BY <1>2, <2>1, <2>2, <2>3, RevisionsAreNumbers DEF HeadIsRevision
  <2>6. QED
    BY <2>1, <2>2, <2>4, <2>5 DEF RoomToPublish
<1>5. EventsOfCommits'
  BY <1>1, <1>2, <1>4 DEF JournalInv, EventsOfCommits, HeadIsRevision
<1>6. ASSUME NEW w \in Indexers, work[w] # Idle
      PROVE  event'[work[w].revision] = event[work[w].revision]
  <2>1. work[w].revision \in Revisions
    <3>1. w \in Processes
      BY DEF Processes
    <3>2. work[w] \in Task
      BY <1>6, <3>1, BusyHasTask DEF JournalInv
    <3>3. QED
      BY <3>2, TaskIsBusy
  <2>2. event[work[w].revision] # Unpublished
    BY <1>6, OpenIsPublished DEF JournalInv, TasksHaveEvents
  <2>3. QED
    BY <1>1, <2>1, <2>2
<1>7. TasksHaveEvents'
  BY <1>1, <1>6 DEF JournalInv, TasksHaveEvents, SameIndex
<1>8. QED
  BY <1>3, <1>4, <1>5, <1>7 DEF JournalInv

\* An event that is done with has nobody working on it.
LEMMA AcknowledgeKeepsJournal ==
  ASSUME JournalInv, NEW w \in Processes, acknowledge(w)
  PROVE  JournalInv'
<1> DEFINE r == work[w].revision
<1>1. /\ w \in Indexers /\ work[w] # Idle /\ Stops(w) /\ StoreTypeOK'
      /\ UNCHANGED <<main, publishing, publications, rebuilt>>
      /\ event' \in [Revisions -> Event \cup {Unpublished}]
      /\ event[r] # Unpublished /\ event'[r] # Unpublished
      /\ event'[r].path = event[r].path /\ event'[r].operation = event[r].operation
      /\ \A s \in Revisions : s # r => event'[s] = event[s]
  BY AcknowledgeEffect
<1> HIDE DEF r
<1>2. IndexTypeOK'
  BY <1>1 DEF JournalInv, IndexTypeOK, StoreTypeOK, Stops
<1>3. RoomToPublish' /\ HEAD' = HEAD
  BY <1>1 DEF JournalInv, RoomToPublish, Kept, HEAD
<1>4. EventsOfCommits'
  <2>1. ASSUME NEW s \in Revisions, event'[s] # Unpublished
        PROVE  s <= HEAD /\ (event'[s].operation = "DELETE" <=> main[s][event'[s].path] = 0)
    BY <1>1, <2>1 DEF JournalInv, EventsOfCommits
  <2>2. publishing => event'[HEAD] = Unpublished
    BY <1>1, HeadInRange DEF JournalInv, EventsOfCommits, HeadIsRevision
  <2>3. QED
    BY <1>1, <1>3, <2>1, <2>2 DEF EventsOfCommits
<1>5. ASSUME NEW o \in Indexers, work'[o] # Idle
      PROVE  /\ work[o] # Idle /\ work'[o] = work[o]
             /\ event'[work[o].revision] = event[work[o].revision]
  <2>1. o \in Processes /\ o # w
    BY <1>1, <1>5 DEF Processes, Stops
  <2>2. work'[o] = work[o] /\ work[o] # Idle
    BY <1>1, <1>5, <2>1 DEF Stops
  <2>3. work[o].revision \in Revisions
    BY <2>1, <2>2, BusyHasTask, TaskIsBusy DEF JournalInv
  <2>4. work[o].revision # r
    BY <1>1, <2>1, <2>2 DEF JournalInv, TasksHaveEvents, r
  <2>5. QED
    BY <1>1, <2>2, <2>3, <2>4
<1>6. work'[Operator] = work[Operator]
  BY <1>1, OperatorAssumption DEF Stops, Processes
<1>7. TasksHaveEvents'
  BY <1>1, <1>5, <1>6 DEF JournalInv, TasksHaveEvents
<1>8. QED
  BY <1>2, <1>3, <1>4, <1>7 DEF JournalInv

\* A worker takes an event that nobody works on.
LEMMA TakeKeepsJournal ==
  ASSUME JournalInv, NEW w \in Indexers, NEW r \in Revisions, takeEvent(w, r)
  PROVE  JournalInv'
<1>1. /\ SameJournal /\ StoreTypeOK' /\ event[r].status = "open"
      /\ work' \in [Processes -> Task \cup {Idle}]
      /\ work'[w].revision = r /\ work'[w].vault = VaultOf[event[r].path]
      /\ \A o \in Processes \ {w} : work'[o] = work[o]
      /\ \A o \in Indexers : work[o] # Idle => work[o].revision # r
  BY TakeEffect
<1>2. IndexTypeOK'
  BY <1>1 DEF JournalInv, IndexTypeOK, StoreTypeOK, SameJournal
<1>3. RoomToPublish' /\ EventsOfCommits'
  BY <1>1 DEF JournalInv, RoomToPublish, Kept, EventsOfCommits, HEAD, SameJournal
<1>4. \A o \in Indexers : o # w => work'[o] = work[o]
  BY <1>1 DEF Processes
<1>5. work'[Operator] = work[Operator]
  BY <1>1, OperatorAssumption DEF Processes
<1>6. TasksHaveEvents'
  BY <1>1, <1>4, <1>5 DEF JournalInv, TasksHaveEvents, SameJournal
<1>7. QED
  BY <1>2, <1>3, <1>6 DEF JournalInv

\* The operator asks for a rebuild of one vault.
LEMMA StartRebuildKeepsJournal ==
  ASSUME JournalInv, NEW v \in Vaults, startRebuild(v)
  PROVE  JournalInv' /\ rebuilt' = TRUE /\ marker' = marker
<1> DEFINE x == [at |-> "relating", revision |-> HEAD, vault |-> v, full |-> FALSE, seen |-> NoFiles]
<1>1. /\ Disturb /\ rebuilt' = TRUE /\ work' = [work EXCEPT ![Operator] = x]
      /\ UNCHANGED <<git, event, tables, run, skipped>>
  BY Zenon DEF startRebuild
<1>2. NoFiles \in Files /\ "relating" \in WorkerPhases /\ "relating" \in OperatorPhases
  BY RevisionsAreNumbers DEF NoFiles, Files, WorkerPhases, OperatorPhases
<1>3. x \in Task /\ x.at = "relating"
  BY <1>2, HeadInRange DEF Task, HeadIsRevision
<1> HIDE DEF x
<1>4. Operator \in Processes
  BY DEF Processes
<1>5. /\ work' \in [Processes -> Task \cup {Idle}] /\ work'[Operator] = x
      /\ \A o \in Processes : o # Operator => work'[o] = work[o]
  BY <1>1, <1>3, <1>4 DEF JournalInv, IndexTypeOK
<1>6. disturbances' \in Nat /\ publications' = publications
  BY <1>1 DEF Disturb, JournalInv, IndexTypeOK
<1>7. IndexTypeOK'
  BY <1>1, <1>5, <1>6 DEF JournalInv, IndexTypeOK, git, tables
<1>8. RoomToPublish' /\ EventsOfCommits'
  BY <1>1, <1>6 DEF JournalInv, RoomToPublish, Kept, EventsOfCommits, HEAD, git
<1>9. \A o \in Indexers : work'[o] = work[o]
  BY <1>5, OperatorAssumption DEF Processes
<1>10. TasksHaveEvents'
  BY <1>1, <1>2, <1>3, <1>5, <1>9 DEF JournalInv, TasksHaveEvents
<1>11. QED
  BY <1>1, <1>7, <1>8, <1>10 DEF JournalInv, tables

\* The operator stores units and marker.
LEMMA RebuildKeepsJournal ==
  ASSUME JournalInv, rebuildSpaceProjections
  PROVE  JournalInv' /\ rebuilt /\ rebuilt' = rebuilt
<1> DEFINE gone == {p \in PathsOf(work[Operator].vault) : document[p] = 0}
<1>1. /\ work[Operator].at = "writing" /\ rebuildUnits(Operator, gone)
      /\ marker' = [marker EXCEPT ![work[Operator].vault] = work[Operator].revision]
      /\ work' = [work EXCEPT ![Operator] = Idle]
      /\ UNCHANGED <<git, event, document, relation, run, history, bounds>>
  BY Zenon DEF rebuildSpaceProjections
<1>2. Operator \in Processes
  BY DEF Processes
<1>3. work[Operator] # Idle /\ work[Operator].vault \in Vaults /\ work[Operator].revision \in Versions
  BY <1>1, <1>2, BusyHasTask, TaskIsBusy, RevisionsAreNumbers DEF JournalInv
<1>4. unit' \in [Revisions -> Files]
  BY <1>1, <1>2, <1>3, UnitsAreFiles
<1>5. marker' \in [Vaults -> Versions]
  BY <1>1, <1>3 DEF JournalInv, IndexTypeOK
<1>6. Stops(Operator)
  BY <1>1, <1>2, StopsIdle DEF JournalInv
<1>7. StoreTypeOK' /\ SameJournal
  BY <1>1, <1>4, <1>5 DEF JournalInv, IndexTypeOK, StoreTypeOK, SameJournal, git, history, bounds
<1>8. JournalInv'
  BY <1>2, <1>6, <1>7, ProcessKeepsJournal DEF SameJournal
<1>9. rebuilt
  BY <1>3 DEF JournalInv, TasksHaveEvents
<1>10. QED
  BY <1>7, <1>8, <1>9 DEF SameJournal

\* The journal starts empty.
LEMMA JournalStarts == IndexInit => JournalInv
<1> SUFFICES ASSUME IndexInit PROVE JournalInv
  OBVIOUS
<1>1. NoFiles \in Files
  BY RevisionsAreNumbers DEF NoFiles, Files
<1>2. main \in Seq(Files) /\ Len(main) = 1 /\ HEAD = 1
  BY <1>1 DEF IndexInit, HEAD
<1>3. IndexTypeOK
  BY <1>1, <1>2, RevisionsAreNumbers, PublicationAssumption DEF IndexInit, IndexTypeOK
<1>4. RoomToPublish
  BY <1>2, RevisionsAreNumbers DEF IndexInit, RoomToPublish, Kept
<1>5. EventsOfCommits
  BY DEF IndexInit, EventsOfCommits
<1>6. TasksHaveEvents
  BY DEF IndexInit, TasksHaveEvents, Processes
<1>7. QED
  BY <1>3, <1>4, <1>5, <1>6 DEF JournalInv

\* The steps of a task but its last keep the journal, whoever does them.
LEMMA TaskStepKeepsJournal ==
  ASSUME JournalInv, NEW w \in Processes,
         IndexStep(w) \/ indexFails(w) \/ processDies(w)
  PROVE  JournalInv'
<1> DEFINE Ends == Stops(w)
           Advances == /\ work[w] # Idle
                       /\ \E at : GoesOn(w, at) /\ (w = Operator => at \in OperatorPhases)
<1>1. ASSUME StoreTypeOK', SameJournal, Ends \/ Advances
      PROVE  JournalInv'
  BY <1>1, ProcessKeepsJournal DEF SameJournal
<1>2. ASSUME w \in Indexers, work[w] # Idle, NEW at, GoesOn(w, at)
      PROVE  Advances
  BY <1>2, OperatorAssumption
<1>3. "writing" \in OperatorPhases /\ "linking" \in OperatorPhases /\ "collecting" \in OperatorPhases
  BY DEF OperatorPhases
<1>4. ASSUME checkRevision(w) PROVE JournalInv'
  BY <1>1, <1>2, <1>4, CheckEffect
<1>5. ASSUME startIncrementalRun(w) PROVE JournalInv'
  BY <1>1, <1>2, <1>5, StartEffect
<1>6. ASSUME currentVaultIndexRevision(w) PROVE JournalInv'
  BY <1>1, <1>2, <1>6, MarkerEffect
<1>7. ASSUME synchronizeManagedPaths(w) PROVE JournalInv'
  BY <1>1, <1>2, <1>7, SynchronizeEffect
<1>8. ASSUME collectDocuments(w) PROVE JournalInv'
  BY <1>1, <1>3, <1>8, CollectEffect
<1>9. ASSUME rebuildChangedUnits(w) PROVE JournalInv'
  BY <1>1, <1>2, <1>9, WriteEffect
<1>10. ASSUME readLinks(w) PROVE JournalInv'
  BY <1>1, <1>3, <1>10, ReadLinksEffect
<1>11. ASSUME rebuildManagedRelations(w) PROVE JournalInv'
  BY <1>1, <1>3, <1>11, RelateEffect
<1>12. ASSUME markVaultIndexRevision(w) PROVE JournalInv'
  BY <1>1, <1>2, <1>12, MarkEffect
<1>13. ASSUME completeIncrementalRun(w) PROVE JournalInv'
  BY <1>1, <1>2, <1>13, CompleteEffect
<1>14. ASSUME indexFails(w) PROVE JournalInv'
  BY <1>1, <1>14, FailEffect
<1>15. ASSUME processDies(w) PROVE JournalInv'
  BY <1>1, <1>15, DieEffect
<1>16. QED
  BY <1>4, <1>5, <1>6, <1>7, <1>8, <1>9, <1>10, <1>11, <1>12, <1>13, <1>14, <1>15,
     AcknowledgeKeepsJournal DEF IndexStep

\* Every step of anybody keeps the journal.
LEMMA JournalStep == JournalInv /\ [IndexNext]_indexVars => JournalInv'
<1> SUFFICES ASSUME JournalInv, [IndexNext]_indexVars PROVE JournalInv'
  OBVIOUS
<1>1. ASSUME NEW p \in Paths, NEW operation \in {"UPDATE", "DELETE"}, mergeDraft(p, operation)
      PROVE  JournalInv'
  BY <1>1, MergeEffect, CommitKeepsJournal
<1>2. ASSUME compensateGit PROVE JournalInv'
  BY <1>2, CompensateEffect, CommitKeepsJournal
<1>3. ASSUME UNCHANGED indexVars PROVE JournalInv'
  BY <1>3 DEF indexVars, git, tables, history, bounds, JournalInv, IndexTypeOK, RoomToPublish, Kept,
              EventsOfCommits, TasksHaveEvents, HEAD
<1>4. QED
  BY <1>1, <1>2, <1>3, LifecycleKeepsJournal, TakeKeepsJournal, TaskStepKeepsJournal,
     StartRebuildKeepsJournal, RebuildKeepsJournal DEF IndexNext, Publish

\* The journal is right in every reachable state.
LEMMA JournalHolds == IndexSpec => []JournalInv
BY JournalStarts, JournalStep, PTL DEF IndexSpec

-----------------------------------------------------------------------------
(* One worker: what it has found, and what is clean.                            *)

\* Until a rebuild is asked for, only workers work.
LEMMA TaskIsWorkers ==
  ASSUME JournalInv, ~rebuilt, NEW w \in Processes, work[w] # Idle
  PROVE  w \in Indexers
BY DEF JournalInv, TasksHaveEvents, Processes

\* What a worker's task says of its event.
LEMMA WorkFacts ==
  ASSUME JournalInv, NEW w \in Indexers, work[w] # Idle
  PROVE  LET r == work[w].revision
         IN  /\ work[w] \in Task /\ r \in Revisions /\ r \in Nat /\ r # 0 /\ r <= HEAD
             /\ event[r] # Unpublished /\ event[r].status = "open" /\ event[r].path \in Paths
             /\ VaultOfRevision(r) = work[w].vault /\ work[w].vault \in Vaults
<1>1. w \in Processes
  BY DEF Processes
<1>2. work[w] \in Task
  BY <1>1, BusyHasTask DEF JournalInv
<1>3. work[w].revision \in Revisions /\ work[w].vault \in Vaults
  BY <1>2, TaskIsBusy
<1>4. event[work[w].revision].status = "open" /\ VaultOfRevision(work[w].revision) = work[w].vault
  BY DEF JournalInv, TasksHaveEvents, VaultOfRevision
<1>5. event[work[w].revision] # Unpublished
  BY <1>4, OpenIsPublished
<1>6. event[work[w].revision].path \in Paths /\ work[w].revision <= HEAD
  BY <1>3, <1>5, EventOfRevision DEF JournalInv, EventsOfCommits
<1>7. QED
  BY <1>2, <1>3, <1>4, <1>5, <1>6, RevisionsAreNumbers

\* What was started has an event, a path and a vault.
LEMMA StartedFacts ==
  ASSUME JournalInv, TracesOfStarted, NEW s \in Revisions, Started(s)
  PROVE  /\ s \in Nat /\ s # 0 /\ s <= HEAD /\ event[s] # Unpublished
         /\ event[s].path \in Paths /\ VaultOfRevision(s) \in Vaults
         /\ marker[VaultOfRevision(s)] \in Versions /\ marker[VaultOfRevision(s)] \in Nat
         /\ marker[VaultOfRevision(s)] # 0 => marker[VaultOfRevision(s)] \in Revisions
<1>1. event[s] # Unpublished
  BY DEF TracesOfStarted
<1>2. event[s].path \in Paths /\ VaultOfRevision(s) \in Vaults /\ s <= HEAD
  BY <1>1, EventOfRevision DEF JournalInv, EventsOfCommits
<1>3. marker[VaultOfRevision(s)] \in Versions
  BY <1>2 DEF JournalInv, IndexTypeOK
<1>4. QED
  BY <1>1, <1>2, <1>3, RevisionsAreNumbers

\* While a worker indexes a revision that its vault does not serve yet, nothing
\* else on its path is clean.
LEMMA BusyPathIsNotClean ==
  ASSUME JournalInv, ServedInv, NEW w \in Indexers, work[w] # Idle, Indexing(w),
         Started(work[w].revision), marker[work[w].vault] # work[w].revision,
         NEW s \in Revisions, Clean(s)
  PROVE  event[s].path # event[work[w].revision].path
<1> DEFINE r == work[w].revision
<1>1. /\ r \in Revisions /\ r \in Nat /\ r # 0 /\ VaultOfRevision(r) = work[w].vault
      /\ work[w].vault \in Vaults
  BY WorkFacts
<1>2. Started(s) /\ s <= r /\ s \in Nat
  BY RevisionsAreNumbers DEF ServedInv, NewestIsIndexed, Clean
<1>3. CASE s < r
  BY <1>1, <1>2, <1>3 DEF Clean
<1>4. CASE s = r
  <2>1. run[r] = "COMPLETED"
    BY <1>1, <1>4 DEF Clean
  <2>2. marker[work[w].vault] >= r
    BY <1>1, <2>1 DEF ServedInv, TracesOfStarted
  <2>3. marker[work[w].vault] \in Revisions
    <3>1. marker[work[w].vault] \in Versions
      BY <1>1 DEF JournalInv, IndexTypeOK
    <3>2. marker[work[w].vault] \in Nat
      BY <3>1, RevisionsAreNumbers
    <3>3. marker[work[w].vault] # 0
      BY <1>1, <2>2, <3>2
    <3>4. QED
      BY <3>1, <3>3, RevisionsAreNumbers
  <2>4. marker[work[w].vault] <= r
    BY <1>1, <2>3, RevisionsAreNumbers DEF ServedInv, MarkersOfStarted, NewestIsIndexed
  <2>5. QED
    <3>1. marker[work[w].vault] \in Nat
      BY <2>3, RevisionsAreNumbers
    <3>2. marker[work[w].vault] = r
      BY <1>1, <2>2, <2>4, <3>1
    <3>3. QED
      BY <3>2
<1>5. QED
  BY <1>1, <1>2, <1>3, <1>4

\* No vault serves more than the newest revision that was started.
LEMMA MarkerIsBehind ==
  ASSUME JournalInv, ServedInv, NEW w \in Indexers, work[w] # Idle, Indexing(w)
  PROVE  \A v \in Vaults : marker[v] \in Nat /\ marker[v] <= work[w].revision
<1>1. work[w].revision \in Nat
  BY WorkFacts
<1>2. ASSUME NEW v \in Vaults PROVE marker[v] \in Nat /\ marker[v] <= work[w].revision
  <2>1. marker[v] \in Versions /\ marker[v] \in Nat
    BY RevisionsAreNumbers DEF JournalInv, IndexTypeOK
  <2>2. CASE marker[v] # 0
    BY <1>1, <2>1, <2>2, RevisionsAreNumbers DEF ServedInv, MarkersOfStarted, NewestIsIndexed
  <2>3. CASE marker[v] = 0
    BY <1>1, <2>3
  <2>4. QED
    BY <2>1, <2>2, <2>3
<1>3. QED
  BY <1>2

-----------------------------------------------------------------------------
(* Steps that leave the tables and the runs alone.                              *)

\* Neither the tables nor what is known of them changes.
LEMMA StoreStands ==
  ASSUME JournalInv, ServedInv,
         UNCHANGED <<document, unit, relation, marker, run>>,
         \A s \in Revisions : event[s] # Unpublished =>
           event'[s] # Unpublished /\ event'[s].path = event[s].path /\ main'[s] = main[s],
         \A s \in Revisions : event'[s].status = "done" /\ s \notin skipped' => run[s] = "COMPLETED"
  PROVE  /\ TracesOfStarted' /\ MarkersOfStarted' /\ CleanIsServed'
         /\ \A s \in Revisions : Started(s) /\ SnapshotHolds(s) => SnapshotHolds(s)'
<1>1. \A s \in Revisions : Started(s)' <=> Started(s)
  BY DEF Started
<1>2. \A s \in Revisions : Started(s) =>
        /\ event'[s] # Unpublished /\ event'[s].path = event[s].path /\ main'[s] = main[s]
        /\ VaultOfRevision(s)' = VaultOfRevision(s)
  BY DEF ServedInv, TracesOfStarted, VaultOfRevision
<1>3. TracesOfStarted'
  <2>1. \A s \in Revisions : \A p \in Paths : unit[s][p] # 0 => Started(s)
    BY DEF ServedInv, TracesOfStarted, NoFiles
  <2>2. \A s \in Revisions : run[s] = "COMPLETED" => Started(s)
    BY DEF Started
  <2>3. QED
    BY <1>1, <1>2, <2>1, <2>2 DEF ServedInv, TracesOfStarted
<1>4. MarkersOfStarted'
  <2>1. \A v \in Vaults : marker[v] # 0 => marker[v] \in Revisions
    BY RevisionsAreNumbers DEF JournalInv, IndexTypeOK
  <2>2. QED
    BY <1>1, <1>2, <2>1 DEF ServedInv, MarkersOfStarted
<1>5. \A s \in Revisions : Clean(s)' <=> Clean(s)
  BY <1>1, <1>2 DEF Clean
<1>6. \A s \in Revisions : Clean(s) => Started(s)
  BY DEF Clean
<1>7. CleanIsServed'
  BY <1>2, <1>5, <1>6 DEF ServedInv, CleanIsServed
<1>8. ASSUME NEW s \in Revisions, Started(s), SnapshotHolds(s) PROVE SnapshotHolds(s)'
  BY <1>2, <1>5, <1>6, <1>8 DEF SnapshotHolds
<1>9. QED
  BY <1>3, <1>4, <1>7, <1>8

\* A publication's steps, and the task of the worker stays what it is.
LEMMA TaskStands ==
  ASSUME JournalInv, ServedInv,
         UNCHANGED <<document, unit, relation, marker, run, skipped>>,
         \A s \in Revisions : event[s] # Unpublished =>
           event'[s] # Unpublished /\ event'[s].path = event[s].path /\ main'[s] = main[s],
         \A s \in Revisions : Started(s) /\ SnapshotHolds(s) => SnapshotHolds(s)',
         NEW w \in Indexers, work[w] # Idle, work'[w] = work[w]
  PROVE  Progress(w)'
<1>1. /\ work[w] \in Task /\ work[w].revision \in Revisions
      /\ event[work[w].revision] # Unpublished
  BY WorkFacts
<1>2. Progress(w)
  BY DEF ServedInv, ProgressInv
<1>3. work[w].at \in {"relating", "linking", "marking"} => SnapshotHolds(work[w].revision)'
  <2>1. work[w].at \in {"relating", "linking", "marking"} =>
          SnapshotHolds(work[w].revision) /\ Started(work[w].revision)
    BY <1>2 DEF Progress, Started, WorkerPhases
  <2>2. QED
    BY <1>1, <2>1
<1>4. /\ event'[work[w].revision].path = event[work[w].revision].path
      /\ main'[work[w].revision] = main[work[w].revision]
  BY <1>1
<1>5. QED
  BY <1>2, <1>3, <1>4 DEF Progress

\* A commit changes nothing that was indexed.
LEMMA CommitStep ==
  ASSUME JournalInv, ServedInv, NEW f, Commits(f), event' = event, SameIndex
  PROVE  ServedInv'
<1>1. /\ UNCHANGED <<document, unit, relation, marker, run, work, skipped>>
      /\ \A s \in Revisions : event[s] # Unpublished =>
           event'[s] # Unpublished /\ event'[s].path = event[s].path /\ main'[s] = main[s]
  BY DEF SameIndex, Commits, JournalInv, EventsOfCommits
<1>2. \A s \in Revisions : event'[s].status = "done" /\ s \notin skipped' => run[s] = "COMPLETED"
  BY <1>1 DEF ServedInv, TracesOfStarted
<1>3. /\ TracesOfStarted' /\ MarkersOfStarted' /\ CleanIsServed'
      /\ \A s \in Revisions : Started(s) /\ SnapshotHolds(s) => SnapshotHolds(s)'
  BY <1>1, <1>2, StoreStands
<1>4. ProgressInv'
  BY <1>1, <1>3, TaskStands DEF ProgressInv
<1>5. NewestIsIndexed'
  <2>1. \A r \in skipped : r < HEAD'
    <3>1. \A r \in skipped : r \in Nat /\ r < HEAD
      BY RevisionsAreNumbers DEF ServedInv, NewestIsIndexed, JournalInv, IndexTypeOK
    <3>2. HEAD' = HEAD + 1 /\ HEAD \in Nat
      BY HeadInRange DEF Commits, HeadIsRevision
    <3>3. QED
      BY <3>1, <3>2
  <2>2. \A w \in Indexers : Indexing(w)' <=> Indexing(w)
    BY <1>1 DEF Indexing
  <2>3. \A s \in Revisions : Started(s)' <=> Started(s)
    BY <1>1 DEF Started
  <2>4. QED
    BY <1>1, <2>1, <2>2, <2>3 DEF ServedInv, NewestIsIndexed
<1>6. QED
  BY <1>3, <1>4, <1>5 DEF ServedInv

\* A new event has not been started.
LEMMA LifecycleStep ==
  ASSUME JournalInv, ServedInv, appendPublicationLifecycle
  PROVE  ServedInv'
<1>1. /\ main' = main /\ SameIndex
      /\ event[HEAD] = Unpublished
      /\ \A s \in Revisions : s # HEAD => event'[s] = event[s]
      /\ event'[HEAD].status = "open"
  BY LifecycleEffect
<1>2. /\ UNCHANGED <<document, unit, relation, marker, run, work, skipped>>
      /\ \A s \in Revisions : event[s] # Unpublished =>
           event'[s] # Unpublished /\ event'[s].path = event[s].path /\ main'[s] = main[s]
  BY <1>1 DEF SameIndex
<1>3. \A s \in Revisions : event'[s].status = "done" /\ s \notin skipped' => run[s] = "COMPLETED"
  BY <1>1, <1>2 DEF ServedInv, TracesOfStarted
<1>4. /\ TracesOfStarted' /\ MarkersOfStarted' /\ CleanIsServed'
      /\ \A s \in Revisions : Started(s) /\ SnapshotHolds(s) => SnapshotHolds(s)'
  BY <1>2, <1>3, StoreStands
<1>5. ProgressInv'
  BY <1>2, <1>4, TaskStands DEF ProgressInv
<1>6. NewestIsIndexed'
  <2>1. HEAD' = HEAD
    BY <1>1 DEF HEAD
  <2>2. \A w \in Indexers : Indexing(w)' <=> Indexing(w)
    BY <1>2 DEF Indexing
  <2>3. \A s \in Revisions : Started(s)' <=> Started(s)
    BY <1>2 DEF Started
  <2>4. QED
    BY <1>2, <2>1, <2>2, <2>3 DEF ServedInv, NewestIsIndexed
<1>7. QED
  BY <1>4, <1>5, <1>6 DEF ServedInv

\* The steps of a task that change none of the tables: what the next phase may
\* count on.
LEMMA TaskMoves ==
  ASSUME JournalInv, ServedInv, OneIndexer, NEW w \in Indexers, SameJournal,
         UNCHANGED <<document, unit, relation, marker, run>>,
         \A s \in Revisions : s \in skipped => s \in skipped',
         \A s \in skipped' : s < HEAD,
         work'[w] # Idle => Progress(w)',
         Indexing(w)' => /\ work'[w].revision \notin skipped'
                         /\ \A s \in Revisions : Started(s) => s <= work'[w].revision
  PROVE  ServedInv'
<1>1. /\ event' = event /\ main' = main
      /\ \A s \in Revisions : event[s] # Unpublished =>
           event'[s] # Unpublished /\ event'[s].path = event[s].path /\ main'[s] = main[s]
  BY DEF SameJournal
<1>2. \A s \in Revisions : event'[s].status = "done" /\ s \notin skipped' => run[s] = "COMPLETED"
  BY <1>1 DEF ServedInv, TracesOfStarted
<1>3. TracesOfStarted' /\ MarkersOfStarted' /\ CleanIsServed'
  BY <1>1, <1>2, StoreStands
<1>4. \A o \in Indexers : o = w
  BY DEF OneIndexer
<1>5. ProgressInv'
  BY <1>4 DEF ProgressInv
<1>6. HEAD' = HEAD
  BY <1>1 DEF HEAD
<1>7. \A s \in Revisions : Started(s)' <=> Started(s)
  BY DEF Started
<1>8. NewestIsIndexed'
  BY <1>4, <1>6, <1>7 DEF NewestIsIndexed
<1>9. QED
  BY <1>3, <1>5, <1>8 DEF ServedInv

\* A worker that has just taken an event knows nothing yet.
LEMMA TakeStep ==
  ASSUME JournalInv, ServedInv, OneIndexer, NEW w \in Indexers, NEW r \in Revisions, takeEvent(w, r)
  PROVE  ServedInv'
<1>1. /\ SameJournal /\ UNCHANGED <<document, unit, relation, marker, run, skipped>>
      /\ work'[w].at = "taken"
  BY TakeEffect
<1>2. ~Indexing(w)' /\ Progress(w)'
  BY <1>1 DEF Indexing, Progress, WorkerPhases
<1>3. \A s \in skipped' : s < HEAD
  BY <1>1 DEF ServedInv, NewestIsIndexed
<1>4. QED
  BY <1>1, <1>2, <1>3, TaskMoves

\* Whoever goes on has found its event at the head; so nothing newer was started.
LEMMA CheckStep ==
  ASSUME JournalInv, ServedInv, OneIndexer, NEW w \in Indexers, checkRevision(w)
  PROVE  ServedInv'
<1> DEFINE r == work[w].revision
<1>1. /\ work[w] # Idle /\ SameJournal /\ UNCHANGED <<document, unit, relation, marker, run>>
      /\ \/ GoesOn(w, "starting") /\ r = HEAD /\ skipped' = skipped
         \/ GoesOn(w, "acknowledging") /\ r # HEAD /\ skipped' = skipped \cup {r}
  BY CheckEffect DEF Processes
<1>2. r \in Revisions /\ r \in Nat /\ r <= HEAD
  BY <1>1, WorkFacts
<1>3. \A s \in skipped : s < HEAD
  BY DEF ServedInv, NewestIsIndexed
<1>4. CASE GoesOn(w, "starting") /\ r = HEAD /\ skipped' = skipped
  <2>1. work'[w].at = "starting" /\ work'[w].revision = r
    BY <1>4 DEF GoesOn
  <2>2. Progress(w)'
    BY <2>1 DEF Progress
  <2>3. r \notin skipped'
    BY <1>2, <1>3, <1>4
  <2>4. \A s \in Revisions : Started(s) => s <= r
    BY <1>4, StartedFacts DEF ServedInv
  <2>5. QED
    BY <1>1, <1>3, <1>4, <2>1, <2>2, <2>3, <2>4, TaskMoves
<1>5. CASE GoesOn(w, "acknowledging") /\ r # HEAD /\ skipped' = skipped \cup {r}
  <2>1. work'[w].at = "acknowledging" /\ work'[w].revision = r
    BY <1>5 DEF GoesOn
  <2>2. Progress(w)' /\ ~Indexing(w)'
    BY <1>5, <2>1 DEF Progress, Indexing, WorkerPhases
  <2>3. \A s \in skipped' : s < HEAD
    BY <1>2, <1>3, <1>5, HeadInRange DEF HeadIsRevision
  <2>4. QED
    BY <1>1, <1>5, <2>2, <2>3, TaskMoves
<1>6. QED
  BY <1>1, <1>4, <1>5

\* A worker in any phase between starting and completing is indexing.
LEMMA PhaseIsIndexing ==
  ASSUME JournalInv, ServedInv, NEW w \in Indexers, work[w] # Idle,
         work[w].at \in WorkerPhases \ {"taken", "acknowledging"}
  PROVE  /\ Indexing(w) /\ work[w].revision \notin skipped
         /\ \A s \in Revisions : Started(s) => s <= work[w].revision
<1>1. Indexing(w)
  BY DEF Indexing
<1>2. QED
  BY <1>1 DEF ServedInv, NewestIsIndexed

\* What was skipped had been overtaken.
LEMMA SkippedIsBehind ==
  ASSUME ServedInv
  PROVE  \A s \in skipped : s < HEAD
BY DEF ServedInv, NewestIsIndexed

\* A snapshot stays right while no more is known to be.
LEMMA SnapshotStands ==
  ASSUME UNCHANGED <<main, event, unit>>,
         \A s \in Revisions : Clean(s)' => Clean(s),
         NEW r \in Revisions, SnapshotHolds(r)
  PROVE  SnapshotHolds(r)'
<1>1. \A s \in Revisions : VaultOfRevision(s)' = VaultOfRevision(s)
  BY DEF VaultOfRevision
<1>2. QED
  BY <1>1 DEF SnapshotHolds

\* What is clean depends on events, markers and runs only.
LEMMA CleanStands ==
  ASSUME UNCHANGED <<event, marker, run>>
  PROVE  \A s \in Revisions : Clean(s)' => Clean(s)
BY DEF Clean, Started, VaultOfRevision

\* A revision that its vault serves already is clean, so all of it is in place.
LEMMA MarkerStep ==
  ASSUME JournalInv, ServedInv, OneIndexer, NEW w \in Indexers, currentVaultIndexRevision(w)
  PROVE  ServedInv'
<1> DEFINE r == work[w].revision
           v == work[w].vault
           p == event[r].path
<1>1. /\ work[w] # Idle /\ work[w].at = "running" /\ SameJournal
      /\ UNCHANGED <<document, unit, relation, marker, run, skipped>>
      /\ \/ GoesOn(w, "marking") /\ marker[v] = r
         \/ GoesOn(w, "synchronizing") /\ marker[v] # r
      /\ work'[w].full = (marker[v] = 0)
  BY MarkerEffect DEF Processes
<1>2. /\ r \in Revisions /\ r \in Nat /\ r # 0 /\ VaultOfRevision(r) = v /\ v \in Vaults
      /\ event' = event /\ main' = main
  BY <1>1, WorkFacts DEF SameJournal
<1>3. r \notin skipped /\ \A s \in Revisions : Started(s) => s <= r
  BY <1>1, PhaseIsIndexing DEF WorkerPhases
<1>4. run[r] \in {"RUNNING", "COMPLETED"} /\ Started(r)
  <2>1. Progress(w)
    BY <1>1 DEF ServedInv, ProgressInv
  <2>2. run[r] \in {"RUNNING", "COMPLETED"}
    BY <1>1, <2>1 DEF Progress, WorkerPhases
  <2>3. QED
    BY <2>2 DEF Started
<1>5. work'[w].revision = r /\ work'[w].vault = v
  BY <1>1 DEF GoesOn
<1>6. Progress(w)'
  <2>1. CASE GoesOn(w, "synchronizing") /\ marker[v] # r
    <3>1. work'[w].at = "synchronizing"
      BY <2>1 DEF GoesOn
    <3>2. QED
      BY <1>1, <1>4, <1>5, <2>1, <3>1 DEF Progress
  <2>2. CASE GoesOn(w, "marking") /\ marker[v] = r
    <3>1. work'[w].at = "marking"
      BY <2>2 DEF GoesOn
    <3>2. Clean(r)
      <4>1. \A s \in Revisions : Started(s) => ~(s > r)
        BY <1>2, <1>3, RevisionsAreNumbers
      <4>2. QED
        BY <1>2, <1>4, <2>2, <4>1 DEF Clean
    <3>3. document[p] = main[r][p] /\ relation[p] = main[r][p] /\ unit[r][p] = main[r][p]
      BY <1>2, <2>2, <3>2 DEF ServedInv, CleanIsServed, VaultOfRevision
    <3>4. SnapshotHolds(r)
      <4>1. ASSUME NEW s \in Revisions, Clean(s), VaultOfRevision(s) = VaultOfRevision(r)
            PROVE  unit[r][event[s].path] = main[s][event[s].path]
        BY <1>2, <2>2, <4>1 DEF ServedInv, CleanIsServed, VaultOfRevision
      <4>2. QED
        BY <3>3, <4>1 DEF SnapshotHolds
    <3>5. SnapshotHolds(r)'
      BY <1>1, <1>2, <1>5, <3>4, CleanStands, SnapshotStands
    <3>6. QED
      BY <1>1, <1>2, <1>4, <1>5, <3>1, <3>3, <3>5 DEF Progress
  <2>3. QED
    BY <1>1, <2>1, <2>2
<1>7. \A s \in skipped' : s < HEAD
  BY <1>1, SkippedIsBehind
<1>8. QED
  BY <1>1, <1>3, <1>5, <1>6, <1>7, TaskMoves

\* What the worker reads is what is there: nobody else writes documents.
LEMMA CollectStep ==
  ASSUME JournalInv, ServedInv, OneIndexer, NEW w \in Indexers, collectDocuments(w)
  PROVE  ServedInv'
<1>1. /\ work[w] # Idle /\ work[w].at = "collecting" /\ SameJournal
      /\ UNCHANGED <<document, unit, relation, marker, run, skipped>>
      /\ GoesOn(w, "writing") /\ work'[w].full = work[w].full /\ work'[w].seen = document
  BY CollectEffect DEF Processes
<1>2. /\ work'[w].at = "writing" /\ work'[w].revision = work[w].revision
      /\ work'[w].vault = work[w].vault /\ event' = event /\ main' = main
  BY <1>1 DEF GoesOn, SameJournal
<1>3. work[w].revision \notin skipped /\ \A s \in Revisions : Started(s) => s <= work[w].revision
  BY <1>1, PhaseIsIndexing DEF WorkerPhases
<1>4. Progress(w)
  BY <1>1 DEF ServedInv, ProgressInv
<1>5. Progress(w)'
  BY <1>1, <1>2, <1>4 DEF Progress, WorkerPhases
<1>6. \A s \in skipped' : s < HEAD
  BY <1>1, SkippedIsBehind
<1>7. QED
  BY <1>1, <1>2, <1>3, <1>5, <1>6, TaskMoves

\* The documents do not change between their reading and their use.
LEMMA ReadLinksStep ==
  ASSUME JournalInv, ServedInv, OneIndexer, NEW w \in Indexers, readLinks(w)
  PROVE  ServedInv'
<1>1. /\ work[w] # Idle /\ work[w].at = "relating" /\ SameJournal
      /\ UNCHANGED <<document, unit, relation, marker, run, skipped>>
      /\ GoesOn(w, "linking") /\ work'[w].seen = document
  BY ReadLinksEffect DEF Processes
<1>2. /\ work'[w].at = "linking" /\ work'[w].revision = work[w].revision
      /\ work'[w].vault = work[w].vault /\ event' = event /\ main' = main
  BY <1>1 DEF GoesOn, SameJournal
<1>3. work[w].revision \notin skipped /\ \A s \in Revisions : Started(s) => s <= work[w].revision
  BY <1>1, PhaseIsIndexing DEF WorkerPhases
<1>4. Progress(w)
  BY <1>1 DEF ServedInv, ProgressInv
<1>5. SnapshotHolds(work[w].revision)'
  BY <1>1, <1>2, <1>4 DEF Progress, SnapshotHolds, Clean, Started, VaultOfRevision
<1>6. Progress(w)'
  BY <1>1, <1>2, <1>4, <1>5 DEF Progress, WorkerPhases
<1>7. \A s \in skipped' : s < HEAD
  BY <1>1, SkippedIsBehind
<1>8. QED
  BY <1>1, <1>2, <1>3, <1>6, <1>7, TaskMoves

\* What a worker that dies has done so far stays right.
LEMMA DieStep ==
  ASSUME JournalInv, ServedInv, OneIndexer, NEW w \in Indexers, processDies(w)
  PROVE  ServedInv'
<1>1. /\ SameJournal /\ UNCHANGED <<document, unit, relation, marker, run, skipped>>
      /\ work'[w] = Idle
  BY DieEffect DEF Processes, Stops
<1>2. ~Indexing(w)'
  BY <1>1 DEF Indexing
<1>3. \A s \in skipped' : s < HEAD
  BY <1>1, SkippedIsBehind
<1>4. QED
  BY <1>1, <1>2, <1>3, TaskMoves

-----------------------------------------------------------------------------
(* Steps that write.                                                            *)

\* With one worker, what it has done is all there is to know of tasks.
LEMMA OnlyTask ==
  ASSUME JournalInv, ServedInv, OneIndexer, NEW w \in Indexers, UNCHANGED <<main, skipped>>,
         work[w] # Idle, Indexing(w),
         \A s \in Revisions : Started(s)' => Started(s) \/ s = work[w].revision,
         work'[w] = Idle \/ (work'[w].revision = work[w].revision /\ Progress(w)')
  PROVE  NewestIsIndexed' /\ ProgressInv'
<1>1. \A o \in Indexers : o = w
  BY DEF OneIndexer
<1>2. HEAD' = HEAD
  BY DEF HEAD
<1>3. /\ work[w].revision \notin skipped /\ work[w].revision \in Nat
      /\ \A s \in Revisions : Started(s) => s <= work[w].revision
  BY WorkFacts DEF ServedInv, NewestIsIndexed
<1>4. \A s \in Revisions : Started(s)' => s <= work[w].revision
  BY <1>3
<1>5. NewestIsIndexed'
  BY <1>1, <1>2, <1>3, <1>4, SkippedIsBehind DEF NewestIsIndexed, Indexing
<1>6. ProgressInv'
  BY <1>1 DEF ProgressInv
<1>7. QED
  BY <1>5, <1>6

\* Only the run of the worker's own revision changes, from what was started or
\* to what is.
LEMMA RunStep ==
  ASSUME JournalInv, ServedInv, NEW w \in Indexers, work[w] # Idle,
         UNCHANGED <<main, event, document, unit, relation, marker, skipped>>,
         \A s \in Revisions : s # work[w].revision => run'[s] = run[s],
         run'[work[w].revision] # "none",
         run'[work[w].revision] = "COMPLETED" =>
           run[work[w].revision] = "COMPLETED" \/ marker[work[w].vault] = work[w].revision
  PROVE  /\ TracesOfStarted' /\ MarkersOfStarted' /\ CleanIsServed'
         /\ \A s \in Revisions : Clean(s)' => Clean(s)
<1> DEFINE r == work[w].revision
           v == work[w].vault
<1>1. /\ r \in Revisions /\ r \in Nat /\ r # 0 /\ VaultOfRevision(r) = v /\ v \in Vaults
      /\ event[r] # Unpublished /\ event[r].status = "open"
  BY WorkFacts
<1>2. \A s \in Revisions : Started(s) => Started(s)'
  BY DEF Started
<1>3. \A s \in Revisions : Started(s)' => Started(s) \/ s = r
  BY DEF Started
<1>4. \A s \in Revisions : VaultOfRevision(s)' = VaultOfRevision(s)
  BY DEF VaultOfRevision
<1>5. marker[v] = r => Started(r)
  BY <1>1 DEF ServedInv, MarkersOfStarted
<1>6. run[r] = "COMPLETED" => Started(r)
  BY DEF Started
<1>7. TracesOfStarted'
  <2>1. ASSUME NEW s \in Revisions
        PROVE  /\ Started(s)' => event[s] # Unpublished
               /\ ~Started(s)' => unit[s] = NoFiles
               /\ \A p \in Paths : unit[s][p] # 0 => VaultOf[p] = VaultOfRevision(s)
    BY <1>1, <1>2, <1>3 DEF ServedInv, TracesOfStarted
  <2>2. ASSUME NEW s \in Revisions, run'[s] = "COMPLETED"
        PROVE  marker[VaultOfRevision(s)] >= s
    BY <1>1, <2>2 DEF ServedInv, TracesOfStarted
  <2>3. ASSUME NEW s \in Revisions, event[s].status = "done", s \notin skipped
        PROVE  run'[s] = "COMPLETED"
    BY <1>1, <2>3 DEF ServedInv, TracesOfStarted
  <2>4. QED
    BY <1>4, <2>1, <2>2, <2>3 DEF TracesOfStarted
<1>8. MarkersOfStarted'
  <2>1. \A u \in Vaults : marker[u] # 0 => marker[u] \in Revisions
    BY RevisionsAreNumbers DEF JournalInv, IndexTypeOK
  <2>2. QED
    BY <1>2, <1>4, <2>1 DEF ServedInv, MarkersOfStarted
<1>9. ASSUME NEW s \in Revisions, Clean(s)' PROVE Clean(s)
  <2>1. \A q \in Revisions : q > s /\ Started(q) => event[q].path # event[s].path
    BY <1>2, <1>9 DEF Clean
  <2>2. run'[s] = "COMPLETED" \/ marker[VaultOfRevision(s)] = s
    BY <1>4, <1>9 DEF Clean
  <2>3. Started(s)'
    BY <1>9 DEF Clean
  <2>4. CASE s = r
    BY <1>1, <1>5, <1>6, <2>1, <2>2, <2>4 DEF Clean
  <2>5. CASE s # r
    BY <1>3, <2>1, <2>2, <2>3, <2>5 DEF Clean
  <2>6. QED
    BY <2>4, <2>5
<1>10. CleanIsServed'
  BY <1>9 DEF ServedInv, CleanIsServed
<1>11. QED
  BY <1>7, <1>8, <1>9, <1>10

\* A run that is started, or again, was not completed before.
LEMMA StartStep ==
  ASSUME JournalInv, ServedInv, OneIndexer, NEW w \in Indexers, startIncrementalRun(w)
  PROVE  ServedInv'
<1> DEFINE r == work[w].revision
<1>1. /\ work[w] # Idle /\ work[w].at = "starting" /\ SameJournal
      /\ UNCHANGED <<document, unit, relation, marker, skipped>>
      /\ GoesOn(w, "running")
      /\ \A s \in Revisions : run'[s] = IF s # r \/ run[s] = "COMPLETED" THEN run[s] ELSE "RUNNING"
  BY StartEffect DEF Processes
<1>2. r \in Revisions /\ event' = event /\ main' = main
  BY <1>1, WorkFacts DEF SameJournal
<1>3. Indexing(w)
  BY <1>1, PhaseIsIndexing DEF WorkerPhases
<1>4. run'[r] \in {"RUNNING", "COMPLETED"}
  BY <1>1, <1>2
<1>5. /\ run'[r] # "none" /\ (run'[r] = "COMPLETED" => run[r] = "COMPLETED")
      /\ \A s \in Revisions : s # r => run'[s] = run[s]
  BY <1>1, <1>2
<1>6. TracesOfStarted' /\ MarkersOfStarted' /\ CleanIsServed'
  BY <1>1, <1>2, <1>5, RunStep
<1>7. \A s \in Revisions : Started(s)' => Started(s) \/ s = r
  BY <1>5 DEF Started
<1>8. work'[w].at = "running" /\ work'[w].revision = r
  BY <1>1 DEF GoesOn
<1>9. Progress(w)'
  BY <1>4, <1>8 DEF Progress
<1>10. NewestIsIndexed' /\ ProgressInv'
  BY <1>1, <1>2, <1>3, <1>7, <1>8, <1>9, OnlyTask
<1>11. QED
  BY <1>6, <1>10 DEF ServedInv

\* A run that is recorded FAILED is no longer clean, unless its vault serves it.
LEMMA FailStep ==
  ASSUME JournalInv, ServedInv, OneIndexer, NEW w \in Indexers, indexFails(w)
  PROVE  ServedInv'
<1> DEFINE r == work[w].revision
<1>1. /\ work[w] # Idle /\ SameJournal /\ UNCHANGED <<document, unit, relation, marker, skipped>>
      /\ work'[w] = Idle
      /\ \/ run' = run
         \/ /\ work[w].at \notin {"taken", "starting"} /\ work[w].at # "acknowledging"
            /\ \A s \in Revisions : run'[s] = IF s = r THEN "FAILED" ELSE run[s]
  BY FailEffect DEF Processes, Stops
<1>2. r \in Revisions /\ work[w].at \in WorkerPhases /\ event' = event /\ main' = main
  BY <1>1, WorkFacts, TaskIsBusy DEF SameJournal
<1>3. CASE run' = run
  <2>1. ~Indexing(w)'
    BY <1>1 DEF Indexing
  <2>2. \A s \in skipped' : s < HEAD
    BY <1>1, SkippedIsBehind
  <2>3. QED
    BY <1>1, <1>3, <2>1, <2>2, TaskMoves
<1>4. CASE /\ work[w].at \notin {"taken", "starting"} /\ work[w].at # "acknowledging"
           /\ \A s \in Revisions : run'[s] = IF s = r THEN "FAILED" ELSE run[s]
  <2>1. Indexing(w)
    BY <1>1, <1>4 DEF Indexing
  <2>2. run'[r] = "FAILED" /\ \A s \in Revisions : s # r => run'[s] = run[s]
    BY <1>2, <1>4
  <2>3. TracesOfStarted' /\ MarkersOfStarted' /\ CleanIsServed'
    BY <1>1, <1>2, <2>2, RunStep
  <2>4. \A s \in Revisions : Started(s)' => Started(s) \/ s = r
    BY <2>2 DEF Started
  <2>5. NewestIsIndexed' /\ ProgressInv'
    BY <1>1, <1>2, <2>1, <2>4, OnlyTask
  <2>6. QED
    BY <2>3, <2>5 DEF ServedInv
<1>5. QED
  BY <1>1, <1>3, <1>4

\* The vault serves a run that is completed.
LEMMA CompleteStep ==
  ASSUME JournalInv, ServedInv, OneIndexer, NEW w \in Indexers, completeIncrementalRun(w)
  PROVE  ServedInv'
<1> DEFINE r == work[w].revision
<1>1. /\ work[w] # Idle /\ work[w].at = "completing" /\ SameJournal
      /\ UNCHANGED <<document, unit, relation, marker, skipped>>
      /\ GoesOn(w, "acknowledging")
      /\ \A s \in Revisions : run'[s] = IF s = r THEN "COMPLETED" ELSE run[s]
  BY CompleteEffect DEF Processes
<1>2. r \in Revisions /\ event' = event /\ main' = main
  BY <1>1, WorkFacts DEF SameJournal
<1>3. Indexing(w)
  BY <1>1, PhaseIsIndexing DEF WorkerPhases
<1>4. Progress(w)
  BY <1>1 DEF ServedInv, ProgressInv
<1>5. marker[work[w].vault] = r
  BY <1>1, <1>4 DEF Progress
<1>6. run'[r] = "COMPLETED" /\ \A s \in Revisions : s # r => run'[s] = run[s]
  BY <1>1, <1>2
<1>7. TracesOfStarted' /\ MarkersOfStarted' /\ CleanIsServed'
  BY <1>1, <1>2, <1>5, <1>6, RunStep
<1>8. \A s \in Revisions : Started(s)' => Started(s) \/ s = r
  BY <1>6 DEF Started
<1>9. work'[w].at = "acknowledging" /\ work'[w].revision = r
  BY <1>1 DEF GoesOn
<1>10. Progress(w)'
  BY <1>6, <1>9 DEF Progress, WorkerPhases
<1>11. NewestIsIndexed' /\ ProgressInv'
  BY <1>1, <1>2, <1>3, <1>8, <1>9, <1>10, OnlyTask
<1>12. QED
  BY <1>7, <1>11 DEF ServedInv

\* What a worker between running and completing can count on.
LEMMA RunningFacts ==
  ASSUME JournalInv, ServedInv, NEW w \in Indexers, work[w] # Idle,
         work[w].at \in WorkerPhases \ {"taken", "starting", "acknowledging"}
  PROVE  LET r == work[w].revision
         IN  /\ Progress(w) /\ Indexing(w) /\ Started(r) /\ run[r] \in {"RUNNING", "COMPLETED"}
             /\ r \notin skipped /\ \A s \in Revisions : Started(s) => s <= r
<1>1. Progress(w)
  BY DEF ServedInv, ProgressInv
<1>2. run[work[w].revision] \in {"RUNNING", "COMPLETED"}
  BY <1>1 DEF Progress
<1>3. QED
  BY <1>1, <1>2, PhaseIsIndexing DEF Started

\* The path whose document changes is not clean yet.
LEMMA SynchronizeStep ==
  ASSUME JournalInv, ServedInv, OneIndexer, NEW w \in Indexers, synchronizeManagedPaths(w)
  PROVE  ServedInv'
<1> DEFINE r == work[w].revision
           p == event[r].path
<1>1. /\ work[w] # Idle /\ work[w].at = "synchronizing" /\ SameJournal
      /\ UNCHANGED <<unit, relation, marker, run, skipped>>
      /\ GoesOn(w, "collecting") /\ work'[w].full = work[w].full
      /\ document'[p] = main[r][p]
      /\ \A q \in Paths : q # p => document'[q] = document[q]
  BY SynchronizeEffect DEF Processes
<1>2. r \in Revisions /\ event' = event /\ main' = main
  BY <1>1, WorkFacts DEF SameJournal
<1>3. Progress(w) /\ Indexing(w) /\ Started(r) /\ run[r] \in {"RUNNING", "COMPLETED"}
  BY <1>1, RunningFacts DEF WorkerPhases
<1>4. marker[work[w].vault] # r /\ work[w].full = (marker[work[w].vault] = 0)
  BY <1>1, <1>3 DEF Progress
<1>5. /\ \A s \in Revisions : Started(s)' <=> Started(s)
      /\ \A s \in Revisions : VaultOfRevision(s)' = VaultOfRevision(s)
  BY <1>1, <1>2 DEF Started, VaultOfRevision
<1>6. \A s \in Revisions : Clean(s)' => Clean(s)
  BY <1>1, <1>2, CleanStands
<1>7. TracesOfStarted' /\ MarkersOfStarted'
  <2>1. \A u \in Vaults : marker[u] # 0 => marker[u] \in Revisions
    BY RevisionsAreNumbers DEF JournalInv, IndexTypeOK
  <2>2. QED
    BY <1>1, <1>2, <1>5, <2>1 DEF ServedInv, TracesOfStarted, MarkersOfStarted
<1>8. ASSUME NEW s \in Revisions, Clean(s)'
      PROVE  Clean(s) /\ document'[event[s].path] = document[event[s].path]
  <2>1. Clean(s) /\ event[s].path # p
    BY <1>1, <1>3, <1>4, <1>6, <1>8, BusyPathIsNotClean
  <2>2. event[s].path \in Paths
    BY <2>1, StartedFacts DEF Clean, ServedInv
  <2>3. QED
    BY <1>1, <2>1, <2>2
<1>9. CleanIsServed'
  BY <1>1, <1>2, <1>8 DEF ServedInv, CleanIsServed
<1>10. /\ work'[w].at = "collecting" /\ work'[w].revision = r /\ work'[w].vault = work[w].vault
  BY <1>1 DEF GoesOn
<1>11. Progress(w)'
  BY <1>1, <1>2, <1>3, <1>4, <1>10 DEF Progress
<1>12. NewestIsIndexed' /\ ProgressInv'
  BY <1>1, <1>2, <1>3, <1>5, <1>10, <1>11, OnlyTask
<1>13. QED
  BY <1>7, <1>9, <1>12 DEF ServedInv

\* The relations become those of the documents, which are right where anything is.
LEMMA RelateStep ==
  ASSUME JournalInv, ServedInv, OneIndexer, NEW w \in Indexers, rebuildManagedRelations(w)
  PROVE  ServedInv'
<1> DEFINE r == work[w].revision
           v == work[w].vault
           p == event[r].path
<1>1. /\ work[w] # Idle /\ work[w].at = "linking" /\ SameJournal
      /\ UNCHANGED <<document, unit, marker, run, skipped>>
      /\ GoesOn(w, "marking")
      /\ \A q \in Paths : relation'[q] = IF VaultOf[q] = v THEN work[w].seen[q] ELSE relation[q]
  BY RelateEffect, OperatorAssumption DEF Processes
<1>2. /\ r \in Revisions /\ p \in Paths /\ VaultOf[p] = v /\ event' = event /\ main' = main
  BY <1>1, WorkFacts DEF SameJournal, VaultOfRevision
<1>3. Progress(w) /\ Indexing(w) /\ Started(r) /\ run[r] \in {"RUNNING", "COMPLETED"}
  BY <1>1, RunningFacts DEF WorkerPhases
<1>4. work[w].seen = document /\ document[p] = main[r][p] /\ SnapshotHolds(r)
  BY <1>1, <1>3 DEF Progress
<1>5. /\ \A s \in Revisions : Started(s)' <=> Started(s)
      /\ \A s \in Revisions : VaultOfRevision(s)' = VaultOfRevision(s)
  BY <1>1, <1>2 DEF Started, VaultOfRevision
<1>6. \A s \in Revisions : Clean(s)' => Clean(s)
  BY <1>1, <1>2, CleanStands
<1>7. TracesOfStarted' /\ MarkersOfStarted'
  <2>1. \A u \in Vaults : marker[u] # 0 => marker[u] \in Revisions
    BY RevisionsAreNumbers DEF JournalInv, IndexTypeOK
  <2>2. QED
    BY <1>1, <1>2, <1>5, <2>1 DEF ServedInv, TracesOfStarted, MarkersOfStarted
<1>8. ASSUME NEW s \in Revisions, Clean(s)'
      PROVE  Clean(s) /\ relation'[event[s].path] = main[s][event[s].path]
  <2>1. Clean(s)
    BY <1>6, <1>8
  <2>2. event[s].path \in Paths
    BY <2>1, StartedFacts DEF Clean, ServedInv
  <2>3. /\ document[event[s].path] = main[s][event[s].path]
        /\ relation[event[s].path] = main[s][event[s].path]
    BY <2>1 DEF ServedInv, CleanIsServed
  <2>4. QED
    BY <1>1, <1>4, <2>1, <2>2, <2>3
<1>9. CleanIsServed'
  BY <1>1, <1>2, <1>8 DEF ServedInv, CleanIsServed
<1>10. work'[w].at = "marking" /\ work'[w].revision = r
  BY <1>1 DEF GoesOn
<1>11. SnapshotHolds(r)'
  BY <1>1, <1>2, <1>4, <1>6, <1>10, SnapshotStands
<1>12. relation'[p] = main[r][p]
  BY <1>1, <1>2, <1>4
<1>13. Progress(w)'
  BY <1>1, <1>2, <1>3, <1>4, <1>10, <1>11, <1>12 DEF Progress
<1>14. NewestIsIndexed' /\ ProgressInv'
  BY <1>1, <1>2, <1>3, <1>5, <1>10, <1>13, OnlyTask
<1>15. QED
  BY <1>7, <1>9, <1>14 DEF ServedInv

-----------------------------------------------------------------------------
(* The snapshot and the marker.                                                 *)

\* The units that a worker stores: its own path as its commit left it, other
\* snapshots less what is gone, and nothing of other vaults.
LEMMA WrittenFacts ==
  ASSUME JournalInv, ServedInv, NEW w \in Indexers, rebuildChangedUnits(w)
  PROVE  LET r == work[w].revision
             v == work[w].vault
             p == event[r].path
         IN  /\ unit'[r][p] = main[r][p]
             /\ \A s \in Revisions, q \in Paths :
                  /\ VaultOf[q] # v => unit'[s][q] = unit[s][q]
                  /\ s # r => unit'[s][q] \in {0, unit[s][q]}
                  /\ marker[v] # 0 /\ s # r /\ q # p => unit'[s][q] = unit[s][q]
                  /\ marker[v] # 0 /\ q # p /\ VaultOf[q] = v =>
                       unit'[r][q] = IF document[q] # 0 /\ unit[marker[v]][q] # 0
                                     THEN unit[marker[v]][q] ELSE unit[r][q]
<1> DEFINE r == work[w].revision
           v == work[w].vault
           p == event[r].path
           gone == {q \in Rebuilt(w) : work[w].seen[q] = 0}
<1>1. /\ work[w] # Idle /\ work[w].at = "writing"
      /\ \A s \in Revisions, q \in Paths : unit'[s][q] = Written(w, gone, s, q)
  BY WriteEffect DEF Processes
<1>2. /\ r \in Revisions /\ p \in Paths /\ VaultOf[p] = v /\ w # Operator
  BY <1>1, WorkFacts, OperatorAssumption DEF VaultOfRevision
<1>3. Progress(w)
  BY <1>1, RunningFacts DEF WorkerPhases
<1>4. /\ work[w].seen = document /\ document[p] = main[r][p]
      /\ work[w].full = (marker[v] = 0) /\ marker[v] # r
  BY <1>1, <1>3 DEF Progress
<1>5. /\ marker[v] = 0 => Rebuilt(w) = PathsOf(v)
      /\ marker[v] # 0 => Rebuilt(w) = {p}
      /\ p \in Rebuilt(w)
      /\ \A q \in Paths : q \in Rebuilt(w) => VaultOf[q] = v
  BY <1>2, <1>4 DEF Rebuilt, PathsOf
<1>6. \A q \in Paths : Cloned(w, q) <=>
        /\ marker[v] # 0 /\ VaultOf[q] = v /\ q # p
        /\ document[q] # 0 /\ unit[marker[v]][q] # 0
  BY <1>2, <1>4, <1>5 DEF Cloned, PathsOf
<1>7. \A q : q \in gone <=> q \in Rebuilt(w) /\ document[q] = 0
  BY <1>4
<1> HIDE DEF gone
<1>8. unit'[r][p] = main[r][p]
  BY <1>1, <1>2, <1>4, <1>5, <1>7 DEF Written
<1>9. ASSUME NEW s \in Revisions, NEW q \in Paths
      PROVE  /\ VaultOf[q] # v => unit'[s][q] = unit[s][q]
             /\ s # r => unit'[s][q] \in {0, unit[s][q]}
             /\ marker[v] # 0 /\ s # r /\ q # p => unit'[s][q] = unit[s][q]
             /\ marker[v] # 0 /\ q # p /\ VaultOf[q] = v =>
                  unit'[r][q] = IF document[q] # 0 /\ unit[marker[v]][q] # 0
                                THEN unit[marker[v]][q] ELSE unit[r][q]
  BY <1>1, <1>2, <1>5, <1>6, <1>7 DEF Written
<1>10. QED
  BY <1>8, <1>9

\* What is clean in the worker's vault is cloned from the snapshot that is served.
LEMMA WriteStep ==
  ASSUME JournalInv, ServedInv, OneIndexer, NEW w \in Indexers, rebuildChangedUnits(w)
  PROVE  ServedInv'
<1> DEFINE r == work[w].revision
           v == work[w].vault
           p == event[r].path
<1>1. /\ work[w] # Idle /\ work[w].at = "writing" /\ SameJournal /\ StoreTypeOK'
      /\ UNCHANGED <<document, relation, marker, run, skipped>>
      /\ GoesOn(w, "relating")
  BY WriteEffect DEF Processes
<1>2. /\ r \in Revisions /\ r \in Nat /\ p \in Paths /\ VaultOf[p] = v /\ v \in Vaults
      /\ VaultOfRevision(r) = v /\ event' = event /\ main' = main
  BY <1>1, WorkFacts DEF SameJournal, VaultOfRevision
<1>3. Progress(w) /\ Indexing(w) /\ Started(r) /\ run[r] \in {"RUNNING", "COMPLETED"}
  BY <1>1, RunningFacts DEF WorkerPhases
<1>4. document[p] = main[r][p] /\ marker[v] # r
  BY <1>1, <1>3 DEF Progress
<1>5. marker[v] \in Nat /\ marker[v] <= r
  BY <1>1, <1>2, <1>3, MarkerIsBehind
<1>6. /\ unit'[r][p] = main[r][p]
      /\ \A s \in Revisions, q \in Paths :
           /\ VaultOf[q] # v => unit'[s][q] = unit[s][q]
           /\ s # r => unit'[s][q] \in {0, unit[s][q]}
           /\ marker[v] # 0 /\ s # r /\ q # p => unit'[s][q] = unit[s][q]
           /\ marker[v] # 0 /\ q # p /\ VaultOf[q] = v =>
                unit'[r][q] = IF document[q] # 0 /\ unit[marker[v]][q] # 0
                              THEN unit[marker[v]][q] ELSE unit[r][q]
  BY WrittenFacts
<1>7. /\ \A s \in Revisions : Started(s)' <=> Started(s)
      /\ \A s \in Revisions : VaultOfRevision(s)' = VaultOfRevision(s)
  BY <1>1, <1>2 DEF Started, VaultOfRevision
<1>8. \A s \in Revisions : Clean(s)' => Clean(s)
  BY <1>1, <1>2, CleanStands
<1>9. ASSUME NEW s \in Revisions, Clean(s)
      PROVE  LET q == event[s].path
                 m == marker[VaultOf[q]]
             IN  /\ q \in Paths /\ q # p /\ m \in Revisions /\ m \in Nat
                 /\ document[q] = main[s][q] /\ unit[m][q] = main[s][q]
                 /\ \A k \in Revisions : k > m => unit[k][q] \in {0, main[s][q]}
  <2>1. Started(s) /\ event[s].path # p
    BY <1>1, <1>3, <1>4, <1>9, BusyPathIsNotClean DEF Clean
  <2>2. /\ event[s].path \in Paths
        /\ marker[VaultOfRevision(s)] \in Nat
        /\ marker[VaultOfRevision(s)] # 0 => marker[VaultOfRevision(s)] \in Revisions
    BY <2>1, StartedFacts DEF ServedInv
  <2>3. QED
    BY <1>9, <2>1, <2>2 DEF ServedInv, CleanIsServed, VaultOfRevision
<1>10. ASSUME NEW s \in Revisions, Clean(s), VaultOfRevision(s) = v
       PROVE  unit'[r][event[s].path] = main[s][event[s].path]
  <2> DEFINE q == event[s].path
  <2>1. /\ q \in Paths /\ q # p /\ VaultOf[q] = v /\ marker[v] # 0
        /\ document[q] = main[s][q] /\ unit[marker[v]][q] = main[s][q]
        /\ r > marker[v] => unit[r][q] \in {0, main[s][q]}
    BY <1>2, <1>9, <1>10, RevisionsAreNumbers DEF VaultOfRevision
  <2>2. unit[r][q] \in {0, main[s][q]}
    BY <1>2, <1>4, <1>5, <2>1
  <2>3. QED
    BY <1>2, <1>6, <2>1, <2>2
<1>11. work'[w].at = "relating" /\ work'[w].revision = r /\ work'[w].vault = v
  BY <1>1 DEF GoesOn
<1>12. SnapshotHolds(r)'
  <2>1. ASSUME NEW s \in Revisions, Clean(s)', VaultOfRevision(s)' = v
        PROVE  unit'[r][event'[s].path] = main'[s][event'[s].path]
    BY <1>2, <1>7, <1>8, <1>10, <2>1
  <2>2. VaultOfRevision(r)' = v
    BY <1>2, <1>11 DEF VaultOfRevision
  <2>3. unit'[r][event'[r].path] = main'[r][event'[r].path]
    BY <1>2, <1>6
  <2>4. QED
    BY <1>11, <2>1, <2>2, <2>3 DEF SnapshotHolds
<1>13. ASSUME NEW s \in Revisions, Clean(s)
       PROVE  LET q == event[s].path
                  m == marker[VaultOf[q]]
              IN  /\ unit'[m][q] = main[s][q]
                  /\ \A k \in Revisions : k > m => unit'[k][q] \in {0, main[s][q]}
  <2> DEFINE q == event[s].path
             m == marker[VaultOf[q]]
  <2>1. /\ q \in Paths /\ q # p /\ m \in Revisions /\ m # 0 /\ unit[m][q] = main[s][q]
        /\ \A k \in Revisions : k > m => unit[k][q] \in {0, main[s][q]}
    BY <1>9, <1>13, RevisionsAreNumbers
  <2>2. CASE VaultOf[q] # v
    BY <1>6, <2>1, <2>2
  <2>3. CASE VaultOf[q] = v
    <3>1. m # r /\ \A k \in Revisions : k # r => unit'[k][q] = unit[k][q]
      <4>1. m = marker[v] /\ marker[v] # 0
        BY <2>1, <2>3
      <4>2. QED
        BY <1>4, <1>6, <2>1, <4>1
    <3>2. unit'[r][q] = main[s][q]
      BY <1>10, <1>13, <2>3 DEF VaultOfRevision
    <3>3. QED
      BY <2>1, <3>1, <3>2
  <2>4. QED
    BY <2>2, <2>3
<1>14. CleanIsServed'
  <2>1. ASSUME NEW s \in Revisions, Clean(s)
        PROVE  LET q == event[s].path
                   m == marker[VaultOf[q]]
               IN  document[q] = main[s][q] /\ relation[q] = main[s][q] /\ m # 0
    BY <2>1 DEF ServedInv, CleanIsServed
  <2>2. QED
    BY <1>1, <1>2, <1>8, <1>13, <2>1 DEF CleanIsServed
<1>15. TracesOfStarted'
  <2>1. ASSUME NEW s \in Revisions, ~Started(s) PROVE unit'[s] = NoFiles
    <3>1. s # r /\ unit[s] = NoFiles
      BY <1>3, <2>1 DEF ServedInv, TracesOfStarted
    <3>2. \A q \in Paths : unit'[s][q] = 0
      BY <1>6, <3>1 DEF NoFiles
    <3>3. unit'[s] \in Files
      BY <1>1 DEF StoreTypeOK
    <3>4. QED
      BY <3>2, <3>3 DEF NoFiles, Files
  <2>2. ASSUME NEW s \in Revisions, NEW q \in Paths, unit'[s][q] # 0
        PROVE  VaultOf[q] = VaultOfRevision(s)
    <3>1. unit[s][q] # 0 => VaultOf[q] = VaultOfRevision(s)
      BY DEF ServedInv, TracesOfStarted
    <3>2. CASE s # r
      BY <1>6, <2>2, <3>1, <3>2
    <3>3. CASE s = r
      BY <1>2, <1>6, <2>2, <3>1, <3>3
    <3>4. QED
      BY <3>2, <3>3
  <2>3. QED
    BY <1>1, <1>2, <1>7, <2>1, <2>2 DEF ServedInv, TracesOfStarted
<1>16. MarkersOfStarted'
  <2>1. \A u \in Vaults : marker[u] # 0 => marker[u] \in Revisions
    BY RevisionsAreNumbers DEF JournalInv, IndexTypeOK
  <2>2. QED
    BY <1>1, <1>2, <1>7, <2>1 DEF ServedInv, MarkersOfStarted
<1>17. Progress(w)'
  BY <1>1, <1>2, <1>3, <1>4, <1>11, <1>12 DEF Progress
<1>18. NewestIsIndexed' /\ ProgressInv'
  BY <1>1, <1>2, <1>3, <1>7, <1>11, <1>17, OnlyTask
<1>19. QED
  BY <1>14, <1>15, <1>16, <1>18 DEF ServedInv

\* The snapshot is served, and it holds all that was clean in the vault.
LEMMA MarkStep ==
  ASSUME JournalInv, ServedInv, OneIndexer, NEW w \in Indexers, markVaultIndexRevision(w)
  PROVE  ServedInv' /\ \A v \in Vaults : marker'[v] >= marker[v]
<1> DEFINE r == work[w].revision
           v == work[w].vault
           p == event[r].path
<1>1. /\ work[w] # Idle /\ work[w].at = "marking" /\ SameJournal
      /\ UNCHANGED <<document, unit, relation, run, skipped>>
      /\ GoesOn(w, "completing")
      /\ \A u \in Vaults : marker'[u] = IF u = v THEN r ELSE marker[u]
  BY MarkEffect DEF Processes
<1>2. /\ r \in Revisions /\ r \in Nat /\ r # 0 /\ p \in Paths /\ VaultOf[p] = v /\ v \in Vaults
      /\ VaultOfRevision(r) = v /\ event' = event /\ main' = main
  BY <1>1, WorkFacts DEF SameJournal, VaultOfRevision
<1>3. /\ Progress(w) /\ Indexing(w) /\ Started(r) /\ run[r] \in {"RUNNING", "COMPLETED"}
      /\ \A s \in Revisions : Started(s) => s <= r
  BY <1>1, RunningFacts DEF WorkerPhases
<1>4. document[p] = main[r][p] /\ relation[p] = main[r][p] /\ SnapshotHolds(r)
  BY <1>1, <1>3 DEF Progress
<1>5. \A u \in Vaults : marker[u] \in Nat /\ marker[u] <= r
  BY <1>1, <1>3, MarkerIsBehind
<1>6. \A u \in Vaults : marker'[u] >= marker[u]
  BY <1>1, <1>2, <1>5
<1>7. /\ \A s \in Revisions : Started(s)' <=> Started(s)
      /\ \A s \in Revisions : VaultOfRevision(s)' = VaultOfRevision(s)
  BY <1>1, <1>2 DEF Started, VaultOfRevision
<1>8. \A s \in Revisions : Started(s) =>
        s \in Nat /\ event[s] # Unpublished /\ event[s].path \in Paths /\ VaultOfRevision(s) \in Vaults
  BY StartedFacts DEF ServedInv
<1>9. ASSUME NEW s \in Revisions, Clean(s)' PROVE Started(s) /\ (s = r \/ Clean(s))
  <2>1. /\ Started(s)
        /\ \A k \in Revisions : k > s /\ Started(k) => event[k].path # event[s].path
        /\ run[s] = "COMPLETED" \/ marker'[VaultOfRevision(s)] = s
    BY <1>1, <1>2, <1>7, <1>9 DEF Clean
  <2>2. VaultOfRevision(s) \in Vaults
    BY <1>8, <2>1
  <2>3. QED
    BY <1>1, <2>1, <2>2 DEF Clean
<1>10. ASSUME NEW s \in Revisions, Clean(s)'
       PROVE  LET q == event[s].path
                  m == marker'[VaultOf[q]]
              IN  /\ document[q] = main[s][q] /\ relation[q] = main[s][q]
                  /\ m # 0 /\ unit[m][q] = main[s][q]
                  /\ \A k \in Revisions : k > m => unit[k][q] \in {0, main[s][q]}
  <2> DEFINE q == event[s].path
  <2>1. q \in Paths /\ VaultOf[q] \in Vaults
    BY <1>8, <1>9, <1>10 DEF VaultOfRevision
  <2>2. document[q] = main[s][q] /\ relation[q] = main[s][q]
    BY <1>4, <1>9, <1>10 DEF ServedInv, CleanIsServed
  <2>3. CASE VaultOf[q] = v
    <3>1. marker'[VaultOf[q]] = r
      BY <1>1, <1>2, <2>3
    <3>2. unit[r][q] = main[s][q]
      BY <1>2, <1>4, <1>9, <1>10, <2>3 DEF SnapshotHolds, VaultOfRevision
    <3>3. ASSUME NEW k \in Revisions, k > r PROVE unit[k][q] = 0
      <4>1. k \in Nat
        BY RevisionsAreNumbers
      <4>2. ~Started(k)
        BY <1>2, <1>3, <3>3, <4>1
      <4>3. unit[k] = NoFiles
        BY <4>2 DEF ServedInv, TracesOfStarted
      <4>4. QED
        BY <2>1, <4>3 DEF NoFiles
    <3>4. QED
      BY <1>2, <2>2, <3>1, <3>2, <3>3
  <2>4. CASE VaultOf[q] # v
    <3>1. marker'[VaultOf[q]] = marker[VaultOf[q]]
      BY <1>1, <2>1, <2>4
    <3>2. Clean(s)
      BY <1>2, <1>9, <1>10, <2>4
    <3>3. QED
      BY <2>2, <3>1, <3>2 DEF ServedInv, CleanIsServed
  <2>5. QED
    BY <2>3, <2>4
<1>11. CleanIsServed'
  BY <1>1, <1>2, <1>10 DEF CleanIsServed
<1>12. ASSUME NEW s \in Revisions, run[s] = "COMPLETED" PROVE marker'[VaultOfRevision(s)] >= s
  <2>1. Started(s)
    BY <1>12 DEF Started
  <2>2. s <= r /\ s \in Nat /\ VaultOfRevision(s) \in Vaults
    BY <1>3, <1>8, <2>1
  <2>3. marker[VaultOfRevision(s)] >= s
    BY <1>12 DEF ServedInv, TracesOfStarted
  <2>4. CASE VaultOfRevision(s) = v
    BY <1>1, <1>2, <2>2, <2>4
  <2>5. CASE VaultOfRevision(s) # v
    BY <1>1, <2>2, <2>3, <2>5
  <2>6. QED
    BY <2>4, <2>5
<1>13. TracesOfStarted'
  <2>1. ASSUME NEW s \in Revisions
        PROVE  /\ Started(s) => event[s] # Unpublished
               /\ ~Started(s) => unit[s] = NoFiles
               /\ \A q \in Paths : unit[s][q] # 0 => VaultOf[q] = VaultOfRevision(s)
               /\ event[s].status = "done" /\ s \notin skipped => run[s] = "COMPLETED"
    BY DEF ServedInv, TracesOfStarted
  <2>2. QED
    BY <1>1, <1>2, <1>7, <1>12, <2>1 DEF TracesOfStarted
<1>14. MarkersOfStarted'
  <2>1. ASSUME NEW u \in Vaults, marker'[u] # 0
        PROVE  Started(marker'[u]) /\ VaultOfRevision(marker'[u]) = u /\ marker'[u] \in Revisions
    <3>1. CASE u = v
      BY <1>1, <1>2, <1>3, <3>1
    <3>2. CASE u # v
      <4>1. marker'[u] = marker[u] /\ marker[u] \in Versions
        BY <1>1, <3>2 DEF JournalInv, IndexTypeOK
      <4>2. QED
        BY <2>1, <4>1, RevisionsAreNumbers DEF ServedInv, MarkersOfStarted
    <3>3. QED
      BY <3>1, <3>2
  <2>2. QED
    BY <1>7, <2>1 DEF MarkersOfStarted, Started, VaultOfRevision
<1>15. /\ work'[w].at = "completing" /\ work'[w].revision = r /\ work'[w].vault = v
  BY <1>1 DEF GoesOn
<1>16. Progress(w)'
  BY <1>1, <1>2, <1>3, <1>15 DEF Progress
<1>17. NewestIsIndexed' /\ ProgressInv'
  BY <1>1, <1>2, <1>3, <1>7, <1>15, <1>16, OnlyTask
<1>18. QED
  BY <1>6, <1>11, <1>13, <1>14, <1>17 DEF ServedInv

\* Only an event whose run is completed, or that was skipped, is done with.
LEMMA AcknowledgeStep ==
  ASSUME JournalInv, ServedInv, OneIndexer, NEW w \in Indexers, acknowledge(w)
  PROVE  ServedInv'
<1> DEFINE r == work[w].revision
<1>1. /\ work[w] # Idle /\ work[w].at = "acknowledging" /\ main' = main
      /\ UNCHANGED <<document, unit, relation, marker, run, skipped>>
      /\ work'[w] = Idle
      /\ event'[r] # Unpublished /\ event'[r].path = event[r].path
      /\ \A s \in Revisions : s # r => event'[s] = event[s]
  BY AcknowledgeEffect DEF Processes, Stops
<1>2. r \in skipped \/ run[r] = "COMPLETED"
  BY <1>1 DEF ServedInv, ProgressInv, Progress
<1>3. \A s \in Revisions : event[s] # Unpublished =>
        event'[s] # Unpublished /\ event'[s].path = event[s].path /\ main'[s] = main[s]
  BY <1>1
<1>4. \A s \in Revisions : event'[s].status = "done" /\ s \notin skipped' => run[s] = "COMPLETED"
  BY <1>1, <1>2 DEF ServedInv, TracesOfStarted
<1>5. TracesOfStarted' /\ MarkersOfStarted' /\ CleanIsServed'
  BY <1>1, <1>3, <1>4, StoreStands
<1>6. \A o \in Indexers : work'[o] = Idle
  BY <1>1 DEF OneIndexer
<1>7. HEAD' = HEAD
  BY <1>1 DEF HEAD
<1>8. NewestIsIndexed' /\ ProgressInv'
  BY <1>1, <1>6, <1>7, SkippedIsBehind DEF NewestIsIndexed, ProgressInv, Indexing
<1>9. QED
  BY <1>5, <1>8 DEF ServedInv

-----------------------------------------------------------------------------
(* The invariant and what follows from it.                                      *)

\* Nothing is started at first, and everything agrees.
LEMMA IndexStarts == IndexInit => IndexInv
<1> SUFFICES ASSUME IndexInit PROVE ServedInv
  BY JournalStarts DEF IndexInv
<1>1. /\ \A r \in Revisions : ~Started(r) /\ unit[r] = NoFiles
      /\ \A r \in Revisions : run[r] = "none" /\ event[r].status = "none"
      /\ \A p \in Paths : NoFiles[p] = 0
      /\ \A v \in Vaults : marker[v] = 0
      /\ \A w \in Indexers : work[w] = Idle
      /\ skipped = {}
  BY DEF IndexInit, Started, Unpublished, Processes, NoFiles
<1>2. TracesOfStarted /\ MarkersOfStarted
  BY <1>1 DEF TracesOfStarted, MarkersOfStarted
<1>3. NewestIsIndexed /\ CleanIsServed /\ ProgressInv
  BY <1>1 DEF NewestIsIndexed, CleanIsServed, ProgressInv, Clean, Indexing
<1>4. QED
  BY <1>2, <1>3 DEF ServedInv

\* Until an operator rebuilds, one worker's steps keep what is served and take no
\* vault back.
LEMMA ServedStep ==
  ASSUME OneIndexer, JournalInv, ~rebuilt, ServedInv, IndexNext, ~rebuilt'
  PROVE  ServedInv' /\ \A v \in Vaults : marker'[v] >= marker[v]
<1>1. ASSUME marker' = marker PROVE \A v \in Vaults : marker'[v] >= marker[v]
  <2>1. \A v \in Vaults : marker[v] \in Nat
    BY RevisionsAreNumbers DEF JournalInv, IndexTypeOK
  <2>2. QED
    BY <1>1, <2>1
<1>2. ASSUME NEW p \in Paths, NEW operation \in {"UPDATE", "DELETE"}, mergeDraft(p, operation)
      PROVE  ServedInv' /\ marker' = marker
  BY <1>2, MergeEffect, CommitStep DEF SameIndex
<1>3. ASSUME compensateGit PROVE ServedInv' /\ marker' = marker
  BY <1>3, CompensateEffect, CommitStep DEF SameIndex
<1>4. ASSUME appendPublicationLifecycle PROVE ServedInv' /\ marker' = marker
  BY <1>4, LifecycleEffect, LifecycleStep DEF SameIndex
<1>5. ASSUME NEW w \in Indexers, NEW r \in Revisions, takeEvent(w, r)
      PROVE  ServedInv' /\ marker' = marker
  BY <1>5, TakeEffect, TakeStep
<1>6. ASSUME NEW v \in Vaults, startRebuild(v) PROVE FALSE
  BY <1>6, StartRebuildKeepsJournal
<1>7. ASSUME rebuildSpaceProjections PROVE FALSE
  BY <1>7, RebuildKeepsJournal
<1>8. ASSUME NEW w \in Processes, IndexStep(w) \/ indexFails(w) \/ processDies(w)
      PROVE  ServedInv' /\ \A v \in Vaults : marker'[v] >= marker[v]
  <2>1. w \in Indexers
    BY <1>8, CheckEffect, StartEffect, MarkerEffect, SynchronizeEffect, CollectEffect, WriteEffect,
       ReadLinksEffect, RelateEffect, MarkEffect, CompleteEffect, AcknowledgeEffect, FailEffect,
       DieEffect, TaskIsWorkers DEF IndexStep
  <2>2. ASSUME checkRevision(w) PROVE ServedInv' /\ marker' = marker
    BY <2>1, <2>2, CheckEffect, CheckStep
  <2>3. ASSUME startIncrementalRun(w) PROVE ServedInv' /\ marker' = marker
    BY <2>1, <2>3, StartEffect, StartStep
  <2>4. ASSUME currentVaultIndexRevision(w) PROVE ServedInv' /\ marker' = marker
    BY <2>1, <2>4, MarkerEffect, MarkerStep
  <2>5. ASSUME synchronizeManagedPaths(w) PROVE ServedInv' /\ marker' = marker
    BY <2>1, <2>5, SynchronizeEffect, SynchronizeStep
  <2>6. ASSUME collectDocuments(w) PROVE ServedInv' /\ marker' = marker
    BY <2>1, <2>6, CollectEffect, CollectStep
  <2>7. ASSUME rebuildChangedUnits(w) PROVE ServedInv' /\ marker' = marker
    BY <2>1, <2>7, WriteEffect, WriteStep
  <2>8. ASSUME readLinks(w) PROVE ServedInv' /\ marker' = marker
    BY <2>1, <2>8, ReadLinksEffect, ReadLinksStep
  <2>9. ASSUME rebuildManagedRelations(w) PROVE ServedInv' /\ marker' = marker
    BY <2>1, <2>9, RelateEffect, RelateStep
  <2>10. ASSUME completeIncrementalRun(w) PROVE ServedInv' /\ marker' = marker
    BY <2>1, <2>10, CompleteEffect, CompleteStep
  <2>11. ASSUME acknowledge(w) PROVE ServedInv' /\ marker' = marker
    BY <2>1, <2>11, AcknowledgeEffect, AcknowledgeStep
  <2>12. ASSUME indexFails(w) PROVE ServedInv' /\ marker' = marker
    BY <2>1, <2>12, FailEffect, FailStep
  <2>13. ASSUME processDies(w) PROVE ServedInv' /\ marker' = marker
    BY <2>1, <2>13, DieEffect, DieStep
  <2>14. QED
    BY <1>1, <1>8, <2>1, <2>2, <2>3, <2>4, <2>5, <2>6, <2>7, <2>8, <2>9, <2>10, <2>11, <2>12,
       <2>13, MarkStep DEF IndexStep
<1>9. QED
  BY <1>1, <1>2, <1>3, <1>4, <1>5, <1>6, <1>7, <1>8 DEF IndexNext, Publish

\* A rebuild is not forgotten.
LEMMA RebuiltStays == JournalInv /\ [IndexNext]_indexVars /\ rebuilt => rebuilt'
BY DEF IndexNext, Publish, IndexStep, mergeDraft, appendPublicationLifecycle, compensateGit, takeEvent,
       checkRevision, startIncrementalRun, currentVaultIndexRevision, synchronizeManagedPaths,
       collectDocuments, rebuildChangedUnits, readLinks, rebuildManagedRelations,
       markVaultIndexRevision, completeIncrementalRun, acknowledge, indexFails, processDies,
       startRebuild, rebuildSpaceProjections, history, indexVars

\* An operator's request changes no marker.
LEMMA RebuildStartKeepsMarker ==
  IndexNext /\ ~rebuilt /\ rebuilt' => marker' = marker
BY DEF IndexNext, Publish, IndexStep, mergeDraft, appendPublicationLifecycle, compensateGit, takeEvent,
       checkRevision, startIncrementalRun, currentVaultIndexRevision, synchronizeManagedPaths,
       collectDocuments, rebuildChangedUnits, readLinks, rebuildManagedRelations,
       markVaultIndexRevision, completeIncrementalRun, acknowledge, indexFails, processDies,
       startRebuild, rebuildSpaceProjections, history, tables

\* With one worker, every step of anybody keeps the invariant.
LEMMA IndexInvStep == OneIndexer /\ IndexInv /\ [IndexNext]_indexVars => IndexInv'
<1> SUFFICES ASSUME OneIndexer, IndexInv, [IndexNext]_indexVars PROVE IndexInv'
  OBVIOUS
<1>1. JournalInv /\ JournalInv'
  BY JournalStep DEF IndexInv
<1>2. ASSUME ~rebuilt' PROVE ServedInv'
  <2>1. ~rebuilt /\ ServedInv
    BY <1>1, <1>2, RebuiltStays DEF IndexInv
  <2>2. CASE IndexNext
    BY <1>1, <1>2, <2>1, <2>2, ServedStep
  <2>3. CASE UNCHANGED indexVars
    BY <2>1, <2>3 DEF indexVars, git, tables, history, bounds, ServedInv, TracesOfStarted,
         MarkersOfStarted, NewestIsIndexed, CleanIsServed, ProgressInv, Progress, SnapshotHolds, Clean,
         Indexing, Started, VaultOfRevision, HEAD
  <2>4. QED
    BY <2>2, <2>3
<1>3. QED
  BY <1>1, <1>2 DEF IndexInv

\* With one worker, the invariant holds in every reachable state.
LEMMA IndexInvHolds ==
  ASSUME OneIndexer PROVE IndexSpec => []IndexInv
<1>1. IndexInv /\ [IndexNext]_indexVars => IndexInv'
  BY IndexInvStep
<1>2. QED
  BY <1>1, IndexStarts, PTL DEF IndexSpec

\* An event that is settled and was not skipped is completed, so the last on its
\* path is clean.
LEMMA ServedAgrees == IndexInv => IndexAgrees
<1> SUFFICES ASSUME IndexInv PROVE IndexAgrees
  OBVIOUS
<1>1. JournalInv /\ IndexTypeOK
  BY DEF IndexInv, JournalInv
<1>2. ASSUME ~rebuilt, EventsSettled, NEW r \in Revisions,
             event[r].status = "done", r \notin skipped,
             \A s \in Revisions : event[s].status = "done" /\ s > r => event[s].path # event[r].path
      PROVE  /\ Served(event[r].path) = main[r][event[r].path]
             /\ relation[event[r].path] = main[r][event[r].path]
  <2>1. ServedInv
    BY <1>2 DEF IndexInv
  <2>2. run[r] = "COMPLETED" /\ Started(r)
    BY <1>2, <2>1 DEF ServedInv, TracesOfStarted, Started
  <2>3. ASSUME NEW s \in Revisions, Started(s) PROVE event[s].status = "done"
    <3>1. event[s] # Unpublished
      BY <2>1, <2>3 DEF ServedInv, TracesOfStarted
    <3>2. event[s].status \in {"open", "done"}
      BY <1>1, <3>1, EventOfRevision
    <3>3. QED
      BY <1>2, <3>2 DEF EventsSettled
  <2>4. Clean(r)
    BY <1>2, <2>2, <2>3 DEF Clean
  <2>5. QED
    BY <2>1, <2>4 DEF ServedInv, CleanIsServed, Served
<1>3. IndexedIsServed
  BY <1>2 DEF IndexedIsServed
<1>4. CompletedIsServed
  BY DEF IndexInv, ServedInv, TracesOfStarted, VaultOfRevision, CompletedIsServed
<1>5. QED
  BY <1>1, <1>3, <1>4 DEF IndexAgrees

\* Types hold with any number of workers, and an operator who rebuilds.
THEOREM IndexTypeHolds == IndexSpec => []IndexTypeOK
<1>1. JournalInv => IndexTypeOK
  BY DEF JournalInv
<1>2. QED
  BY <1>1, JournalHolds, PTL

\* With one worker: what was indexed last of a path is served once its events are
\* settled, whatever failed, died, was retried or skipped on the way, and completed
\* runs claim no more than the marker serves.
THEOREM IndexAgreesHolds ==
  ASSUME OneIndexer PROVE IndexSpec => []IndexAgrees
<1>1. QED
  BY IndexInvHolds, ServedAgrees, PTL

\* With one worker, no step takes a vault's readers back.
THEOREM MarkerAdvancesHolds ==
  ASSUME OneIndexer PROVE IndexSpec => MarkerAdvances
<1>1. ASSUME IndexInv, [IndexNext]_indexVars
      PROVE  [\A v \in Vaults : ~rebuilt => marker'[v] >= marker[v]]_indexVars
  <2>1. CASE UNCHANGED indexVars
    BY <2>1
  <2>2. CASE IndexNext /\ ~rebuilt
    <3>1. JournalInv /\ ServedInv
      BY <1>1, <2>2 DEF IndexInv
    <3>2. CASE ~rebuilt'
      BY <2>2, <3>1, <3>2, ServedStep
    <3>3. CASE rebuilt'
      <4>1. marker' = marker
        BY <2>2, <3>1, <3>3, RebuildStartKeepsMarker
      <4>2. \A v \in Vaults : marker[v] \in Nat
        BY <3>1, RevisionsAreNumbers DEF JournalInv, IndexTypeOK
      <4>3. QED
        BY <4>1, <4>2
    <3>4. QED
      BY <3>2, <3>3
  <2>3. CASE rebuilt
    BY <2>3
  <2>4. QED
    BY <1>1, <2>1, <2>2, <2>3
<1>2. QED
  BY <1>1, IndexInvHolds, PTL DEF IndexSpec, MarkerAdvances

-----------------------------------------------------------------------------
(***************************************************************************)
(* 3. The inbox of source connectors.                                      *)
(***************************************************************************)

USE DEF Seqs

-----------------------------------------------------------------------------
(* The inductive invariant.                                                     *)

\* Whoever works on an event works on the next one, which is pending and, as
\* its row is locked, nobody else's.
OneAtATime ==
  /\ \A w \in Workers : worker[w].at # "idle" =>
       /\ worker[w].seq = applied + 1 /\ worker[w].seq \in Seqs
       /\ inbox[worker[w].seq].status = "PENDING"
  /\ \A w, v \in Workers : worker[w].at # "idle" /\ worker[v].at # "idle" => w = v

\* A row of the inbox has the event of its number, or is not there.
RowsHaveEvents ==
  /\ \A s \in Seqs : IF inbox[s].status = "none" THEN inbox[s] = NoRow
                     ELSE inbox[s].event \in Events /\ inbox[s].event.seq = s
  /\ \A a \in Senders : sender[a].at = "append" => sender[a].event \in Events

\* The checkpoint is what was applied; what is rejected is next, and exhausted.
CheckpointAgrees ==
  \A s \in Seqs :
    /\ inbox[s].status = "APPLIED" <=> s <= applied
    /\ inbox[s].status = "PENDING" => inbox[s].attempts < MaxAttempts
    /\ inbox[s].status = "REJECTED" => inbox[s].attempts = MaxAttempts /\ applied = s - 1

\* No object is ahead of the checkpoint.
ObjectsBehind ==
  \A o \in Objects : object[o] # NoEvent => object[o] \in Events /\ object[o].seq <= applied

\* What is late was selected before: nobody is selecting any more.
LateIsOver ==
  /\ late \in {0, 1}
  /\ late = 1 => state = "DISABLED" /\ \A w \in Workers : worker[w].at = "idle"

InboxInv ==
  TypeOK /\ OneAtATime /\ RowsHaveEvents /\ CheckpointAgrees /\ ObjectsBehind /\ LateIsOver

-----------------------------------------------------------------------------
(* The records the actions write, and who writes them.                          *)

\* A row whose event was applied.
LEMMA AppliedRow ==
  ASSUME NEW r \in Row, NEW n \in 0 .. MaxAttempts
  PROVE  LET q == [r EXCEPT !.status = "APPLIED", !.attempts = n, !.waits = FALSE]
         IN  q \in Row /\ q.status = "APPLIED" /\ q.event = r.event
BY DEF Row

\* The row of an event that was accepted.
LEMMA AcceptedRow ==
  ASSUME NEW e \in Events
  PROVE  LET q == [NoRow EXCEPT !.event = e, !.status = "PENDING"]
         IN  q \in Row /\ q.status = "PENDING" /\ q.attempts = 0 /\ q.event = e
<1>1. NoRow \in Row /\ NoRow.attempts = 0
  BY BoundAssumption DEF NoRow, Row
<1>2. QED
  BY <1>1 DEF Row

\* An empty inbox satisfies the invariant.
LEMMA InitInbox == Init => InboxInv
<1> SUFFICES ASSUME Init PROVE InboxInv
  OBVIOUS
<1>1. TypeOK
  BY EventAssumption, BoundAssumption DEF Init, TypeOK, NoRow, Row, Sender, Worker, Free
<1>2. OneAtATime /\ ObjectsBehind /\ LateIsOver
  BY DEF Init, OneAtATime, ObjectsBehind, LateIsOver, Free
<1>3. RowsHaveEvents /\ CheckpointAgrees
  BY BoundAssumption DEF Init, RowsHaveEvents, CheckpointAgrees, NoRow
<1>4. QED
  BY <1>1, <1>2, <1>3 DEF InboxInv

\* The row of the event that a busy worker has.
LEMMA BusyRow ==
  ASSUME InboxInv, NEW w \in Workers, worker[w].at # "idle"
  PROVE  LET s == worker[w].seq
         IN  /\ s \in Seqs /\ s = applied + 1 /\ applied \in Nat
             /\ inbox[s] \in Row /\ inbox[s].status = "PENDING"
             /\ inbox[s].attempts \in Nat /\ inbox[s].attempts + 1 \in 1 .. MaxAttempts
             /\ inbox[s].event \in Events /\ inbox[s].event.seq = s
<1> DEFINE s == worker[w].seq
<1>1. s \in Seqs /\ s = applied + 1 /\ inbox[s].status = "PENDING"
  BY DEF InboxInv, OneAtATime
<1>2. inbox[s] \in Row /\ applied \in Nat
  BY <1>1 DEF InboxInv, TypeOK
<1>3. inbox[s].attempts \in 0 .. MaxAttempts /\ inbox[s].attempts < MaxAttempts
  BY <1>1, <1>2 DEF InboxInv, CheckpointAgrees, Row
<1>4. inbox[s].event \in Events /\ inbox[s].event.seq = s
  BY <1>1 DEF InboxInv, RowsHaveEvents
<1>5. QED
  BY <1>1, <1>2, <1>3, <1>4, BoundAssumption

\* A worker that lets its event go leaves the invariant as it is.
LEMMA FreedWorker ==
  ASSUME InboxInv, NEW w \in Workers, worker' = [worker EXCEPT ![w] = Free]
  PROVE  /\ worker' \in [Workers -> Worker]
         /\ \A v \in Workers : worker'[v].at # "idle" => v # w /\ worker'[v] = worker[v]
BY BoundAssumption DEF InboxInv, TypeOK, Worker, Free

-----------------------------------------------------------------------------
(* One lemma per kind of step.                                                  *)

\* Requests and the operator leave the workers and what is applied alone.
LEMMA SendStep ==
  ASSUME InboxInv, NEW a \in Senders,
         \/ \E e \in Events : lockRegistration(a, e)
         \/ sendAgain(a) \/ abortAppend(a)
  PROVE  InboxInv'
<1>1. sender' \in [Senders -> Sender]
  BY DEF InboxInv, TypeOK, Sender, lockRegistration, sendAgain, abortAppend
<1>2. UNCHANGED <<rows, worker, spent, late>>
  BY DEF lockRegistration, sendAgain, abortAppend
<1>3. \A b \in Senders : sender'[b].at = "append" => sender'[b].event \in Events
  BY DEF InboxInv, TypeOK, RowsHaveEvents, lockRegistration, sendAgain, abortAppend
<1>4. QED
  BY <1>1, <1>2, <1>3
     DEF InboxInv, TypeOK, OneAtATime, RowsHaveEvents, CheckpointAgrees, ObjectsBehind, LateIsOver, rows

\* An accepted event is beyond the checkpoint, in a place that was empty.
LEMMA AppendStep ==
  ASSUME InboxInv, NEW a \in Senders, appendSourceConnectorEvent(a)
  PROVE  InboxInv'
<1> DEFINE e == sender[a].event
           row == [NoRow EXCEPT !.event = e, !.status = "PENDING"]
<1>1. e \in Events /\ e.seq \in Seqs
  BY EventAssumption DEF InboxInv, RowsHaveEvents, appendSourceConnectorEvent
<1>2. row \in Row /\ row.status = "PENDING" /\ row.attempts = 0 /\ row.event = e
  BY <1>1, AcceptedRow
<1>3. /\ sender' \in [Senders -> Sender]
      /\ \A b \in Senders : sender'[b].at = "append" => sender'[b].event \in Events
  BY DEF InboxInv, TypeOK, Sender, RowsHaveEvents, appendSourceConnectorEvent
<1>4. UNCHANGED <<state, applied, object, runs, worker, spent, late>>
  BY DEF appendSourceConnectorEvent
<1>5. CASE inbox' = inbox
  BY <1>3, <1>4, <1>5
     DEF InboxInv, TypeOK, OneAtATime, RowsHaveEvents, CheckpointAgrees, ObjectsBehind, LateIsOver
<1>6. CASE Accepts(e) /\ inbox' = [inbox EXCEPT ![e.seq] = row]
  <2> HIDE DEF row
  <2>1. inbox[e.seq] = NoRow /\ e.seq > applied /\ applied \in Nat
    BY <1>6 DEF Accepts, InboxInv, TypeOK
  <2>2. inbox' \in [Seqs -> Row]
    BY <1>1, <1>2, <1>6 DEF InboxInv, TypeOK
  <2>3. \A s \in Seqs : inbox'[s] = IF s = e.seq THEN row ELSE inbox[s]
    BY <1>6 DEF InboxInv, TypeOK
  <2>4. TypeOK'
    BY <1>3, <1>4, <2>2 DEF InboxInv, TypeOK
  <2>5. OneAtATime'
    BY <1>2, <1>4, <2>3 DEF InboxInv, OneAtATime
  <2>6. RowsHaveEvents'
    BY <1>1, <1>2, <1>3, <2>3 DEF InboxInv, RowsHaveEvents
  <2>7. CheckpointAgrees'
    BY <1>1, <1>2, <1>4, <2>1, <2>3, BoundAssumption DEF InboxInv, CheckpointAgrees
  <2>8. ObjectsBehind' /\ LateIsOver'
    BY <1>4 DEF InboxInv, ObjectsBehind, LateIsOver
  <2>9. QED
    BY <2>4, <2>5, <2>6, <2>7, <2>8 DEF InboxInv
<1>7. QED
  BY <1>5, <1>6 DEF appendSourceConnectorEvent

\* What is selected is next, and nobody has it; so nobody has anything.
LEMMA SelectStep ==
  ASSUME InboxInv, NEW w \in Workers, NEW s \in Seqs, selectEvent(w, s)
  PROVE  InboxInv'
<1>1. s = applied + 1 /\ inbox[s].status = "PENDING" /\ state = "ACTIVE"
  BY DEF selectEvent, Selectable, IsNext
<1>2. \A v \in Workers : worker[v].at = "idle"
  BY <1>1 DEF InboxInv, OneAtATime, selectEvent, EventFree
<1>3. worker' = [worker EXCEPT ![w] = [at |-> "locked", seq |-> s]] /\ UNCHANGED <<rows, sender, spent, late>>
  BY DEF selectEvent
<1>4. worker' \in [Workers -> Worker]
  BY <1>3, BoundAssumption DEF InboxInv, TypeOK, Worker
<1>5. \A v \in Workers : worker'[v] = IF v = w THEN [at |-> "locked", seq |-> s] ELSE worker[v]
  BY <1>3 DEF InboxInv, TypeOK
<1>6. late = 0
  BY <1>1 DEF InboxInv, LateIsOver
<1>7. TypeOK' /\ RowsHaveEvents' /\ CheckpointAgrees' /\ ObjectsBehind' /\ LateIsOver'
  BY <1>3, <1>4, <1>6
     DEF InboxInv, TypeOK, RowsHaveEvents, CheckpointAgrees, ObjectsBehind, LateIsOver, rows
<1>8. OneAtATime'
  BY <1>1, <1>2, <1>3, <1>5 DEF OneAtATime, rows
<1>9. QED
  BY <1>7, <1>8 DEF InboxInv

\* The checkpoint is locked, or the event let go.
LEMMA LockStep ==
  ASSUME InboxInv, NEW w \in Workers, lockCheckpoint(w) \/ Crash(w)
  PROVE  InboxInv'
<1>1. UNCHANGED <<rows, sender, late>> /\ worker[w].at # "idle"
  BY DEF lockCheckpoint, Crash
<1>2. /\ worker' \in [Workers -> Worker]
      /\ \A v \in Workers : worker'[v].at # "idle" => worker[v].at # "idle" /\ worker'[v].seq = worker[v].seq
  <2>1. CASE worker' = [worker EXCEPT ![w] = Free]
    BY <2>1, FreedWorker
  <2>2. CASE worker' = [worker EXCEPT ![w] = [worker[w] EXCEPT !.at = "apply"]]
    BY <1>1, <2>2 DEF InboxInv, TypeOK, Worker
  <2>3. QED
    BY <2>1, <2>2 DEF lockCheckpoint, Crash
<1>3. spent' \in [faults : 0 .. MaxFaults, switches : 0 .. MaxSwitches]
  <2>1. CASE UNCHANGED spent
    BY <2>1 DEF InboxInv, TypeOK
  <2>2. CASE Fault
    <3>1. spent.faults + 1 \in 0 .. MaxFaults
      BY <2>2, BoundAssumption DEF InboxInv, TypeOK, Fault
    <3>2. QED
      BY <2>2, <3>1 DEF InboxInv, TypeOK, Fault
  <2>3. QED
    BY <2>1, <2>2 DEF lockCheckpoint, Crash
<1>4. TypeOK' /\ RowsHaveEvents' /\ CheckpointAgrees' /\ ObjectsBehind'
  BY <1>1, <1>2, <1>3 DEF InboxInv, TypeOK, RowsHaveEvents, CheckpointAgrees, ObjectsBehind, rows
<1>5. OneAtATime' /\ LateIsOver'
  BY <1>1, <1>2 DEF InboxInv, OneAtATime, LateIsOver, rows
<1>6. QED
  BY <1>4, <1>5 DEF InboxInv

\* Applying moves the checkpoint by one; the worker was the only one.
LEMMA ApplyStep ==
  ASSUME InboxInv, NEW w \in Workers, applySourceConnectorEvent(w)
  PROVE  InboxInv'
<1> DEFINE s == worker[w].seq
           e == inbox[s].event
           row == [inbox[s] EXCEPT !.status = "APPLIED", !.attempts = inbox[s].attempts + 1,
                                   !.waits = FALSE]
<1>0. worker[w].at # "idle"
  BY DEF applySourceConnectorEvent
<1>1. /\ s \in Seqs /\ s = applied + 1 /\ applied \in Nat
      /\ inbox[s] \in Row /\ inbox[s].attempts + 1 \in 1 .. MaxAttempts
      /\ e \in Events /\ e.seq = s
  BY <1>0, BusyRow
<1>2. e.object \in Objects
  BY <1>1, EventAssumption
<1>3. row \in Row /\ row.status = "APPLIED" /\ row.event = e
  <2>1. inbox[s] \in Row /\ inbox[s].attempts + 1 \in 0 .. MaxAttempts
    BY <1>1, SMTT(30)
  <2>2. QED
    BY ONLY <2>1, AppliedRow, Zenon
<1> HIDE DEF row
<1>4. /\ worker' \in [Workers -> Worker]
      /\ \A v \in Workers : worker'[v].at = "idle"
  BY <1>0, FreedWorker DEF InboxInv, OneAtATime, applySourceConnectorEvent
<1>5. inbox' = [inbox EXCEPT ![s] = row]
  BY <1>1 DEF applySourceConnectorEvent, InboxInv, TypeOK, row
<1>6. \A q \in Seqs : inbox'[q] = IF q = s THEN row ELSE inbox[q]
  <2>1. inbox \in [Seqs -> Row]
    BY DEF InboxInv, TypeOK
  <2>2. QED
    BY <1>5, <2>1, Zenon
<1>7. applied' = s /\ runs' = runs \cup {s} /\ UNCHANGED <<state, sender, spent>>
  BY Zenon DEF applySourceConnectorEvent
<1>8. object' = [object EXCEPT ![e.object] = e] \/ object' = object
  BY Zenon DEF applySourceConnectorEvent
<1>9. late' \in {0, 1} /\ (late' = 1 => state = "DISABLED")
  <2>1. late' = IF state = "DISABLED" THEN late + 1 ELSE late
    BY Zenon DEF applySourceConnectorEvent
  <2>2. late \in {0, 1} /\ (late = 1 => worker[w].at = "idle")
    BY DEF InboxInv, LateIsOver
  <2>3. QED
    BY <1>0, <2>1, <2>2
<1>10. TypeOK'
  BY <1>1, <1>3, <1>4, <1>5, <1>7, <1>8, <1>9, BoundAssumption, SMTT(30) DEF InboxInv, TypeOK
<1>11. OneAtATime' /\ LateIsOver'
  BY <1>4, <1>7, <1>9 DEF OneAtATime, LateIsOver
<1>12. RowsHaveEvents'
  BY <1>1, <1>3, <1>6, <1>7 DEF InboxInv, RowsHaveEvents
<1>13. CheckpointAgrees'
  <2>1. \A q \in Seqs : q <= s <=> q = s \/ q <= applied
    BY <1>1
  <2>2. \A q \in Seqs : inbox[q].status = "REJECTED" => q = s
    BY <1>1 DEF InboxInv, CheckpointAgrees
  <2>3. QED
    BY <1>3, <1>6, <1>7, <2>1, <2>2 DEF InboxInv, CheckpointAgrees
<1>14. ObjectsBehind'
  <2>1. \A o \in Objects : object'[o] = object[o] \/ object'[o] = e
    BY <1>2, <1>8 DEF InboxInv, TypeOK
  <2>2. \A o \in Objects : object[o] # NoEvent => object[o] \in Events /\ object[o].seq <= s
    BY <1>1, EventAssumption DEF InboxInv, ObjectsBehind
  <2>3. QED
    BY <1>1, <1>7, <2>1, <2>2 DEF ObjectsBehind
<1>15. QED
  BY <1>10, <1>11, <1>12, <1>13, <1>14, SMTT(30) DEF InboxInv

\* An attempt that failed is counted; the last one rejects the event.
LEMMA RefuseStep ==
  ASSUME InboxInv, NEW w \in Workers, worker[w].at = "apply", Refuse(w),
         Fault \/ UNCHANGED spent
  PROVE  InboxInv'
<1> DEFINE s == worker[w].seq
           old == inbox[s]
           attempt == old.attempts + 1
           status == IF IsTerminal(attempt) THEN "REJECTED" ELSE "PENDING"
           waits == ~IsTerminal(attempt)
           row == [old EXCEPT !.attempts = attempt, !.status = status, !.waits = waits]
<1>1. /\ s \in Seqs /\ s = applied + 1 /\ applied \in Nat
      /\ old \in Row /\ attempt \in 1 .. MaxAttempts
      /\ old.event \in Events /\ old.event.seq = s
  BY BusyRow
<1>2. /\ row \in Row /\ row.event = old.event
      /\ \/ row.status = "PENDING" /\ row.attempts < MaxAttempts
         \/ row.status = "REJECTED" /\ row.attempts = MaxAttempts
  <2>1. /\ status \in {"PENDING", "REJECTED"} 
        /\ status = "PENDING" => attempt < MaxAttempts
        /\ status = "REJECTED" => attempt = MaxAttempts
        /\ attempt \in 0 .. MaxAttempts
    BY <1>1, BoundAssumption DEF IsTerminal
  <2>0. waits \in BOOLEAN
    OBVIOUS
  <2> HIDE DEF old, status, attempt, waits
  <2>2. row \in Row /\ row.status = status /\ row.attempts = attempt /\ row.event = old.event
    BY <1>1, <2>0, <2>1 DEF Row
  <2> HIDE DEF row
  <2>3. QED
    BY <2>1, <2>2
<1> HIDE DEF row
<1>3. /\ worker' \in [Workers -> Worker]
      /\ \A v \in Workers : worker'[v].at = "idle"
  BY FreedWorker DEF InboxInv, OneAtATime, Refuse
<1>4. inbox' = [inbox EXCEPT ![s] = row]
  BY <1>1 DEF Refuse, InboxInv, TypeOK, row
<1>5. \A q \in Seqs : inbox'[q] = IF q = s THEN row ELSE inbox[q]
  BY <1>4 DEF InboxInv, TypeOK
<1>6. UNCHANGED <<state, applied, object, runs, sender, late>>
  BY DEF Refuse
<1>7. spent' \in [faults : 0 .. MaxFaults, switches : 0 .. MaxSwitches]
  <2>1. CASE UNCHANGED spent
    BY <2>1 DEF InboxInv, TypeOK
  <2>2. CASE Fault
    <3>1. spent.faults + 1 \in 0 .. MaxFaults
      BY <2>2, BoundAssumption DEF InboxInv, TypeOK, Fault
    <3>2. QED
      BY <2>2, <3>1 DEF InboxInv, TypeOK, Fault
  <2>3. QED
    BY <2>1, <2>2
<1>8. TypeOK'
  BY <1>1, <1>2, <1>3, <1>4, <1>6, <1>7 DEF InboxInv, TypeOK
<1>9. OneAtATime' /\ LateIsOver' /\ ObjectsBehind'
  BY <1>3, <1>6 DEF InboxInv, OneAtATime, LateIsOver, ObjectsBehind
<1>10. RowsHaveEvents'
  BY <1>1, <1>2, <1>5, <1>6 DEF InboxInv, RowsHaveEvents
<1>11. CheckpointAgrees'
  BY <1>1, <1>2, <1>5, <1>6 DEF InboxInv, CheckpointAgrees
<1>12. QED
  BY <1>8, <1>9, <1>10, <1>11 DEF InboxInv

\* Time, and the operator.
LEMMA OtherStep ==
  ASSUME InboxInv,
         (\E s \in Seqs : BackoffElapses(s)) \/ registerSourceConnector \/ disable
  PROVE  InboxInv'
<1>1. ASSUME NEW s \in Seqs, BackoffElapses(s) PROVE InboxInv'
  <2> DEFINE row == [inbox[s] EXCEPT !.waits = FALSE]
  <2>1. inbox[s] \in Row /\ inbox[s].waits
    BY <1>1 DEF BackoffElapses, InboxInv, TypeOK
  <2>2. /\ row \in Row /\ row.status = inbox[s].status /\ row.event = inbox[s].event
        /\ row.attempts = inbox[s].attempts
    BY <2>1 DEF Row
  <2>3. inbox[s].status # "none"
    BY <2>1 DEF InboxInv, RowsHaveEvents, NoRow
  <2> HIDE DEF row
  <2>4. inbox' = [inbox EXCEPT ![s] = row]
    BY <1>1 DEF BackoffElapses, InboxInv, TypeOK, row
  <2>5. \A q \in Seqs : inbox'[q] = IF q = s THEN row ELSE inbox[q]
    BY <2>4 DEF InboxInv, TypeOK
  <2>6. UNCHANGED <<state, applied, object, runs, sender, worker, spent, late>>
    BY <1>1 DEF BackoffElapses
  <2>7. TypeOK'
    BY <2>2, <2>4, <2>6 DEF InboxInv, TypeOK
  <2>8. OneAtATime' /\ RowsHaveEvents' /\ CheckpointAgrees'
    BY <2>2, <2>3, <2>5, <2>6 DEF InboxInv, OneAtATime, RowsHaveEvents, CheckpointAgrees
  <2>9. ObjectsBehind' /\ LateIsOver'
    BY <2>6 DEF InboxInv, ObjectsBehind, LateIsOver
  <2>10. QED
    BY <2>7, <2>8, <2>9 DEF InboxInv
<1>2. ASSUME registerSourceConnector \/ disable PROVE InboxInv'
  <2>1. UNCHANGED <<applied, inbox, object, runs, sender, worker>>
    BY <1>2 DEF registerSourceConnector, disable
  <2>2. spent' \in [faults : 0 .. MaxFaults, switches : 0 .. MaxSwitches]
    <3>1. CASE registerSourceConnector
      BY <3>1 DEF registerSourceConnector, InboxInv, TypeOK
    <3>2. CASE disable
      <4>1. spent.switches + 1 \in 0 .. MaxSwitches
        BY <3>2, BoundAssumption DEF disable, InboxInv, TypeOK
      <4>2. QED
        BY <3>2, <4>1 DEF disable, InboxInv, TypeOK
    <3>3. QED
      BY <1>2, <3>1, <3>2
  <2>3. state' \in {"ACTIVE", "DISABLED"} /\ late' = 0
    BY <1>2 DEF registerSourceConnector, disable, InboxInv, LateIsOver
  <2>4. TypeOK'
    BY <2>1, <2>2, <2>3, BoundAssumption DEF InboxInv, TypeOK
  <2>5. OneAtATime' /\ RowsHaveEvents' /\ CheckpointAgrees' /\ ObjectsBehind' /\ LateIsOver'
    BY <2>1, <2>3 DEF InboxInv, OneAtATime, RowsHaveEvents, CheckpointAgrees, ObjectsBehind, LateIsOver
  <2>6. QED
    BY <2>4, <2>5 DEF InboxInv
<1>3. QED
  BY <1>1, <1>2

\* Every step keeps the invariant.
LEMMA NextInbox == InboxInv /\ [Next]_vars => InboxInv'
<1> SUFFICES ASSUME InboxInv, [Next]_vars PROVE InboxInv'
  OBVIOUS
<1>1. CASE UNCHANGED vars
  BY <1>1 DEF vars, rows, InboxInv, TypeOK, OneAtATime, RowsHaveEvents, CheckpointAgrees,
              ObjectsBehind, LateIsOver
<1>2. ASSUME NEW w \in Workers, WorkerStep(w) \/ applyFails(w) \/ Crash(w) PROVE InboxInv'
  BY <1>2, SelectStep, LockStep, ApplyStep, RefuseStep DEF WorkerStep, applyFails
<1>3. ASSUME NEW a \in Senders, NEW w \in Workers, DatabaseStep(a, w) PROVE InboxInv'
  BY <1>3, SendStep, RefuseStep DEF DatabaseStep, abortApply, Deadlocked
<1>4. QED
  BY <1>1, <1>2, <1>3, SendStep, AppendStep, OtherStep DEF Next

\* The invariant holds in every reachable state.
LEMMA InboxHolds == Spec => []InboxInv
BY InitInbox, NextInbox, PTL DEF Spec

-----------------------------------------------------------------------------
(* The theorems.                                                                *)

\* The inbox agrees with its checkpoint: at most one event is applied after the
\* connector is disabled, and a rejected event was tried as often as it may be
\* and is the end of the log.
THEOREM CheckpointIsTrue == Spec => []InboxAgrees
<1>1. InboxInv => InboxAgrees
  BY DEF InboxInv, InboxAgrees, AtMostOneLate, RejectedBlocks, LateIsOver, CheckpointAgrees
<1>2. QED
  BY <1>1, InboxHolds, PTL

\* A step of the inbox is a step of the ordered log, or invisible to it.
LEMMA LogStep ==
  ASSUME InboxInv, [Next]_vars
  PROVE  [Contract!Next]_(Contract!log)
<1> DEFINE accepted == [s \in 1 .. MaxSeq |-> inbox[s].event]
           Same == UNCHANGED <<accepted, applied, object, runs>>
<1>0. Same => UNCHANGED Contract!log
  BY DEF Contract!log
<1>1. ASSUME NEW a \in Senders, appendSourceConnectorEvent(a) PROVE Contract!Next \/ Same
  <2> DEFINE e == sender[a].event
             row == [NoRow EXCEPT !.event = e, !.status = "PENDING"]
  <2>1. e \in Events /\ e.seq \in Seqs
    BY <1>1, EventAssumption DEF InboxInv, RowsHaveEvents, appendSourceConnectorEvent
  <2>2. CASE Accepts(e)
    <3>1. row.event = e
      BY DEF NoRow
    <3> HIDE DEF row
    <3>2. inbox' = [inbox EXCEPT ![e.seq] = row] /\ UNCHANGED <<applied, object, runs>>
      BY <1>1, <2>2 DEF appendSourceConnectorEvent, row
    <3>3. accepted' = [accepted EXCEPT ![e.seq] = e]
      BY <2>1, <3>1, <3>2 DEF InboxInv, TypeOK
    <3>4. accepted[e.seq] = NoEvent
      BY <2>1, <2>2 DEF Accepts, NoRow
    <3>5. \A s \in 1 .. MaxSeq : accepted[s] # NoEvent => accepted[s].id # e.id
      BY <2>2 DEF Accepts
    <3>6. e.seq > applied
      BY <2>2 DEF Accepts
    <3> HIDE DEF e
    <3>7. Contract!Next
      BY <2>1, <3>2, <3>3, <3>4, <3>5, <3>6 DEF Contract!Next, Contract!Accept
    <3>8. QED
      BY <3>7
  <2>3. CASE ~Accepts(e)
    BY <1>1, <2>3 DEF appendSourceConnectorEvent
  <2>4. QED
    BY <2>2, <2>3
<1>2. ASSUME NEW w \in Workers, applySourceConnectorEvent(w) PROVE Contract!Next \/ Same
  <2> DEFINE s == worker[w].seq
             e == inbox[s].event
             row == [inbox[s] EXCEPT !.status = "APPLIED", !.attempts = inbox[s].attempts + 1,
                                     !.waits = FALSE]
  <2>1. /\ s \in Seqs /\ s = applied + 1 /\ applied \in Nat /\ inbox[s] \in Row
        /\ e \in Events /\ e.seq = s
    BY <1>2, BusyRow DEF applySourceConnectorEvent
  <2>2. row.event = e
    BY <2>1 DEF Row
  <2>3. e.object \in Objects
    BY <2>1, EventAssumption
  <2>4. IsNew(e.object) \/ object[e.object].seq < s
    BY <2>1, <2>3, EventAssumption DEF IsNew, InboxInv, ObjectsBehind
  <2> HIDE DEF row
  <2>5. inbox' = [inbox EXCEPT ![s] = row]
    BY <1>2, <2>1 DEF applySourceConnectorEvent, InboxInv, TypeOK, row
  <2>6. accepted' = accepted
    BY <2>1, <2>2, <2>5 DEF InboxInv, TypeOK
  <2>7. accepted[applied + 1] = e /\ e # NoEvent /\ applied < MaxSeq
    BY <2>1, EventAssumption, BoundAssumption
  <2>8. applied' = applied + 1 /\ runs' = runs \cup {s} /\ object' = [object EXCEPT ![e.object] = e]
    BY <1>2, <2>1, <2>4 DEF applySourceConnectorEvent
  <2> HIDE DEF e, s
  <2>9. Contract!TakeEffect
    BY <2>1, <2>6, <2>7, <2>8 DEF Contract!TakeEffect, accepted
  <2>10. QED
    BY <2>9 DEF Contract!Next
<1>3. ASSUME NEW w \in Workers, Refuse(w), worker[w].at = "apply" PROVE Same
  <2> DEFINE s == worker[w].seq
  <2>1. s \in Seqs /\ inbox[s] \in Row
    BY <1>3, BusyRow
  <2>2. \A q \in Seqs : inbox'[q].event = inbox[q].event
    BY <1>3, <2>1 DEF Refuse, InboxInv, TypeOK, Row
  <2>3. QED
    BY <1>3, <2>2 DEF Refuse
<1>4. ASSUME NEW s \in Seqs, BackoffElapses(s) PROVE Same
  <2>1. \A q \in Seqs : inbox'[q].event = inbox[q].event
    BY <1>4 DEF BackoffElapses, InboxInv, TypeOK, Row
  <2>2. QED
    BY <1>4, <2>1 DEF BackoffElapses
<1>5. ASSUME UNCHANGED <<inbox, applied, object, runs>> PROVE Same
  BY <1>5
<1> HIDE DEF Same
<1>6. Contract!Next \/ Same
  BY <1>1, <1>2, <1>3, <1>4, <1>5
     DEF Next, vars, rows, WorkerStep, DatabaseStep, lockRegistration, sendAgain, selectEvent, lockCheckpoint,
         applyFails, Crash, abortAppend, abortApply, Deadlocked, registerSourceConnector, disable
<1>7. QED
  BY <1>0, <1>6

\* Workers that race, deadlocks, failures and crashes, duplicates and gaps are
\* invisible: the inbox implements an ordered log, applied exactly once.
THEOREM InboxImplementsLog == Spec => ImplementsContract
<1>1. Init => Contract!Init
  BY DEF Init, Contract!Init, NoRow
<1>2. InboxInv /\ [Next]_vars => [Contract!Next]_(Contract!log)
  BY LogStep
<1>3. QED
  BY InboxHolds, <1>1, <1>2, PTL DEF Spec, ImplementsContract, Contract!Spec

HIDE DEF Seqs
=============================================================================
