-------------------------- MODULE SourceConnector --------------------------
(***************************************************************************)
(* The inbox of a source connector (packages/postgres/src/                 *)
(* source-connectors.ts): events that arrive in any order, more than once, *)
(* and are applied in the order of their sequence numbers.                 *)
(*                                                                         *)
(* A transaction locks rows one by one.  An append locks the registration, *)
(* then the checkpoint; an apply locks its event, then the checkpoint, and *)
(* then, if its object is new, the foreign key locks the registration: the *)
(* two may wait for each other, and the database aborts one.               *)
(***************************************************************************)
EXTENDS Integers, FiniteSets

CONSTANTS
  Events,       \* what the source may send: [id, seq, object, op]
  NoEvent,
  Objects,
  Senders,      \* requests that append, each one event
  Workers,
  MaxSeq,       \* the largest sequence number of Events
  MaxAttempts,  \* max_apply_attempts
  MaxFaults,    \* bound: failures and crashes
  MaxSwitches   \* bound: times the connector is disabled

Seqs == 1 .. MaxSeq

ASSUME EventAssumption ==
  /\ NoEvent \notin Events
  /\ \A e \in Events : e.seq \in Seqs /\ e.object \in Objects /\ e.op \in {"UPSERT", "DELETE"}
ASSUME BoundAssumption == /\ MaxSeq \in Nat /\ MaxAttempts \in Nat \ {0}
                          /\ MaxFaults \in Nat /\ MaxSwitches \in Nat

\* waits: next_attempt_at is in the future.
Row == [event : Events \cup {NoEvent}, status : {"none", "PENDING", "APPLIED", "REJECTED"},
        attempts : 0 .. MaxAttempts, waits : BOOLEAN]
NoRow == [event |-> NoEvent, status |-> "none", attempts |-> 0, waits |-> FALSE]

\* An append holds the registration at "append"; an apply holds its event, and
\* at "apply" the checkpoint as well.
Sender == [at : {"idle", "append", "answered"}, event : Events \cup {NoEvent}]
Worker == [at : {"idle", "locked", "apply"}, seq : 0 .. MaxSeq]
Free == [at |-> "idle", seq |-> 0]

VARIABLES
  state,     \* of the registration
  applied,   \* applied_sequence of the checkpoint
  inbox,     \* source_connector_events, by sequence
  object,    \* source_connector_objects: the event each is of
  runs,      \* assurance_runs, by the sequence in their idempotency key
  sender,
  worker,
  spent,     \* failures and crashes so far, and times it was disabled
  late       \* history: the events applied since it was disabled last

rows == <<state, applied, inbox, object, runs>>
vars == <<rows, sender, worker, spent, late>>

Init ==
  /\ state = "ACTIVE"
  /\ applied = 0
  /\ inbox = [s \in Seqs |-> NoRow]
  /\ object = [o \in Objects |-> NoEvent]
  /\ runs = {}
  /\ sender = [a \in Senders |-> [at |-> "idle", event |-> NoEvent]]
  /\ worker = [w \in Workers |-> Free]
  /\ spent = [faults |-> 0, switches |-> 0]
  /\ late = 0

-----------------------------------------------------------------------------
(* Locks.                                                                    *)

RegistrationFree == \A a \in Senders : sender[a].at # "append"
CheckpointFree == \A w \in Workers : worker[w].at # "apply"
EventFree(s) == \A w \in Workers : worker[w].at = "idle" \/ worker[w].seq # s

IsNew(o) == object[o] = NoEvent

-----------------------------------------------------------------------------
(* The source sends.                                                         *)

lockRegistration(a, e) ==
  /\ sender[a].at = "idle"
  /\ RegistrationFree
  /\ sender' = [sender EXCEPT ![a] = [at |-> "append", event |-> e]]
  /\ UNCHANGED <<rows, worker, spent, late>>

\* Otherwise the answer is an error, or the receipt of the first.
Accepts(e) ==
  /\ state = "ACTIVE"
  /\ \A s \in Seqs : inbox[s].event # NoEvent => inbox[s].event.id # e.id
  /\ e.seq > applied
  /\ inbox[e.seq] = NoRow

appendSourceConnectorEvent(a) ==
  LET e == sender[a].event
  IN  /\ sender[a].at = "append"
      /\ CheckpointFree
      /\ inbox' = IF Accepts(e) THEN [inbox EXCEPT ![e.seq] = [NoRow EXCEPT !.event = e, !.status = "PENDING"]]
                  ELSE inbox
      /\ sender' = [sender EXCEPT ![a] = [at |-> "answered", event |-> NoEvent]]
      /\ UNCHANGED <<state, applied, object, runs, worker, spent, late>>

\* The source, which does not know, may send the same again.
sendAgain(a) ==
  /\ sender[a].at = "answered"
  /\ sender' = [sender EXCEPT ![a] = [at |-> "idle", event |-> NoEvent]]
  /\ UNCHANGED <<rows, worker, spent, late>>

-----------------------------------------------------------------------------
(* A worker applies.                                                         *)

\* Mutation: the next event is the next that arrived.
IsLater(s) == s > applied

IsNext(s) == s = applied + 1

\* Mutation: the registration is not looked at.
SelectableDisabled(s) ==
  /\ inbox[s].status = "PENDING" /\ IsNext(s)
  /\ ~inbox[s].waits /\ inbox[s].attempts < MaxAttempts

Selectable(s) ==
  /\ inbox[s].status = "PENDING" /\ state = "ACTIVE"
  /\ IsNext(s)
  /\ ~inbox[s].waits /\ inbox[s].attempts < MaxAttempts

selectEvent(w, s) ==
  /\ worker[w].at = "idle"
  /\ Selectable(s) /\ EventFree(s)
  /\ worker' = [worker EXCEPT ![w] = [at |-> "locked", seq |-> s]]
  /\ UNCHANGED <<rows, sender, spent, late>>

lockCheckpoint(w) ==
  /\ worker[w].at = "locked"
  /\ CheckpointFree
  /\ worker' = [worker EXCEPT ![w] = IF IsNext(worker[w].seq) THEN [worker[w] EXCEPT !.at = "apply"] ELSE Free]
  /\ UNCHANGED <<rows, sender, spent, late>>

\* The foreign key of a new object waits for a request that has the registration.
MustWait(w) == IsNew(inbox[worker[w].seq].event.object) /\ ~RegistrationFree

\* Object, event, checkpoint and assurance run, and the attempt, in one commit.
applySourceConnectorEvent(w) ==
  LET s == worker[w].seq
      e == inbox[s].event
  IN  /\ worker[w].at = "apply" /\ ~MustWait(w)
      /\ object' = IF IsNew(e.object) \/ object[e.object].seq < s
                   THEN [object EXCEPT ![e.object] = e] ELSE object
      /\ inbox' = [inbox EXCEPT ![s].status = "APPLIED", ![s].attempts = inbox[s].attempts + 1,
                                ![s].waits = FALSE]
      /\ applied' = s
      /\ runs' = runs \cup {s}
      /\ worker' = [worker EXCEPT ![w] = Free]
      /\ late' = IF state = "DISABLED" THEN late + 1 ELSE late
      /\ UNCHANGED <<state, sender, spent>>

\* Mutation: the last attempt is one too many.
IsBeyond(attempt) == attempt > MaxAttempts

IsTerminal(attempt) == attempt >= MaxAttempts

\* What the apply wrote is rolled back to the savepoint; the attempt is kept.
Refuse(w) ==
  LET s == worker[w].seq
      attempt == inbox[s].attempts + 1
  IN  /\ inbox' = [inbox EXCEPT ![s] = [@ EXCEPT !.attempts = attempt,
                                                 !.status = IF IsTerminal(attempt) THEN "REJECTED" ELSE "PENDING",
                                                 !.waits = ~IsTerminal(attempt)]]
      /\ worker' = [worker EXCEPT ![w] = Free]
      /\ UNCHANGED <<state, applied, object, runs, sender, late>>

Fault == spent.faults < MaxFaults /\ spent' = [spent EXCEPT !.faults = spent.faults + 1]

applyFails(w) == worker[w].at = "apply" /\ Fault /\ Refuse(w)

\* The transaction is rolled back as a whole.
Crash(w) ==
  /\ worker[w].at # "idle" /\ Fault
  /\ worker' = [worker EXCEPT ![w] = Free]
  /\ UNCHANGED <<rows, sender, late>>

Deadlocked(a, w) == sender[a].at = "append" /\ worker[w].at = "apply" /\ MustWait(w)

\* The database aborts the append or the apply.
abortAppend(a) ==
  /\ \E w \in Workers : Deadlocked(a, w)
  /\ sender' = [sender EXCEPT ![a] = [at |-> "answered", event |-> NoEvent]]
  /\ UNCHANGED <<rows, worker, spent, late>>

abortApply(w) ==
  /\ \E a \in Senders : Deadlocked(a, w)
  /\ Refuse(w)
  /\ UNCHANGED spent

BackoffElapses(s) ==
  /\ inbox[s].waits
  /\ inbox' = [inbox EXCEPT ![s].waits = FALSE]
  /\ UNCHANGED <<state, applied, object, runs, sender, worker, spent, late>>

-----------------------------------------------------------------------------
(* The operator.                                                             *)

\* The checkpoint of a connector that is registered again is kept.
registerSourceConnector ==
  /\ state = "DISABLED" /\ RegistrationFree
  /\ state' = "ACTIVE"
  /\ late' = 0
  /\ UNCHANGED <<applied, inbox, object, runs, sender, worker, spent>>

disable ==
  /\ state = "ACTIVE" /\ RegistrationFree
  /\ spent.switches < MaxSwitches
  /\ spent' = [spent EXCEPT !.switches = spent.switches + 1]
  /\ state' = "DISABLED"
  /\ UNCHANGED <<applied, inbox, object, runs, sender, worker, late>>

-----------------------------------------------------------------------------

WorkerStep(w) ==
  \/ \E s \in Seqs : selectEvent(w, s)
  \/ lockCheckpoint(w) \/ applySourceConnectorEvent(w)

DatabaseStep(a, w) == abortAppend(a) \/ abortApply(w)

Next ==
  \/ \E a \in Senders : \/ \E e \in Events : lockRegistration(a, e)
                        \/ appendSourceConnectorEvent(a) \/ sendAgain(a)
  \/ \E w \in Workers : WorkerStep(w) \/ applyFails(w) \/ Crash(w)
  \/ \E a \in Senders, w \in Workers : DatabaseStep(a, w)
  \/ \E s \in Seqs : BackoffElapses(s)
  \/ registerSourceConnector \/ disable

Spec == Init /\ [][Next]_vars

\* Requests end, the database resolves its deadlocks, workers poll, time passes.
\* An apply that waits for the registration gets it in its turn, however many
\* requests follow: row locks queue.  Nobody has to send, or to register a
\* connector again.
Fairness ==
  /\ \A a \in Senders : WF_vars(appendSourceConnectorEvent(a))
  /\ \A w \in Workers : WF_vars(WorkerStep(w)) /\ SF_vars(applySourceConnectorEvent(w))
  /\ \A a \in Senders, w \in Workers : WF_vars(DatabaseStep(a, w))
  /\ \A s \in Seqs : WF_vars(BackoffElapses(s))

FairSpec == Spec /\ Fairness

-----------------------------------------------------------------------------
(* Properties.                                                               *)

TypeOK ==
  /\ state \in {"ACTIVE", "DISABLED"}
  /\ applied \in 0 .. MaxSeq
  /\ inbox \in [Seqs -> Row]
  /\ object \in [Objects -> Events \cup {NoEvent}]
  /\ runs \subseteq Seqs
  /\ sender \in [Senders -> Sender]
  /\ worker \in [Workers -> Worker]
  /\ spent \in [faults : 0 .. MaxFaults, switches : 0 .. MaxSwitches]
  /\ late \in 0 .. MaxSeq

Contract == INSTANCE ConnectorContract
              WITH accepted <- [s \in Seqs |-> inbox[s].event], view <- object, asked <- runs

\* Workers that race, deadlocks, failures halfway, crashes, duplicates and gaps
\* included, the inbox is an ordered log that is applied exactly once.
ImplementsContract == Contract!Spec

\* The next event does not stay pending: it is applied or, after its attempts,
\* rejected, unless the connector is disabled.
NextEventSettles ==
  \A s \in Seqs : []<>(inbox[s].status # "PENDING" \/ ~IsNext(s) \/ state = "DISABLED")

\* Nothing locks the registration while an event is applied: one that was
\* selected before the connector was disabled takes effect after.  One only.
AtMostOneLate == late <= 1

\* What is rejected was tried as often as it may be, and nothing behind it is
\* applied: the log ends there.
RejectedBlocks ==
  \A s \in Seqs : inbox[s].status = "REJECTED" => inbox[s].attempts = MaxAttempts /\ applied = s - 1

\* The inbox agrees with its checkpoint, whatever races, fails or is switched off.
InboxAgrees == TypeOK /\ AtMostOneLate /\ RejectedBlocks
=============================================================================
