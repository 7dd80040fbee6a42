----------------------- MODULE WorkspaceCoordination -----------------------
(***************************************************************************)
(* Claims on the work of a session, and its offline drafts                 *)
(* (packages/postgres/src/workspace-coordination.ts,                       *)
(* context-revision-set.ts, team-context-fabric.ts).                       *)
(*                                                                         *)
(* Every operation is a transaction of several statements.  A claim locks  *)
(* the session, then the claim's row; every other operation locks the row  *)
(* and then, when it appends its event, the session.  now() is the time    *)
(* the transaction began, however long it waited for a lock.  Writes are   *)
(* seen by others when they are committed.                                 *)
(*                                                                         *)
(* This is one session, and one draft of it.  Its participants stay.  The  *)
(* vault may leave the context revision the session pinned, and return to  *)
(* it, at any time: an operation finds it changed or not.                  *)
(***************************************************************************)
EXTENDS Naturals, Sequences

CONSTANTS
  Keys,         \* the work keys: scopes
  Principals,   \* the participants
  Nobody,
  Requests,     \* the connections of the API
  NoRequest,
  Lease,        \* leaseSeconds
  MaxTime,      \* bound: the clock
  MaxToken      \* bound: the fencing tokens of each key

Scopes == [mode: {"EXACT", "PREFIX"}, path: Seq(STRING)]

ASSUME KeyAssumption == Keys \subseteq Scopes
ASSUME RequestAssumption == NoRequest \notin Requests
ASSUME PrincipalAssumption == Nobody \notin Principals
ASSUME BoundAssumption == Lease \in Nat \ {0} /\ MaxTime \in Nat /\ MaxToken \in [Keys -> Nat]

Within(path, prefix) ==
  Len(prefix) <= Len(path) /\ SubSeq(path, 1, Len(prefix)) = prefix

workspaceScopesOverlap(left, right) ==
  \/ left = right
  \/ left.mode = "PREFIX" /\ Within(right.path, left.path)
  \/ right.mode = "PREFIX" /\ Within(left.path, right.path)

Time == 0 .. MaxTime

\* workspace_claims.  late: history, the lease of this fence, or of one it was
\* handed down from, was prolonged when it had run out.
Row == [status: {"none", "ACTIVE", "RELEASED"}, owner: Principals \cup {Nobody},
        token: Nat, expires: Nat, late: BOOLEAN]
NoRow == [status |-> "none", owner |-> Nobody, token |-> 0, expires |-> 0, late |-> FALSE]

\* A request: what the client sent, when its transaction began, and the row it
\* is going to commit.
FencedOps == {"heartbeat", "release", "handoff", "event"}
Call == [op: FencedOps \cup {"claim"}, key: Keys, principal: Principals, to: Principals,
         token: Nat, start: Time, at: {"lock", "upsert", "update", "append"}, next: Row]
Apply == [op: {"apply"}, at: {"lock", "append"}]
Idle == [op |-> "none", at |-> "idle"]

\* workspace_offline_drafts.  base: the client worked from the pinned revision.
Drafts == [status: {"none", "QUEUED", "RECONCILE_REQUIRED", "APPLIED"}, base: BOOLEAN]

VARIABLES
  row,          \* workspace_claims, by work key
  journal,      \* the fence of the last event of each key in workspace_events
  draft,        \* the draft
  applied,      \* how many events applied the draft
  claimLock,    \* who holds the lock of each claim's row
  sessionLock,  \* and of the session's
  draftLock,    \* and of the draft's
  work,         \* what each request is doing
  now

tables == <<row, journal, draft, applied>>
locks == <<claimLock, sessionLock, draftLock>>
vars == <<tables, locks, work, now>>

Init ==
  /\ row = [k \in Keys |-> NoRow]
  /\ journal = [k \in Keys |-> 0]
  /\ draft = [status |-> "none", base |-> FALSE] /\ applied = 0
  /\ claimLock = [k \in Keys |-> NoRequest]
  /\ sessionLock = NoRequest /\ draftLock = NoRequest
  /\ work = [r \in Requests |-> Idle]
  /\ now = 0

-----------------------------------------------------------------------------
(* Transactions.                                                             *)

Free(holder, r) == holder \in {NoRequest, r}
Dropped(holder, r) == IF holder = r THEN NoRequest ELSE holder

\* Mutation: a failed operation returns its connection with the transaction open.
KeepsTransaction(r) ==
  /\ work' = [work EXCEPT ![r] = Idle]
  /\ UNCHANGED locks

\* Commit and rollback release what the transaction locked.
Ends(r) ==
  /\ claimLock' = [k \in Keys |-> Dropped(claimLock[k], r)]
  /\ sessionLock' = Dropped(sessionLock, r)
  /\ draftLock' = Dropped(draftLock, r)
  /\ work' = [work EXCEPT ![r] = Idle]

Rollback(r) == Ends(r) /\ UNCHANGED <<tables, now>>

Begins(r, call) ==
  /\ work[r] = Idle
  /\ work' = [work EXCEPT ![r] = call]
  /\ UNCHANGED <<tables, locks, now>>

MovesTo(r, at) ==
  /\ work' = [work EXCEPT ![r].at = at]
  /\ UNCHANGED <<tables, now>>

\* Who holds the lock that the next statement of a request takes.
Holder(r) ==
  CASE work[r].at \in {"update", "upsert"} -> claimLock[work[r].key]
    [] work[r] = [op |-> "apply", at |-> "lock"] -> draftLock
    [] work[r].at = "append" \/ (work[r].op = "claim" /\ work[r].at = "lock") -> sessionLock
    [] OTHER -> NoRequest

\* The database finds transactions that wait for each other, and ends one.
DeadlockDetected(r) ==
  /\ \E s \in Requests \ {r} : Holder(r) = s /\ Holder(s) = r
  /\ Rollback(r)

\* The connection, or the process, is lost.
ConnectionLost(r) == work[r] # Idle /\ Rollback(r)

-----------------------------------------------------------------------------
(* Claims.                                                                   *)

LiveAt(k, t) == row[k].status = "ACTIVE" /\ row[k].expires > t

beginClaim(r, k, p) ==
  /\ row[k].token < MaxToken[k]
  /\ Begins(r, [op |-> "claim", key |-> k, principal |-> p, to |-> p, token |-> 0,
                start |-> now, at |-> "lock", next |-> NoRow])

Conflict(r) ==
  \E k \in Keys : LiveAt(k, work[r].start) /\ workspaceScopesOverlap(work[r].key, k)

\* Mutation: claims are not serialised by the session's row.
readsSessionUnlocked(r, changed) ==
  /\ work[r].op = "claim" /\ work[r].at = "lock"
  /\ \/ (changed \/ Conflict(r)) /\ Rollback(r)
     \/ /\ ~changed /\ ~Conflict(r)
        /\ MovesTo(r, "upsert") /\ UNCHANGED locks

\* The context revision and the live claims are read under the session's lock;
\* every commit that changes a claim needs it too, so they are read at once.
lockSession(r, changed) ==
  /\ work[r].op = "claim" /\ work[r].at = "lock"
  /\ Free(sessionLock, r)
  /\ \/ (changed \/ Conflict(r)) /\ Rollback(r)
     \/ /\ ~changed /\ ~Conflict(r)
        /\ sessionLock' = r
        /\ MovesTo(r, "upsert") /\ UNCHANGED <<claimLock, draftLock>>

\* The row decides as it is when its lock is free.  The event and the commit
\* follow under both locks.
claimWorkspaceWork(r) ==
  LET k == work[r].key
      token == row[k].token + 1
  IN  /\ work[r].at = "upsert"
      /\ Free(claimLock[k], r)
      /\ \/ LiveAt(k, work[r].start) /\ Rollback(r)
         \/ /\ ~LiveAt(k, work[r].start)
            /\ row' = [row EXCEPT ![k] = [status |-> "ACTIVE", owner |-> work[r].principal,
                                          token |-> token, late |-> FALSE,
                                          expires |-> work[r].start + Lease]]
            /\ journal' = [journal EXCEPT ![k] = token]
            /\ Ends(r)
            /\ UNCHANGED <<draft, applied, now>>

-----------------------------------------------------------------------------
(* Operations that present a fence.                                          *)

\* Participants read each other's claims.  A fence that is stale when the
\* transaction begins, or a context that has changed, has no effect.
beginFenced(r, op, k, to) ==
  /\ row[k].status = "ACTIVE"
  /\ op = "handoff" <=> to # row[k].owner
  /\ op \in {"release", "handoff"} => row[k].token < MaxToken[k]
  /\ Begins(r, [op |-> op, key |-> k, principal |-> row[k].owner, to |-> to,
                token |-> row[k].token, start |-> now, at |-> "update", next |-> NoRow])

HoldsFence(r) ==
  LET k == work[r].key
  IN  /\ LiveAt(k, work[r].start)
      /\ row[k].owner = work[r].principal /\ row[k].token = work[r].token

\* What the operation makes of the row.
Changed(r) ==
  LET old == row[work[r].key]
      until == work[r].start + Lease
  IN  CASE work[r].op = "heartbeat" -> [old EXCEPT !.expires = until]
        [] work[r].op = "release" -> [old EXCEPT !.status = "RELEASED", !.token = old.token + 1,
                                                 !.expires = work[r].start]
        [] work[r].op = "handoff" -> [old EXCEPT !.owner = work[r].to, !.token = old.token + 1,
                                                 !.expires = until]
        [] work[r].op = "event" -> old

\* Mutation: an event reads its claim without "for update".
readsClaimUnlocked(r) ==
  /\ work[r].at = "update"
  /\ Free(claimLock[work[r].key], r) \/ work[r].op = "event"
  /\ \/ ~HoldsFence(r) /\ Rollback(r)
     \/ /\ HoldsFence(r)
        /\ work' = [work EXCEPT ![r] = [work[r] EXCEPT !.at = "append", !.next = Changed(r)]]
        /\ claimLock' = IF work[r].op = "event" THEN claimLock
                        ELSE [claimLock EXCEPT ![work[r].key] = r]
        /\ UNCHANGED <<tables, sessionLock, draftLock, now>>

\* The update, or the select for update, decides on the row it has locked.
updateClaim(r) ==
  /\ work[r].at = "update"
  /\ Free(claimLock[work[r].key], r)
  /\ \/ ~HoldsFence(r) /\ Rollback(r)
     \/ /\ HoldsFence(r)
        /\ work' = [work EXCEPT ![r] = [work[r] EXCEPT !.at = "append", !.next = Changed(r)]]
        /\ claimLock' = [claimLock EXCEPT ![work[r].key] = r]
        /\ UNCHANGED <<tables, sessionLock, draftLock, now>>

\* The event updates the session's version; then the transaction commits.
appendCoordinationEvent(r) ==
  LET k == work[r].key
      next == work[r].next
      late == work[r].op \in {"heartbeat", "handoff"} /\ row[k].expires <= now
  IN  /\ work[r].at = "append" /\ work[r].op \in FencedOps
      /\ Free(sessionLock, r)
      /\ row' = [row EXCEPT ![k] = [next EXCEPT !.late = next.late \/ late]]
      /\ journal' = [journal EXCEPT ![k] = next.token]
      /\ Ends(r)
      /\ UNCHANGED <<draft, applied, now>>

-----------------------------------------------------------------------------
(* Offline drafts.                                                           *)

\* The insert does nothing when the client sends its draft again.
queueWorkspaceOfflineDraft(base, changed) ==
  /\ draft.status = "none"
  /\ draft' = [status |-> IF base /\ ~changed THEN "QUEUED" ELSE "RECONCILE_REQUIRED",
               base |-> base]
  /\ UNCHANGED <<row, journal, applied, locks, work, now>>

beginApply(r) == draft.status # "none" /\ Begins(r, [op |-> "apply", at |-> "lock"])

\* Mutation: the draft is read without "for update".
readsDraftUnlocked(r, changed) ==
  /\ work[r] = [op |-> "apply", at |-> "lock"]
  /\ \/ draft.status = "APPLIED" /\ Rollback(r)
     \/ /\ draft.status # "APPLIED" /\ draft.base /\ ~changed
        /\ MovesTo(r, "append") /\ UNCHANGED locks

\* An applied draft is answered as it is; one of another revision waits.
lockDraft(r, changed) ==
  /\ work[r] = [op |-> "apply", at |-> "lock"]
  /\ Free(draftLock, r)
  /\ \/ draft.status = "APPLIED" /\ Rollback(r)
     \/ /\ draft.status # "APPLIED" /\ ~(draft.base /\ ~changed)
        /\ draft' = [draft EXCEPT !.status = "RECONCILE_REQUIRED"]
        /\ Ends(r)
        /\ UNCHANGED <<row, journal, applied, now>>
     \/ /\ draft.status # "APPLIED" /\ draft.base /\ ~changed
        /\ draftLock' = r
        /\ MovesTo(r, "append") /\ UNCHANGED <<claimLock, sessionLock>>

\* The event locks the session; the draft and the event commit together.
applyWorkspaceOfflineDraft(r) ==
  /\ work[r] = [op |-> "apply", at |-> "append"]
  /\ Free(sessionLock, r)
  /\ draft' = [draft EXCEPT !.status = "APPLIED"]
  /\ applied' = applied + 1
  /\ Ends(r)
  /\ UNCHANGED <<row, journal, now>>

-----------------------------------------------------------------------------

Tick ==
  /\ now < MaxTime
  /\ now' = now + 1
  /\ UNCHANGED <<tables, locks, work>>

Steps(r) ==
  \/ (\E changed \in BOOLEAN : lockSession(r, changed) \/ lockDraft(r, changed))
  \/ claimWorkspaceWork(r)
  \/ updateClaim(r) \/ appendCoordinationEvent(r)
  \/ applyWorkspaceOfflineDraft(r)

Next ==
  \/ \E r \in Requests :
       \/ Steps(r)
       \/ \E k \in Keys, p \in Principals :
            beginClaim(r, k, p) \/ \E op \in FencedOps : beginFenced(r, op, k, p)
       \/ beginApply(r)
       \/ DeadlockDetected(r) \/ ConnectionLost(r)
  \/ \E base, changed \in BOOLEAN : queueWorkspaceOfflineDraft(base, changed)
  \/ Tick

Spec == Init /\ [][Next]_vars

\* A waiter gets a row's lock in its turn; a wait of two for each other is found.
FairSpec ==
  Spec /\ \A r \in Requests : SF_vars(Steps(r)) /\ WF_vars(DeadlockDetected(r))

-----------------------------------------------------------------------------
(* Properties.                                                               *)

TypeOK ==
  /\ row \in [Keys -> Row]
  /\ journal \in [Keys -> Nat]
  /\ draft \in Drafts /\ applied \in Nat
  /\ claimLock \in [Keys -> Requests \cup {NoRequest}]
  /\ sessionLock \in Requests \cup {NoRequest}
  /\ draftLock \in Requests \cup {NoRequest}
  /\ work \in [Requests -> Call \cup Apply \cup {Idle}]
  /\ now \in Time

\* Two live claims overlap only if one of them was prolonged after it had run
\* out: by a heartbeat or a handoff that began in time and then waited for the
\* session.  Claims that are granted never overlap by themselves.
OverlapNeedsLateRenewal ==
  \A j, k \in Keys :
    (j # k /\ LiveAt(j, now) /\ LiveAt(k, now) /\ workspaceScopesOverlap(j, k)) =>
      row[j].late \/ row[k].late

\* No fence is used twice: a claim that changes hands or is given up leaves its
\* fence behind, and the journal of a key never goes back to a fence it has left.
FencesAdvance ==
  [][\A k \in Keys :
       /\ row'[k].token >= row[k].token
       /\ (row'[k].owner # row[k].owner \/ row'[k].status # row[k].status) =>
            row'[k].token > row[k].token
       /\ journal'[k] >= journal[k]]_vars

\* A draft is applied by one event, however often and however concurrently the
\* client asks, and only an applied draft has its event.
DraftAppliedOnce == applied = IF draft.status = "APPLIED" THEN 1 ELSE 0

\* Sessions, claims and drafts keep to their rows, under every interleaving.
RowsAgree == TypeOK /\ DraftAppliedOnce

\* No request waits for a lock for ever, though claims and the operations under
\* a fence lock the session and the claim in opposite orders.
RequestsEnd == \A r \in Requests : []<>(work[r] = Idle)
=============================================================================
