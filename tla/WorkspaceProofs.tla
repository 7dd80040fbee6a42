--------------------------- MODULE WorkspaceProofs ---------------------------
(* Machine-checked theorems about workspace claims and offline drafts, for      *)
(* every value of the constants.                                                *)
EXTENDS WorkspaceCoordination, TLAPS

-----------------------------------------------------------------------------
(* The inductive invariant.                                                     *)

\* What an operation makes of a row it has locked.
Follows(old, new) ==
  /\ new.owner \in Principals
  /\ new.token >= old.token
  /\ (new.owner # old.owner \/ new.status # old.status) => new.token > old.token

\* A request that is about to commit a row has locked it, and the row is still
\* the one it decided on; so for the draft.
RequestOK(q) ==
  /\ work[q].at = "update" => work[q].op \in FencedOps
  /\ (work[q].at = "append" /\ work[q].op \in FencedOps) =>
       claimLock[work[q].key] = q /\ Follows(row[work[q].key], work[q].next)
  /\ work[q].op = "apply" => draft.status # "none"
  /\ work[q] = [op |-> "apply", at |-> "append"] => draftLock = q /\ draft.status # "APPLIED"

\* No event is ahead of its claim, and a claim has an owner.
JournalBehind ==
  \A k \in Keys : /\ journal[k] <= row[k].token
                  /\ row[k].status # "none" => row[k].owner \in Principals

WorkspaceInv ==
  TypeOK /\ (\A q \in Requests : RequestOK(q)) /\ DraftAppliedOnce /\ JournalBehind

\* What FencesAdvance says of a step.
FenceStep ==
  \A k \in Keys :
    /\ row'[k].token >= row[k].token
    /\ (row'[k].owner # row[k].owner \/ row'[k].status # row[k].status) =>
         row'[k].token > row[k].token
    /\ journal'[k] >= journal[k]

-----------------------------------------------------------------------------
(* Lemmas about the helpers.                                                    *)

\* Only calls have a key: the records of a request tell each other apart.
LEMMA CallOf ==
  ASSUME TypeOK, NEW r \in Requests,
         work[r].op \in FencedOps \cup {"claim"} \/ work[r].at \in {"update", "upsert"}
  PROVE  /\ work[r] \in Call
         /\ work[r].key \in Keys /\ work[r].principal \in Principals /\ work[r].to \in Principals
         /\ work[r].start \in Nat /\ work[r].next \in Row
BY BoundAssumption DEF TypeOK, Call, Apply, Idle, FencedOps, Time

\* Commit and rollback leave the locks of others alone.
LEMMA EndsFacts ==
  ASSUME TypeOK, NEW r \in Requests, Ends(r)
  PROVE  /\ claimLock' \in [Keys -> Requests \cup {NoRequest}]
         /\ sessionLock' \in Requests \cup {NoRequest}
         /\ draftLock' \in Requests \cup {NoRequest}
         /\ work' \in [Requests -> Call \cup Apply \cup {Idle}]
         /\ work'[r] = Idle
         /\ \A q \in Requests \ {r} : work'[q] = work[q]
         /\ \A q \in Requests \ {r} : /\ \A k \in Keys : claimLock[k] = q => claimLock'[k] = q
                                      /\ draftLock = q => draftLock' = q
BY DEF TypeOK, Ends, Dropped

\* A new call, or the next step of one, leaves the others' work alone.
LEMMA MovedWork ==
  ASSUME TypeOK, NEW r \in Requests, NEW call \in Call \cup Apply \cup {Idle},
         work' = [work EXCEPT ![r] = call]
  PROVE  /\ work' \in [Requests -> Call \cup Apply \cup {Idle}]
         /\ work'[r] = call
         /\ \A q \in Requests \ {r} : work'[q] = work[q]
BY DEF TypeOK

\* What one request does is nothing to the others, if it writes only rows and
\* drafts that nobody else has locked.
LEMMA OthersKeep ==
  ASSUME WorkspaceInv, NEW r,
         \A q \in Requests \ {r} :
           /\ work'[q] = work[q]
           /\ \A k \in Keys : claimLock[k] = q => claimLock'[k] = q /\ row'[k] = row[k]
           /\ draftLock = q => draftLock' = q /\ draft' = draft,
         draft'.status = "none" => draft.status = "none"
  PROVE  \A q \in Requests \ {r} : RequestOK(q)'
<1> SUFFICES ASSUME NEW q \in Requests \ {r} PROVE RequestOK(q)'
  OBVIOUS
<1>1. RequestOK(q) /\ work'[q] = work[q]
  BY DEF WorkspaceInv
<1>2. work[q].at = "update" => work[q].op \in FencedOps
  BY <1>1 DEF RequestOK
<1>3. CASE work[q].at = "append" /\ work[q].op \in FencedOps
  <2>1. work[q].key \in Keys
    BY <1>3, CallOf DEF WorkspaceInv
  <2>2. claimLock'[work[q].key] = q /\ Follows(row'[work[q].key], work[q].next)
    BY <1>1, <1>3, <2>1 DEF RequestOK
  <2>3. work[q].op # "apply" /\ work[q] # [op |-> "apply", at |-> "append"]
    BY <1>3 DEF FencedOps
  <2>4. QED
    BY <1>1, <1>2, <2>2, <2>3 DEF RequestOK
<1>4. CASE ~(work[q].at = "append" /\ work[q].op \in FencedOps)
  BY <1>1, <1>2, <1>4 DEF RequestOK
<1>5. QED
  BY <1>3, <1>4

-----------------------------------------------------------------------------
(* One lemma per kind of step.                                                  *)

\* Nothing is there at first.
LEMMA InitWorkspace == Init => WorkspaceInv
<1> SUFFICES ASSUME Init PROVE WorkspaceInv
  OBVIOUS
<1>1. TypeOK
  BY BoundAssumption DEF Init, TypeOK, NoRow, Row, Drafts, Time
<1>2. \A q \in Requests : RequestOK(q)
  BY DEF Init, RequestOK, Idle, FencedOps
<1>3. DraftAppliedOnce /\ JournalBehind
  BY DEF Init, DraftAppliedOnce, JournalBehind, NoRow
<1>4. QED
  BY <1>1, <1>2, <1>3 DEF WorkspaceInv

\* A rollback leaves the tables alone.
LEMMA RollbackStep ==
  ASSUME WorkspaceInv, NEW r \in Requests, Rollback(r)
  PROVE  WorkspaceInv' /\ FenceStep
<1>1. Ends(r) /\ UNCHANGED <<row, journal, draft, applied, now>>
  BY DEF Rollback, tables
<1>2. TypeOK'
  BY <1>1, EndsFacts DEF WorkspaceInv, TypeOK
<1>3. \A q \in Requests \ {r} : RequestOK(q)'
  BY <1>1, EndsFacts, OthersKeep DEF WorkspaceInv
<1>4. RequestOK(r)'
  BY <1>1, EndsFacts DEF WorkspaceInv, RequestOK, Idle, FencedOps
<1>5. DraftAppliedOnce' /\ JournalBehind' /\ FenceStep
  BY <1>1 DEF WorkspaceInv, DraftAppliedOnce, JournalBehind, FenceStep, TypeOK, Row
<1>6. QED
  BY <1>2, <1>3, <1>4, <1>5 DEF WorkspaceInv

\* A request begins.
LEMMA BeginStep ==
  ASSUME WorkspaceInv, NEW r \in Requests,
         \/ \E k \in Keys, p \in Principals : beginClaim(r, k, p)
         \/ \E k \in Keys, p \in Principals, op \in FencedOps : beginFenced(r, op, k, p)
         \/ beginApply(r)
  PROVE  WorkspaceInv' /\ FenceStep
<1>1. ASSUME NEW call \in Call \cup Apply, Begins(r, call),
             call.at = "update" => call.op \in FencedOps,
             call.at = "append" => FALSE,
             call.op = "apply" => draft.status # "none"
      PROVE  WorkspaceInv' /\ FenceStep
  <2>1. UNCHANGED <<row, journal, draft, applied, claimLock, sessionLock, draftLock, now>>
    BY <1>1 DEF Begins, tables, locks
  <2>2. /\ work' \in [Requests -> Call \cup Apply \cup {Idle}]
        /\ work'[r] = call /\ \A q \in Requests \ {r} : work'[q] = work[q]
    BY <1>1, MovedWork DEF Begins, WorkspaceInv
  <2>3. TypeOK'
    BY <2>1, <2>2 DEF WorkspaceInv, TypeOK
  <2>4. \A q \in Requests \ {r} : RequestOK(q)'
    BY <2>1, <2>2, OthersKeep
  <2>5. RequestOK(r)'
    BY <1>1, <2>1, <2>2 DEF RequestOK
  <2>6. DraftAppliedOnce' /\ JournalBehind' /\ FenceStep
    BY <2>1 DEF WorkspaceInv, DraftAppliedOnce, JournalBehind, FenceStep, TypeOK, Row
  <2>7. QED
    BY <2>3, <2>4, <2>5, <2>6 DEF WorkspaceInv
<1>2. NoRow \in Row /\ now \in Time
  BY DEF NoRow, Row, WorkspaceInv, TypeOK
<1>3. ASSUME NEW k \in Keys, NEW p \in Principals, beginClaim(r, k, p)
      PROVE  WorkspaceInv' /\ FenceStep
  <2> DEFINE call == [op |-> "claim", key |-> k, principal |-> p, to |-> p, token |-> 0,
                      start |-> now, at |-> "lock", next |-> NoRow]
  <2>1. call \in Call /\ call.at = "lock" /\ call.op = "claim"
    BY <1>2 DEF Call
  <2>2. Begins(r, call)
    BY <1>3 DEF beginClaim
  <2> HIDE DEF call
  <2>3. QED
    BY <1>1, <2>1, <2>2
<1>4. ASSUME NEW k \in Keys, NEW p \in Principals, NEW op \in FencedOps, beginFenced(r, op, k, p)
      PROVE  WorkspaceInv' /\ FenceStep
  <2> DEFINE call == [op |-> op, key |-> k, principal |-> row[k].owner, to |-> p,
                      token |-> row[k].token, start |-> now, at |-> "update", next |-> NoRow]
  <2>1. row[k].owner \in Principals /\ row[k].token \in Nat
    BY <1>4 DEF beginFenced, WorkspaceInv, JournalBehind, TypeOK, Row
  <2>2. call \in Call /\ call.at = "update" /\ call.op = op
    BY <1>2, <2>1 DEF Call
  <2>3. Begins(r, call) /\ op # "apply"
    BY <1>4 DEF beginFenced, FencedOps
  <2> HIDE DEF call
  <2>4. QED
    BY <1>1, <2>2, <2>3
<1>5. ASSUME beginApply(r) PROVE WorkspaceInv' /\ FenceStep
  <2>1. [op |-> "apply", at |-> "lock"] \in Apply
    BY DEF Apply
  <2>2. QED
    BY <1>1, <1>5, <2>1 DEF beginApply
<1>6. QED
  BY <1>3, <1>4, <1>5

\* A claim locks the session; a draft, itself.
LEMMA LockStep ==
  ASSUME WorkspaceInv, NEW r \in Requests, NEW changed \in BOOLEAN,
         lockSession(r, changed) \/ lockDraft(r, changed)
  PROVE  WorkspaceInv' /\ FenceStep
<1>1. CASE Rollback(r)
  BY <1>1, RollbackStep
<1>2. CASE /\ work[r].op = "claim" /\ sessionLock' = r
           /\ MovesTo(r, "upsert") /\ UNCHANGED <<claimLock, draftLock>>
  <2> DEFINE call == [work[r] EXCEPT !.at = "upsert"]
  <2>1. work[r] \in Call
    BY <1>2, CallOf DEF WorkspaceInv
  <2>2. call \in Call /\ call.at = "upsert" /\ call.op = "claim"
    BY <1>2, <2>1 DEF Call
  <2>3. work' = [work EXCEPT ![r] = call] /\ UNCHANGED <<row, journal, draft, applied, now>>
    BY <1>2 DEF MovesTo, tables
  <2> HIDE DEF call
  <2>4. /\ work' \in [Requests -> Call \cup Apply \cup {Idle}]
        /\ work'[r] = call /\ \A q \in Requests \ {r} : work'[q] = work[q]
    BY <2>2, <2>3, MovedWork DEF WorkspaceInv
  <2>5. TypeOK'
    BY <1>2, <2>3, <2>4 DEF WorkspaceInv, TypeOK
  <2>6. \A q \in Requests \ {r} : RequestOK(q)'
    BY <1>2, <2>3, <2>4, OthersKeep
  <2>7. RequestOK(r)'
    BY <2>2, <2>4 DEF RequestOK
  <2>8. DraftAppliedOnce' /\ JournalBehind' /\ FenceStep
    BY <2>3 DEF WorkspaceInv, DraftAppliedOnce, JournalBehind, FenceStep, TypeOK, Row
  <2>9. QED
    BY <2>5, <2>6, <2>7, <2>8 DEF WorkspaceInv
<1>3. CASE /\ work[r] = [op |-> "apply", at |-> "lock"] /\ Free(draftLock, r)
           /\ draft.status # "APPLIED" /\ Ends(r)
           /\ draft' = [draft EXCEPT !.status = "RECONCILE_REQUIRED"]
           /\ UNCHANGED <<row, journal, applied, now>>
  <2>1. draft' \in Drafts /\ draft'.status = "RECONCILE_REQUIRED"
    BY <1>3 DEF WorkspaceInv, TypeOK, Drafts
  <2>2. TypeOK'
    BY <1>3, <2>1, EndsFacts DEF WorkspaceInv, TypeOK
  <2>3. \A q \in Requests \ {r} : RequestOK(q)'
    BY <1>3, <2>1, EndsFacts, OthersKeep, RequestAssumption, SMTT(30) DEF WorkspaceInv, Free
  <2>4. RequestOK(r)'
    BY <1>3, EndsFacts DEF WorkspaceInv, RequestOK, Idle, FencedOps
  <2>5. DraftAppliedOnce' /\ JournalBehind' /\ FenceStep
    BY <1>3, <2>1 DEF WorkspaceInv, DraftAppliedOnce, JournalBehind, FenceStep, TypeOK, Row
  <2>6. QED
    BY <2>2, <2>3, <2>4, <2>5 DEF WorkspaceInv
<1>4. CASE /\ work[r] = [op |-> "apply", at |-> "lock"] /\ draft.status # "APPLIED"
           /\ draftLock' = r /\ Free(draftLock, r)
           /\ MovesTo(r, "append") /\ UNCHANGED <<claimLock, sessionLock>>
  <2> DEFINE call == [op |-> "apply", at |-> "append"]
  <2>1. call \in Apply /\ call.op = "apply" /\ call.at = "append" /\ "apply" \notin FencedOps
    BY DEF Apply, FencedOps
  <2>2. work' = [work EXCEPT ![r] = call] /\ UNCHANGED <<row, journal, draft, applied, now>>
    <3>1. [work[r] EXCEPT !.at = "append"] = call
      BY <1>4
    <3>2. QED
      BY <1>4, <3>1 DEF MovesTo, tables
  <2> HIDE DEF call
  <2>3. /\ work' \in [Requests -> Call \cup Apply \cup {Idle}]
        /\ work'[r] = call /\ \A q \in Requests \ {r} : work'[q] = work[q]
    BY <2>1, <2>2, MovedWork DEF WorkspaceInv
  <2>4. TypeOK'
    BY <1>4, <2>2, <2>3 DEF WorkspaceInv, TypeOK
  <2>5. \A q \in Requests \ {r} : RequestOK(q)'
    <3>1. \A q \in Requests \ {r} : draftLock # q
      BY <1>4, RequestAssumption DEF Free
    <3>2. QED
      BY <1>4, <2>2, <2>3, <3>1, OthersKeep
  <2>6. draft.status # "none"
    BY <1>4 DEF WorkspaceInv, RequestOK
  <2>7. RequestOK(r)'
    BY <1>4, <2>1, <2>2, <2>3, <2>6 DEF RequestOK
  <2>8. DraftAppliedOnce' /\ JournalBehind' /\ FenceStep
    BY <2>2 DEF WorkspaceInv, DraftAppliedOnce, JournalBehind, FenceStep, TypeOK, Row
  <2>9. QED
    BY <2>4, <2>5, <2>7, <2>8 DEF WorkspaceInv
<1>5. QED
  BY <1>1, <1>2, <1>3, <1>4 DEF lockSession, lockDraft

\* A claim that is granted, and an operation that commits, write one row, and
\* its event, whose lock nobody else has.
LEMMA CommitStep ==
  ASSUME WorkspaceInv, NEW r \in Requests, NEW k \in Keys, NEW next \in Row,
         Free(claimLock[k], r), Ends(r), Follows(row[k], next),
         row' = [row EXCEPT ![k] = next],
         journal' = [journal EXCEPT ![k] = next.token],
         UNCHANGED <<draft, applied, now>>
  PROVE  WorkspaceInv' /\ FenceStep
<1>1. row[k].token \in Nat /\ next.token \in Nat /\ next.token >= row[k].token
  BY DEF WorkspaceInv, TypeOK, Row, Follows
<1>2. \A j \in Keys : /\ row'[j] = IF j = k THEN next ELSE row[j]
                     /\ journal'[j] = IF j = k THEN next.token ELSE journal[j]
  BY DEF WorkspaceInv, TypeOK
<1>3. TypeOK'
  BY <1>1, EndsFacts DEF WorkspaceInv, TypeOK
<1>4. \A q \in Requests \ {r} : RequestOK(q)'
  BY <1>2, EndsFacts, OthersKeep, RequestAssumption, SMTT(30) DEF WorkspaceInv, Free
<1>5. RequestOK(r)'
  BY EndsFacts DEF WorkspaceInv, RequestOK, Idle, FencedOps
<1>6. \A j \in Keys : journal[j] \in Nat /\ row[j].token \in Nat /\ journal[j] <= row[j].token
  BY DEF WorkspaceInv, TypeOK, JournalBehind, Row
<1>7. JournalBehind' /\ FenceStep
  BY <1>1, <1>2, <1>6 DEF WorkspaceInv, JournalBehind, FenceStep, Follows
<1>8. DraftAppliedOnce'
  BY DEF WorkspaceInv, DraftAppliedOnce
<1>9. QED
  BY <1>3, <1>4, <1>5, <1>7, <1>8 DEF WorkspaceInv

\* A claim has a new fence.
LEMMA ClaimStep ==
  ASSUME WorkspaceInv, NEW r \in Requests, claimWorkspaceWork(r)
  PROVE  WorkspaceInv' /\ FenceStep
<1> DEFINE k == work[r].key
           next == [status |-> "ACTIVE", owner |-> work[r].principal, token |-> row[k].token + 1,
                    late |-> FALSE, expires |-> work[r].start + Lease]
<1>1. CASE Rollback(r)
  BY <1>1, RollbackStep
<1>2. CASE ~Rollback(r)
  <2>1. work[r].principal \in Principals /\ k \in Keys /\ work[r].start \in Nat
    BY CallOf DEF WorkspaceInv, claimWorkspaceWork
  <2>2. row[k].token \in Nat
    BY <2>1 DEF WorkspaceInv, TypeOK, Row
  <2>3. next \in Row
    BY <2>1, <2>2, BoundAssumption DEF Row
  <2>4. Follows(row[k], next)
    BY <2>1, <2>2 DEF Follows
  <2>5. Free(claimLock[k], r) /\ row' = [row EXCEPT ![k] = next] /\ Ends(r)
        /\ journal' = [journal EXCEPT ![k] = row[k].token + 1] /\ UNCHANGED <<draft, applied, now>>
    BY <1>2 DEF claimWorkspaceWork
  <2>6. next.token = row[k].token + 1
    OBVIOUS
  <2> HIDE DEF next, k
  <2>7. QED
    BY <2>1, <2>3, <2>4, <2>5, <2>6, CommitStep
<1>3. QED
  BY <1>1, <1>2

\* An operation under a fence locks the row it decides on.
LEMMA UpdateStep ==
  ASSUME WorkspaceInv, NEW r \in Requests, updateClaim(r)
  PROVE  WorkspaceInv' /\ FenceStep
<1> DEFINE k == work[r].key
           next == Changed(r)
           call == [work[r] EXCEPT !.at = "append", !.next = next]
<1>1. CASE Rollback(r)
  BY <1>1, RollbackStep
<1>2. CASE ~Rollback(r)
  <2>1. /\ work[r] \in Call /\ k \in Keys /\ work[r].to \in Principals
        /\ work[r].start \in Nat /\ work[r].op \in FencedOps
    BY CallOf DEF WorkspaceInv, updateClaim, RequestOK
  <2>2. /\ HoldsFence(r) /\ Free(claimLock[k], r)
        /\ work' = [work EXCEPT ![r] = call]
        /\ claimLock' = [claimLock EXCEPT ![k] = r]
        /\ UNCHANGED <<row, journal, draft, applied, sessionLock, draftLock, now>>
    BY <1>2 DEF updateClaim, tables
  <2>3. row[k] \in Row /\ row[k].token \in Nat /\ row[k].owner \in Principals
    BY <2>1, <2>2 DEF WorkspaceInv, TypeOK, Row, HoldsFence, LiveAt, JournalBehind
  <2>4. next \in Row /\ Follows(row[k], next)
    <3> DEFINE until == work[r].start + Lease
    <3>0. until \in Nat /\ row[k].token + 1 \in Nat
      BY <2>1, <2>3, BoundAssumption
    <3>1. CASE work[r].op = "heartbeat"
      <4> HIDE DEF until
      <4>1. next = [row[k] EXCEPT !.expires = until]
        BY <3>1 DEF Changed, until
      <4>2. QED
        BY <2>3, <3>0, <4>1 DEF Row, Follows
    <3>2. CASE work[r].op = "release"
      <4> DEFINE old == row[k]
                 token == old.token + 1
      <4>1. next = [old EXCEPT !.status = "RELEASED", !.token = token, !.expires = work[r].start]
        BY <3>2 DEF Changed
      <4>2. /\ token \in Nat /\ token > old.token
            /\ old \in Row /\ old.owner \in Principals /\ old.token \in Nat
        BY <2>3
      <4> DEFINE start == work[r].start
      <4> HIDE DEF old, token, next, start
      <4>3. next \in Row
        BY <2>1, <4>1, <4>2 DEF Row, start
      <4>4. next.token = token /\ next.owner = old.owner
        BY <4>1, <4>2 DEF Row
      <4>5. QED
        BY <4>2, <4>3, <4>4 DEF Follows, old
    <3>3. CASE work[r].op = "handoff"
      <4> DEFINE old == row[k]
                 token == old.token + 1
      <4>1. next = [old EXCEPT !.owner = work[r].to, !.token = token, !.expires = until]
        BY <3>3 DEF Changed
      <4>2. /\ token \in Nat /\ token > old.token
            /\ old \in Row /\ old.owner \in Principals /\ old.token \in Nat
        BY <2>3
      <4> HIDE DEF old, token, next, until
      <4>3. next \in Row
        BY <2>1, <3>0, <4>1, <4>2 DEF Row
      <4>4. next.token = token /\ next.owner = work[r].to
        BY <4>1, <4>2 DEF Row
      <4>5. QED
        BY <2>1, <4>2, <4>3, <4>4 DEF Follows, old
    <3>4. CASE work[r].op = "event"
      BY <2>3, <3>4 DEF Changed, Follows
    <3>5. QED
      BY <2>1, <3>1, <3>2, <3>3, <3>4 DEF FencedOps
  <2> HIDE DEF next
  <2>5. call \in Call /\ call.at = "append" /\ call.op = work[r].op /\ call.key = k /\ call.next = next
    BY <2>1, <2>4 DEF Call
  <2> HIDE DEF call
  <2>6. /\ work' \in [Requests -> Call \cup Apply \cup {Idle}]
        /\ work'[r] = call /\ \A q \in Requests \ {r} : work'[q] = work[q]
    BY <2>2, <2>5, MovedWork DEF WorkspaceInv
  <2>7. TypeOK'
    BY <2>1, <2>2, <2>6 DEF WorkspaceInv, TypeOK
  <2>8. \A j \in Keys : claimLock'[j] = IF j = k THEN r ELSE claimLock[j]
    BY <2>2 DEF WorkspaceInv, TypeOK
  <2>9. \A q \in Requests \ {r} : RequestOK(q)'
    BY <2>1, <2>2, <2>6, <2>8, OthersKeep, RequestAssumption DEF Free
  <2>10. RequestOK(r)'
    BY <2>1, <2>2, <2>4, <2>5, <2>6, <2>8 DEF RequestOK, FencedOps
  <2>11. DraftAppliedOnce' /\ JournalBehind' /\ FenceStep
    BY <2>2 DEF WorkspaceInv, DraftAppliedOnce, JournalBehind, FenceStep, TypeOK, Row
  <2>12. QED
    BY <2>7, <2>9, <2>10, <2>11 DEF WorkspaceInv
<1>3. QED
  BY <1>1, <1>2

\* The event commits what was decided; a renewal may be late by then.
LEMMA AppendStep ==
  ASSUME WorkspaceInv, NEW r \in Requests, appendCoordinationEvent(r)
  PROVE  WorkspaceInv' /\ FenceStep
<1> DEFINE k == work[r].key
           old == work[r].next
           late == work[r].op \in {"heartbeat", "handoff"} /\ row[k].expires <= now
           marked == old.late \/ late
           next == [old EXCEPT !.late = marked]
<1>1. k \in Keys /\ old \in Row
  BY CallOf DEF WorkspaceInv, appendCoordinationEvent
<1>2. claimLock[k] = r /\ Follows(row[k], old)
  BY DEF WorkspaceInv, RequestOK, appendCoordinationEvent
<1>3. marked \in BOOLEAN
  OBVIOUS
<1>4. /\ row' = [row EXCEPT ![k] = next] /\ journal' = [journal EXCEPT ![k] = old.token]
      /\ Ends(r) /\ UNCHANGED <<draft, applied, now>>
  BY DEF appendCoordinationEvent
<1> HIDE DEF k, old, marked
<1>5. next \in Row /\ next.token = old.token /\ Follows(row[k], next)
  BY <1>1, <1>2, <1>3 DEF Row, Follows
<1> HIDE DEF next
<1>6. QED
  BY <1>1, <1>2, <1>4, <1>5, CommitStep DEF Free

\* The draft is applied, or queued, or time passes.
LEMMA DraftStep ==
  ASSUME WorkspaceInv,
         \/ \E r \in Requests : applyWorkspaceOfflineDraft(r)
         \/ \E base, changed \in BOOLEAN : queueWorkspaceOfflineDraft(base, changed)
         \/ Tick
  PROVE  WorkspaceInv' /\ FenceStep
<1>1. ASSUME NEW r \in Requests, applyWorkspaceOfflineDraft(r) PROVE WorkspaceInv' /\ FenceStep
  <2>1. /\ work[r] = [op |-> "apply", at |-> "append"] /\ Ends(r)
        /\ draft' = [draft EXCEPT !.status = "APPLIED"] /\ applied' = applied + 1
        /\ UNCHANGED <<row, journal, now>>
    BY <1>1 DEF applyWorkspaceOfflineDraft
  <2>2. draftLock = r /\ draft.status # "APPLIED" /\ applied = 0
    BY <2>1 DEF WorkspaceInv, RequestOK, DraftAppliedOnce
  <2>3. draft' \in Drafts /\ draft'.status = "APPLIED"
    BY <2>1 DEF WorkspaceInv, TypeOK, Drafts
  <2>4. TypeOK'
    BY <2>1, <2>2, <2>3, EndsFacts DEF WorkspaceInv, TypeOK
  <2>5. \A q \in Requests \ {r} : RequestOK(q)'
    BY <2>1, <2>2, <2>3, EndsFacts, OthersKeep DEF WorkspaceInv
  <2>6. RequestOK(r)'
    BY <2>1, EndsFacts DEF WorkspaceInv, RequestOK, Idle, FencedOps
  <2>7. DraftAppliedOnce' /\ JournalBehind' /\ FenceStep
    BY <2>1, <2>2, <2>3 DEF WorkspaceInv, DraftAppliedOnce, JournalBehind, FenceStep, TypeOK, Row
  <2>8. QED
    BY <2>4, <2>5, <2>6, <2>7 DEF WorkspaceInv
<1>2. ASSUME NEW base \in BOOLEAN, NEW changed \in BOOLEAN, queueWorkspaceOfflineDraft(base, changed)
      PROVE  WorkspaceInv' /\ FenceStep
  <2>1. UNCHANGED <<row, journal, applied, claimLock, sessionLock, draftLock, work, now>>
    BY <1>2 DEF queueWorkspaceOfflineDraft, locks
  <2>2. draft.status = "none" /\ draft'.status \in {"QUEUED", "RECONCILE_REQUIRED"} /\ draft' \in Drafts
    BY <1>2 DEF queueWorkspaceOfflineDraft, Drafts
  <2>3. TypeOK'
    BY <2>1, <2>2 DEF WorkspaceInv, TypeOK
  <2>4. ASSUME NEW q \in Requests PROVE RequestOK(q)'
    <3>1. RequestOK(q) /\ work[q].op # "apply"
      BY <2>2 DEF WorkspaceInv, RequestOK
    <3>2. work[q] # [op |-> "apply", at |-> "append"]
      BY <3>1
    <3>3. QED
      BY <2>1, <3>1, <3>2 DEF RequestOK
  <2>5. DraftAppliedOnce' /\ JournalBehind' /\ FenceStep
    BY <2>1, <2>2 DEF WorkspaceInv, DraftAppliedOnce, JournalBehind, FenceStep, TypeOK, Row
  <2>6. QED
    BY <2>3, <2>4, <2>5 DEF WorkspaceInv
<1>3. ASSUME Tick PROVE WorkspaceInv' /\ FenceStep
  <2>1. UNCHANGED <<row, journal, draft, applied, claimLock, sessionLock, draftLock, work>>
    BY <1>3 DEF Tick, tables, locks
  <2>2. now' \in Time
    BY <1>3, BoundAssumption DEF Tick, WorkspaceInv, TypeOK, Time
  <2>3. QED
    BY <2>1, <2>2 DEF WorkspaceInv, TypeOK, RequestOK, DraftAppliedOnce, JournalBehind, FenceStep, Row
<1>4. QED
  BY <1>1, <1>2, <1>3

\* Every step keeps the invariant and lets fences only advance.
LEMMA NextWorkspace == WorkspaceInv /\ [Next]_vars => WorkspaceInv' /\ FenceStep
<1> SUFFICES ASSUME WorkspaceInv, [Next]_vars PROVE WorkspaceInv' /\ FenceStep
  OBVIOUS
<1>1. CASE UNCHANGED vars
  BY <1>1 DEF vars, tables, locks, WorkspaceInv, TypeOK, RequestOK, DraftAppliedOnce, JournalBehind,
              FenceStep, Row
<1>2. ASSUME NEW r \in Requests, Steps(r) PROVE WorkspaceInv' /\ FenceStep
  BY <1>2, LockStep, ClaimStep, UpdateStep, AppendStep, DraftStep DEF Steps
<1>3. ASSUME NEW r \in Requests, DeadlockDetected(r) \/ ConnectionLost(r)
      PROVE  WorkspaceInv' /\ FenceStep
  BY <1>3, RollbackStep DEF DeadlockDetected, ConnectionLost
<1>4. QED
  BY <1>1, <1>2, <1>3, BeginStep, DraftStep DEF Next

\* The invariant holds in every reachable state.
LEMMA WorkspaceHolds == Spec => []WorkspaceInv
BY InitWorkspace, NextWorkspace, PTL DEF Spec

-----------------------------------------------------------------------------
(* Live claims that overlap.                                                    *)

\* What a fenced operation is about to commit, next to the row it has locked.
Renews(call, old) ==
  /\ old.status = "ACTIVE" /\ call.next.late = old.late
  /\ call.op = "release" => call.next.status # "ACTIVE"
  /\ call.op = "event" => call.next = old

\* A claim that has found no conflict finds none until it commits: it holds the
\* session, and no row changes without it.
GrantOK(q) ==
  /\ work[q].op \in FencedOps \cup {"claim"} => work[q].start <= now
  /\ work[q].at = "upsert" => sessionLock = q /\ ~Conflict(q)
  /\ (work[q].at = "append" /\ work[q].op \in FencedOps) => Renews(work[q], row[work[q].key])

OverlapInv == (\A q \in Requests : GrantOK(q)) /\ OverlapNeedsLateRenewal

\* What one request does is nothing to the grants of the others, if it changes
\* only rows they have not locked, and none while they hold the session.
LEMMA OthersGrant ==
  ASSUME WorkspaceInv, \A q \in Requests : GrantOK(q), NEW r,
         \A q \in Requests \ {r} :
           /\ work'[q] = work[q]
           /\ sessionLock = q => sessionLock' = q /\ row' = row
           /\ \A k \in Keys : claimLock[k] = q => row'[k] = row[k],
         now' \in Nat, now' >= now
  PROVE  \A q \in Requests \ {r} : GrantOK(q)'
<1> SUFFICES ASSUME NEW q \in Requests \ {r} PROVE GrantOK(q)'
  OBVIOUS
<1>1. GrantOK(q) /\ RequestOK(q) /\ work'[q] = work[q]
  BY DEF WorkspaceInv
<1>2. work[q].op \in FencedOps \cup {"claim"} => work'[q].start <= now'
  <2>1. now \in Nat
    BY DEF WorkspaceInv, TypeOK, Time
  <2>2. work[q].op \in FencedOps \cup {"claim"} => work[q].start \in Nat /\ work[q].start <= now
    BY <1>1, CallOf DEF WorkspaceInv, GrantOK
  <2>3. QED
    BY <1>1, <2>1, <2>2
<1>3. work[q].at = "upsert" => sessionLock' = q /\ ~Conflict(q)'
  BY <1>1 DEF GrantOK, Conflict, LiveAt
<1>4. ASSUME work[q].at = "append", work[q].op \in FencedOps
      PROVE  Renews(work'[q], row'[work'[q].key])
  <2>1. work[q].key \in Keys
    BY <1>4, CallOf DEF WorkspaceInv
  <2>2. claimLock[work[q].key] = q /\ Renews(work[q], row[work[q].key])
    BY <1>1, <1>4 DEF RequestOK, GrantOK
  <2>3. row'[work[q].key] = row[work[q].key]
    BY <2>1, <2>2
  <2>4. QED
    BY <1>1, <2>2, <2>3
<1>5. QED
  BY <1>1, <1>2, <1>3, <1>4 DEF GrantOK

\* Claims that have not changed overlap as they did.
LEMMA SameOverlaps ==
  ASSUME OverlapNeedsLateRenewal, UNCHANGED <<row, now>>
  PROVE  OverlapNeedsLateRenewal'
BY DEF OverlapNeedsLateRenewal, LiveAt

\* No claim is granted before the first.
LEMMA InitOverlap == Init => OverlapInv
BY DEF Init, OverlapInv, GrantOK, OverlapNeedsLateRenewal, LiveAt, Idle, NoRow, FencedOps

\* A rollback grants nothing.
LEMMA RollbackOverlap ==
  ASSUME WorkspaceInv, OverlapInv, NEW r \in Requests, Rollback(r)
  PROVE  OverlapInv'
<1>1. Ends(r) /\ UNCHANGED <<row, now>> /\ now \in Nat
  BY DEF Rollback, tables, WorkspaceInv, TypeOK, Time
<1>2. work'[r] = Idle /\ \A q \in Requests \ {r} : work'[q] = work[q]
  BY <1>1, EndsFacts DEF WorkspaceInv
<1>3. \A q \in Requests \ {r} : sessionLock = q => sessionLock' = q
  BY <1>1 DEF Ends, Dropped
<1>4. \A q \in Requests \ {r} : GrantOK(q)'
  BY <1>1, <1>2, <1>3, OthersGrant DEF OverlapInv
<1>5. GrantOK(r)'
  BY <1>2 DEF GrantOK, Idle, FencedOps
<1>6. QED
  BY <1>1, <1>4, <1>5, SameOverlaps DEF OverlapInv

\* A call begins now, and no row has changed.
LEMMA BeginOverlap ==
  ASSUME WorkspaceInv, OverlapInv, NEW r \in Requests,
         \/ \E k \in Keys, p \in Principals : beginClaim(r, k, p)
         \/ \E k \in Keys, p \in Principals, op \in FencedOps : beginFenced(r, op, k, p)
         \/ beginApply(r)
  PROVE  OverlapInv'
<1>1. ASSUME NEW call, Begins(r, call), call.at \in {"lock", "update"},
             call.op \in FencedOps \cup {"claim"} => call.start = now
      PROVE  OverlapInv'
  <2>1. UNCHANGED <<row, sessionLock, now>> /\ now \in Nat
    BY <1>1 DEF Begins, tables, locks, WorkspaceInv, TypeOK, Time
  <2>2. work'[r] = call /\ \A q \in Requests \ {r} : work'[q] = work[q]
    BY <1>1 DEF Begins, WorkspaceInv, TypeOK
  <2>3. \A q \in Requests \ {r} : GrantOK(q)'
    BY <2>1, <2>2, OthersGrant DEF OverlapInv
  <2>4. GrantOK(r)'
    BY <1>1, <2>1, <2>2 DEF GrantOK
  <2>5. QED
    BY <2>1, <2>3, <2>4, SameOverlaps DEF OverlapInv
<1>2. ASSUME NEW k \in Keys, NEW p \in Principals, beginClaim(r, k, p) PROVE OverlapInv'
  BY <1>1, <1>2 DEF beginClaim
<1>3. ASSUME NEW k \in Keys, NEW p \in Principals, NEW op \in FencedOps, beginFenced(r, op, k, p)
      PROVE  OverlapInv'
  BY <1>1, <1>3 DEF beginFenced
<1>4. ASSUME beginApply(r) PROVE OverlapInv'
  BY <1>1, <1>4 DEF beginApply, FencedOps
<1>5. QED
  BY <1>2, <1>3, <1>4

\* A claim that goes on has the session, and no conflict.
LEMMA LockOverlap ==
  ASSUME WorkspaceInv, OverlapInv, NEW r \in Requests, NEW changed \in BOOLEAN,
         lockSession(r, changed) \/ lockDraft(r, changed)
  PROVE  OverlapInv'
<1>0. now \in Nat
  BY DEF WorkspaceInv, TypeOK, Time
<1>1. CASE Rollback(r)
  BY <1>1, RollbackOverlap
<1>2. CASE /\ work[r].op = "claim" /\ Free(sessionLock, r) /\ ~Conflict(r)
           /\ sessionLock' = r /\ MovesTo(r, "upsert")
  <2>1. UNCHANGED <<row, now>> /\ \A q \in Requests \ {r} : work'[q] = work[q] /\ sessionLock # q
    BY <1>2, RequestAssumption DEF MovesTo, tables, Free, WorkspaceInv, TypeOK
  <2>2. work'[r] = [work[r] EXCEPT !.at = "upsert"] /\ work[r] \in Call
    BY <1>2, CallOf DEF MovesTo, WorkspaceInv, TypeOK
  <2>3. /\ work'[r].at = "upsert" /\ work'[r].op = "claim"
        /\ work'[r].key = work[r].key /\ work'[r].start = work[r].start
    BY <1>2, <2>2 DEF Call
  <2>4. \A q \in Requests \ {r} : GrantOK(q)'
    BY <1>0, <2>1, OthersGrant DEF OverlapInv
  <2>5. ~Conflict(r)'
    BY <1>2, <2>1, <2>3 DEF Conflict, LiveAt
  <2>6. GrantOK(r)'
    BY <1>2, <2>1, <2>3, <2>5 DEF GrantOK, OverlapInv
  <2>7. QED
    BY <2>1, <2>4, <2>6, SameOverlaps DEF OverlapInv
<1>3. CASE work[r] = [op |-> "apply", at |-> "lock"] /\ Ends(r) /\ UNCHANGED <<row, now>>
  <2>1. work'[r] = Idle /\ \A q \in Requests \ {r} : work'[q] = work[q]
    BY <1>3, EndsFacts DEF WorkspaceInv
  <2>2. \A q \in Requests \ {r} : sessionLock = q => sessionLock' = q
    BY <1>3 DEF Ends, Dropped
  <2>3. \A q \in Requests \ {r} : GrantOK(q)'
    BY <1>0, <1>3, <2>1, <2>2, OthersGrant DEF OverlapInv
  <2>4. GrantOK(r)'
    BY <2>1 DEF GrantOK, Idle, FencedOps
  <2>5. QED
    BY <1>3, <2>3, <2>4, SameOverlaps DEF OverlapInv
<1>4. CASE /\ work[r] = [op |-> "apply", at |-> "lock"]
           /\ MovesTo(r, "append") /\ UNCHANGED sessionLock
  <2>1. UNCHANGED <<row, now>> /\ \A q \in Requests \ {r} : work'[q] = work[q]
    BY <1>4 DEF MovesTo, tables, WorkspaceInv, TypeOK
  <2>2. work'[r] = [op |-> "apply", at |-> "append"]
    BY <1>4 DEF MovesTo, WorkspaceInv, TypeOK
  <2>3. \A q \in Requests \ {r} : GrantOK(q)'
    BY <1>0, <1>4, <2>1, OthersGrant DEF OverlapInv
  <2>4. GrantOK(r)'
    BY <2>2 DEF GrantOK, FencedOps
  <2>5. QED
    BY <2>1, <2>3, <2>4, SameOverlaps DEF OverlapInv
<1>5. QED
  BY <1>1, <1>2, <1>3, <1>4 DEF lockSession, lockDraft

\* Whoever commits a row has the session: no claim is between its look at the
\* rows and its own commit.
LEMMA CommitGrants ==
  ASSUME WorkspaceInv, OverlapInv, NEW r \in Requests, NEW k \in Keys,
         Free(claimLock[k], r), Free(sessionLock, r), Ends(r),
         \A j \in Keys \ {k} : row'[j] = row[j], UNCHANGED now
  PROVE  \A q \in Requests : GrantOK(q)'
<1>1. work'[r] = Idle /\ \A q \in Requests \ {r} : work'[q] = work[q]
  BY EndsFacts DEF WorkspaceInv
<1>2. \A q \in Requests \ {r} : sessionLock # q /\ claimLock[k] # q
  BY RequestAssumption DEF Free
<1>3. now \in Nat
  BY DEF WorkspaceInv, TypeOK, Time
<1>4. \A q \in Requests \ {r} : GrantOK(q)'
  BY <1>1, <1>2, <1>3, OthersGrant DEF OverlapInv
<1>5. GrantOK(r)'
  BY <1>1 DEF GrantOK, Idle, FencedOps
<1>6. QED
  BY <1>4, <1>5

\* A claim that is granted overlaps nothing that lives: what lives now lived when
\* the claim began, and was a conflict.
LEMMA ClaimOverlap ==
  ASSUME WorkspaceInv, OverlapInv, NEW r \in Requests, claimWorkspaceWork(r)
  PROVE  OverlapInv'
<1>1. CASE Rollback(r)
  BY <1>1, RollbackOverlap
<1>2. CASE ~Rollback(r)
  <2>1. PICK k \in Keys : k = work[r].key
    BY CallOf DEF WorkspaceInv, claimWorkspaceWork
  <2>2. PICK start \in Nat : start = work[r].start
    BY CallOf DEF WorkspaceInv, claimWorkspaceWork
  <2>3. sessionLock = r /\ ~Conflict(r) /\ start <= now /\ now \in Nat
    <3>1. GrantOK(r) /\ work[r] \in Call
      BY CallOf DEF OverlapInv, WorkspaceInv, claimWorkspaceWork
    <3>2. work[r].op \in FencedOps \cup {"claim"}
      BY <3>1 DEF Call
    <3>3. QED
      BY <2>2, <3>1, <3>2 DEF GrantOK, claimWorkspaceWork, WorkspaceInv, TypeOK, Time
  <2>4. /\ Free(claimLock[k], r) /\ Ends(r) /\ UNCHANGED now
        /\ \A j \in Keys \ {k} : row'[j] = row[j]
    BY <1>2, <2>1 DEF claimWorkspaceWork, WorkspaceInv, TypeOK
  <2>5. \A q \in Requests : GrantOK(q)'
    BY <2>3, <2>4, CommitGrants DEF Free
  <2>6. \A j \in Keys : LiveAt(j, now) => ~workspaceScopesOverlap(k, j)
    <3>1. ASSUME NEW j \in Keys, LiveAt(j, now) PROVE LiveAt(j, start)
      BY <2>3, <3>1 DEF LiveAt, WorkspaceInv, TypeOK, Row
    <3>2. QED
      BY <2>1, <2>2, <2>3, <3>1 DEF Conflict
  <2>7. \A i, j \in Keys : workspaceScopesOverlap(i, j) <=> workspaceScopesOverlap(j, i)
    BY DEF workspaceScopesOverlap
  <2>8. OverlapNeedsLateRenewal'
    BY <2>4, <2>6, <2>7 DEF OverlapNeedsLateRenewal, LiveAt, OverlapInv
  <2>9. QED
    BY <2>5, <2>8 DEF OverlapInv
<1>3. QED
  BY <1>1, <1>2

\* An operation decides on the row it has locked.
LEMMA UpdateOverlap ==
  ASSUME WorkspaceInv, OverlapInv, NEW r \in Requests, updateClaim(r)
  PROVE  OverlapInv'
<1>1. CASE Rollback(r)
  BY <1>1, RollbackOverlap
<1>2. CASE ~Rollback(r)
  <2>1. /\ work[r] \in Call /\ work[r].key \in Keys /\ work[r].start \in Nat
        /\ work[r].op \in FencedOps
    BY CallOf DEF WorkspaceInv, updateClaim, RequestOK
  <2>2. PICK old \in Row : old = row[work[r].key]
    BY <2>1 DEF WorkspaceInv, TypeOK
  <2>3. PICK next : next = Changed(r)
    OBVIOUS
  <2>4. /\ HoldsFence(r)
        /\ work' = [work EXCEPT ![r] = [work[r] EXCEPT !.at = "append", !.next = next]]
        /\ UNCHANGED <<row, sessionLock, now>>
    BY <1>2, <2>3 DEF updateClaim, tables
  <2>5. old.status = "ACTIVE"
    BY <2>2, <2>4 DEF HoldsFence, LiveAt
  <2>6. /\ next.late = old.late
        /\ work[r].op = "release" => next.status # "ACTIVE"
        /\ work[r].op = "event" => next = old
    <3>1. CASE work[r].op = "heartbeat"
      BY <2>2, <2>3, <3>1 DEF Changed, Row
    <3>2. CASE work[r].op = "release"
      BY <2>2, <2>3, <3>2 DEF Changed, Row
    <3>3. CASE work[r].op = "handoff"
      BY <2>2, <2>3, <3>3 DEF Changed, Row
    <3>4. CASE work[r].op = "event"
      BY <2>2, <2>3, <3>4 DEF Changed
    <3>5. QED
      BY <2>1, <3>1, <3>2, <3>3, <3>4 DEF FencedOps
  <2>7. work'[r] = [work[r] EXCEPT !.at = "append", !.next = next]
        /\ \A q \in Requests \ {r} : work'[q] = work[q]
    BY <2>4 DEF WorkspaceInv, TypeOK
  <2>8. /\ work'[r].at = "append" /\ work'[r].op = work[r].op /\ work'[r].key = work[r].key
        /\ work'[r].start = work[r].start /\ work'[r].next = next
    BY <2>1, <2>7 DEF Call
  <2>9. GrantOK(r)'
    BY <2>1, <2>2, <2>4, <2>5, <2>6, <2>8 DEF GrantOK, Renews, OverlapInv
  <2>10. now \in Nat
    BY DEF WorkspaceInv, TypeOK, Time
  <2>11. \A q \in Requests \ {r} : GrantOK(q)'
    BY <2>4, <2>7, <2>10, OthersGrant DEF OverlapInv
  <2>12. QED
    BY <2>4, <2>9, <2>11, SameOverlaps DEF OverlapInv
<1>3. QED
  BY <1>1, <1>2

\* A claim that an operation prolongs lived until now, or is marked.
LEMMA AppendOverlap ==
  ASSUME WorkspaceInv, OverlapInv, NEW r \in Requests, appendCoordinationEvent(r)
  PROVE  OverlapInv'
<1>1. PICK k \in Keys : k = work[r].key
  BY CallOf DEF WorkspaceInv, appendCoordinationEvent
<1>2. PICK old \in Row : old = row[k]
  BY DEF WorkspaceInv, TypeOK
<1>3. PICK next \in Row : next = work[r].next
  BY CallOf DEF WorkspaceInv, appendCoordinationEvent
<1>4. PICK late \in BOOLEAN :
        late <=> work[r].op \in {"heartbeat", "handoff"} /\ row[k].expires <= now
  OBVIOUS
<1>5. /\ row' = [row EXCEPT ![k] = [next EXCEPT !.late = next.late \/ late]]
      /\ Free(sessionLock, r) /\ Ends(r) /\ UNCHANGED now
  BY <1>1, <1>3, <1>4 DEF appendCoordinationEvent
<1>6. \A j \in Keys \ {k} : row'[j] = row[j]
  BY <1>5 DEF WorkspaceInv, TypeOK
<1>7. claimLock[k] = r /\ work[r].op \in FencedOps
  BY <1>1 DEF appendCoordinationEvent, WorkspaceInv, RequestOK
<1>8. \A q \in Requests : GrantOK(q)'
  BY <1>5, <1>6, <1>7, CommitGrants DEF Free
<1>9. /\ old.status = "ACTIVE" /\ next.late = old.late
      /\ work[r].op = "release" => next.status # "ACTIVE"
      /\ work[r].op = "event" => next = old
  BY <1>1, <1>2, <1>3 DEF OverlapInv, GrantOK, Renews, appendCoordinationEvent
<1>10. PICK new : new = [next EXCEPT !.late = next.late \/ late]
  OBVIOUS
<1>11. /\ new.status = next.status /\ new.expires = next.expires
       /\ new.late <=> (next.late \/ late)
  BY <1>10 DEF Row
<1>12. row'[k] = new
  BY <1>5, <1>10 DEF WorkspaceInv, TypeOK
<1>13. LiveAt(k, now)' => LiveAt(k, now) \/ row'[k].late
  <2>1. now \in Nat /\ old.expires \in Nat
    BY <1>2 DEF WorkspaceInv, TypeOK, Time, Row
  <2>2. CASE work[r].op = "release"
    BY <2>2, <1>9, <1>11, <1>12 DEF LiveAt
  <2>3. CASE work[r].op = "event"
    BY <2>3, <1>2, <1>5, <1>9, <1>11, <1>12 DEF LiveAt
  <2>4. CASE work[r].op \in {"heartbeat", "handoff"}
    BY <2>1, <2>4, <1>2, <1>4, <1>9, <1>11, <1>12 DEF LiveAt
  <2>5. QED
    BY <1>7, <2>2, <2>3, <2>4 DEF FencedOps
<1>14. row[k].late => row'[k].late
  BY <1>2, <1>9, <1>11, <1>12
<1>15. \A j \in Keys \ {k} : /\ LiveAt(j, now)' => LiveAt(j, now)
                             /\ row[j].late => row'[j].late
  BY <1>5, <1>6 DEF LiveAt
<1>16. OverlapNeedsLateRenewal'
  <2> SUFFICES ASSUME NEW i \in Keys, NEW j \in Keys, i # j, LiveAt(i, now)', LiveAt(j, now)',
                      workspaceScopesOverlap(i, j)
               PROVE  row'[i].late \/ row'[j].late
    BY DEF OverlapNeedsLateRenewal, workspaceScopesOverlap, Within
  <2>1. \/ row'[i].late \/ row'[j].late
        \/ LiveAt(i, now) /\ LiveAt(j, now)
    BY <1>13, <1>15
  <2>2. LiveAt(i, now) /\ LiveAt(j, now) => row[i].late \/ row[j].late
    BY DEF OverlapInv, OverlapNeedsLateRenewal
  <2>3. QED
    BY <1>14, <1>15, <2>1, <2>2
<1>17. QED
  BY <1>8, <1>16 DEF OverlapInv

\* A draft is nothing to the claims, and time only ends leases.
LEMMA DraftOverlap ==
  ASSUME WorkspaceInv, OverlapInv,
         \/ \E r \in Requests : applyWorkspaceOfflineDraft(r)
         \/ \E base, changed \in BOOLEAN : queueWorkspaceOfflineDraft(base, changed)
         \/ Tick
  PROVE  OverlapInv'
<1>0. now \in Nat
  BY DEF WorkspaceInv, TypeOK, Time
<1>1. ASSUME NEW r \in Requests, applyWorkspaceOfflineDraft(r) PROVE OverlapInv'
  <2>1. Ends(r) /\ UNCHANGED <<row, now>>
    BY <1>1 DEF applyWorkspaceOfflineDraft
  <2>2. work'[r] = Idle /\ \A q \in Requests \ {r} : work'[q] = work[q]
    BY <2>1, EndsFacts DEF WorkspaceInv
  <2>3. \A q \in Requests \ {r} : sessionLock = q => sessionLock' = q
    BY <2>1 DEF Ends, Dropped
  <2>4. \A q \in Requests \ {r} : GrantOK(q)'
    BY <1>0, <2>1, <2>2, <2>3, OthersGrant DEF OverlapInv
  <2>5. GrantOK(r)'
    BY <2>2 DEF GrantOK, Idle, FencedOps
  <2>6. QED
    BY <2>1, <2>4, <2>5, SameOverlaps DEF OverlapInv
<1>2. ASSUME UNCHANGED <<row, sessionLock, work>>, now' \in Nat, now' >= now PROVE OverlapInv'
  <2>1. \A q \in Requests \ {NoRequest} : GrantOK(q)'
    BY <1>2, OthersGrant DEF OverlapInv
  <2>2. \A k \in Keys : LiveAt(k, now)' => LiveAt(k, now)
    BY <1>0, <1>2 DEF LiveAt, WorkspaceInv, TypeOK, Row
  <2>3. OverlapNeedsLateRenewal'
    <3> SUFFICES ASSUME NEW i \in Keys, NEW j \in Keys, i # j, LiveAt(i, now)', LiveAt(j, now)',
                        workspaceScopesOverlap(i, j)
                 PROVE  row'[i].late \/ row'[j].late
      BY DEF OverlapNeedsLateRenewal, workspaceScopesOverlap, Within
    <3>1. QED
      BY <1>2, <2>2 DEF OverlapInv, OverlapNeedsLateRenewal
  <2>4. QED
    BY <2>1, <2>3, RequestAssumption DEF OverlapInv
<1>3. ASSUME NEW base \in BOOLEAN, NEW changed \in BOOLEAN, queueWorkspaceOfflineDraft(base, changed)
      PROVE  OverlapInv'
  BY <1>0, <1>2, <1>3 DEF queueWorkspaceOfflineDraft, locks
<1>4. ASSUME Tick PROVE OverlapInv'
  BY <1>0, <1>2, <1>4 DEF Tick, tables, locks
<1>5. QED
  BY <1>1, <1>3, <1>4

\* Every step keeps it.
LEMMA NextOverlap == WorkspaceInv /\ OverlapInv /\ [Next]_vars => OverlapInv'
<1> SUFFICES ASSUME WorkspaceInv, OverlapInv, [Next]_vars PROVE OverlapInv'
  OBVIOUS
<1>1. CASE UNCHANGED vars
  BY <1>1 DEF vars, tables, locks, OverlapInv, GrantOK, Conflict, LiveAt, OverlapNeedsLateRenewal
<1>2. ASSUME NEW r \in Requests, Steps(r) PROVE OverlapInv'
  BY <1>2, LockOverlap, ClaimOverlap, UpdateOverlap, AppendOverlap, DraftOverlap DEF Steps
<1>3. ASSUME NEW r \in Requests, DeadlockDetected(r) \/ ConnectionLost(r) PROVE OverlapInv'
  BY <1>3, RollbackOverlap DEF DeadlockDetected, ConnectionLost
<1>4. QED
  BY <1>1, <1>2, <1>3, BeginOverlap, DraftOverlap DEF Next

-----------------------------------------------------------------------------
(* The theorems.                                                                *)

\* The rows of sessions, claims and drafts keep their types, and a draft is
\* applied by one event, however many requests ask for it and however they race.
THEOREM DraftsApplyOnce == Spec => []RowsAgree
<1>1. WorkspaceInv => RowsAgree
  BY DEF WorkspaceInv, RowsAgree
<1>2. QED
  BY <1>1, WorkspaceHolds, PTL

\* A claim never changes hands under one fence, and no event goes back to a
\* fence that its key has left.
THEOREM FencesOnlyAdvance == Spec => FencesAdvance
<1>1. WorkspaceInv /\ [Next]_vars =>
        [\A k \in Keys :
           /\ row'[k].token >= row[k].token
           /\ (row'[k].owner # row[k].owner \/ row'[k].status # row[k].status) =>
                row'[k].token > row[k].token
           /\ journal'[k] >= journal[k]]_vars
  BY NextWorkspace DEF FenceStep
<1>2. QED
  BY <1>1, WorkspaceHolds, PTL DEF Spec, FencesAdvance

\* Two claims that live and overlap are never two that were granted: one of them
\* ran out and was prolonged afterwards, whatever the scopes and the requests.
THEOREM OverlapsAreLateRenewals == Spec => []OverlapNeedsLateRenewal
<1>1. Spec => []OverlapInv
  BY InitOverlap, NextOverlap, WorkspaceHolds, PTL DEF Spec
<1>2. OverlapInv => OverlapNeedsLateRenewal
  BY DEF OverlapInv
<1>3. QED
  BY <1>1, <1>2, PTL
=============================================================================
