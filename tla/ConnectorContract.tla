------------------------- MODULE ConnectorContract -------------------------
(***************************************************************************)
(* What the inbox of a source connector promises: an ordered log.  The     *)
(* source's events are accepted once for each sequence number, in any      *)
(* order, and take effect in the order of the numbers, without a gap and   *)
(* each exactly once, together with the assurance run they ask for.        *)
(***************************************************************************)
EXTENDS Integers

CONSTANTS Events, NoEvent, Objects, MaxSeq

VARIABLES
  accepted,  \* the event of each sequence number
  applied,   \* how many have taken effect
  view,      \* the last event that took effect, of each object
  asked      \* the events whose assurance run was asked for

log == <<accepted, applied, view, asked>>

Init ==
  /\ accepted = [s \in 1 .. MaxSeq |-> NoEvent]
  /\ applied = 0
  /\ view = [o \in Objects |-> NoEvent]
  /\ asked = {}

Accept(e) ==
  /\ accepted[e.seq] = NoEvent /\ e.seq > applied
  /\ \A s \in 1 .. MaxSeq : accepted[s] # NoEvent => accepted[s].id # e.id
  /\ accepted' = [accepted EXCEPT ![e.seq] = e]
  /\ UNCHANGED <<applied, view, asked>>

TakeEffect ==
  LET e == accepted[applied + 1]
  IN  /\ applied < MaxSeq /\ e # NoEvent
      /\ applied' = applied + 1
      /\ view' = [view EXCEPT ![e.object] = e]
      /\ asked' = asked \cup {e.seq}
      /\ UNCHANGED accepted

Next == TakeEffect \/ \E e \in Events : Accept(e)

Spec == Init /\ [][Next]_log
=============================================================================
