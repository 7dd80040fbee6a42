------------------------------- MODULE MCDrain -------------------------------
EXTENDS WorkerDrain

CONSTANTS c1, c2, j1, e1, r1

\* The second event of a connector, whose first arrives late, and an upload
\* whose finished job commits an event, whose handler asks for an assurance run.
MCKind == [i \in Items |-> IF i \in {c1, c2} THEN "connector" ELSE IF i = j1 THEN "job"
                           ELSE IF i = e1 THEN "event" ELSE "run"]

MCAfter == [i \in Items |-> IF i = c2 THEN {c1} ELSE {}]

MCFeeds == [i \in Items |-> IF i = j1 THEN {e1} ELSE IF i = e1 THEN {r1} ELSE {}]

=============================================================================
