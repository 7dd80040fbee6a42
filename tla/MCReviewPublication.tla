------------------------- MODULE MCReviewPublication -------------------------
(* Small instances of review publication for TLC. *)
EXTENDS ReviewPublication, TLC

CONSTANTS r1, r2, a1, a2, p1, p2

OneApproval == <<1>>
\* A profile activation lowers the quorum while a review is open.
LowerQuorum == <<2, 1>>

\* A profile is read while the review is open: an activation at another time is
\* as good as one just before the next reading, and one before the review exists
\* only makes it a review under the single profile of the other runs.
ActivatedWhenRead ==
  profile' # profile => \E r \in Reviews : review[r].status \in Open

\* Nothing that follows a publication reads the round.
FirstRoundRollsBack ==
  \A p \in Requests :
    req'[p].at = "ready" /\ req'[p].op = "rollback" => review[req'[p].review].round = 1

\* For the run without liveness.
ReviewerSymmetry == Permutations({p1, p2}) \cup Permutations({a1, a2})
=============================================================================
