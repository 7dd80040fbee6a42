---------------------------- MODULE MCProjection ----------------------------
(* Small instances of the projections for TLC. *)
EXTENDS Projection, TLC

CONSTANTS p1, p2, q1, v1, v2, w1

OneVault == (p1 :> v1) @@ (p2 :> v1)
\* Two documents of one vault and one of another.
TwoVaults == OneVault @@ (q1 :> v2)
=============================================================================
