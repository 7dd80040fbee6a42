------------------------------ MODULE MCTruth ------------------------------
EXTENDS TemporalTruth, TLC

CONSTANTS f1, f2, e1, e2, i1

\* f1 rests on a source, f2 on f1 or another source, and the item on f2 or on a
\* source.
MCSupports == f1 :> {{{e1}}} @@ f2 :> {{{f1}, {e2}}} @@ i1 :> {{{f2}}, {{e2}}}

\* For ever, and from time 1.
MCWindows == {[from |-> 0, to |-> 9], [from |-> 1, to |-> 9]}

\* A query reads the heads and nothing else, and the other vaults' heads concern
\* queries only: they run where nothing is recorded or derived.
QueriesApart ==
  \/ query.at = "idle" /\ \A v \in Others : head[v] = 0
  \/ deps = {} /\ vectors = {} /\ \A f \in Facts : fact[f].seq = 0
=============================================================================
