------------------------------ MODULE MCOutbox ------------------------------
(* Small instances of the outbox for TLC. *)
EXTENDS OutboxContract, TLC

CONSTANTS e1, e2, e3, c1, w1, w2, t1, t2

\* e1 causes e2 in its own transaction and e3 in a later one.
TreeEvents == {e1, e2, e3}
TreeCause == (e1 :> NoEvent) @@ (e2 :> e1) @@ (e3 :> e1)
TreeTx == (e1 :> t1) @@ (e2 :> t1) @@ (e3 :> t2)

OneConsumer == [w \in {w1, w2} |-> c1]

\* Of the registrations of a consumer that is known already only those that
\* insert a row are followed: the others read, write nothing and commit.
BackfillsSomething ==
  \A c \in Consumers :
    registering[c].open /\ c \in registered =>
      \E e \in registering[c].seen : delivery[<<e, c>>].status = "NONE"
=============================================================================
