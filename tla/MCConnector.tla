---------------------------- MODULE MCConnector ----------------------------
EXTENDS SourceConnector

\* An object that is written and deleted, then another that is written; and an
\* impostor with the number of the second event.
MCEvents ==
  {[id |-> 1, seq |-> 1, object |-> "o", op |-> "UPSERT"],
   [id |-> 2, seq |-> 2, object |-> "o", op |-> "DELETE"],
   [id |-> 4, seq |-> 2, object |-> "p", op |-> "UPSERT"],
   [id |-> 3, seq |-> 3, object |-> "p", op |-> "UPSERT"]}
=============================================================================
