---------------------------- MODULE MCWorkspace ----------------------------
EXTENDS WorkspaceCoordination

\* x/** and x/y, as in the guide.
WorkKeys == {[mode |-> "PREFIX", path |-> <<"x">>], [mode |-> "EXACT", path |-> <<"x", "y">>]}
Tokens == [k \in WorkKeys |-> IF k.mode = "PREFIX" THEN 2 ELSE 1]
=============================================================================
