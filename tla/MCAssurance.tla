---------------------------- MODULE MCAssurance ----------------------------
EXTENDS AssuranceRun
=============================================================================
