---------------------------- MODULE MCIngestJob ----------------------------
(* Small instances of the ingest pipeline for TLC. *)
EXTENDS IngestJob, TLC

CONSTANTS j1, w1, w2
=============================================================================
