----------------------------- MODULE MCIngestion -----------------------------
(***************************************************************************)
(* A small instance of Ingestion.                                          *)
(***************************************************************************)
EXTENDS IngestionHistory, Snapshots

CONSTANTS q1, q2, q3

=============================================================================
