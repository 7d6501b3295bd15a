-------------------------- MODULE MCIngestPipeline --------------------------
(* The ingest pipeline on small instances. *)
EXTENDS IngestPipeline, TLC

\* CK_Job_Status as db/init/Jipsa_AWS_Server_DB_v1.sql creates it.
ShippedStatuses == JobStatus \ {"WAITING_CALLBACK"}

\* Instances, and files, are interchangeable.
Symmetry == Permutations(Workers) \cup Permutations(Files)

=============================================================================
