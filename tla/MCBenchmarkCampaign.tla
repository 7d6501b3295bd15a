------------------------ MODULE MCBenchmarkCampaign -------------------------
(* The whole campaign with both probes of the shipped plan.                     *)
EXTENDS BenchmarkCampaign

MCProbes == <<"embedding", "qdrant">>

=============================================================================
