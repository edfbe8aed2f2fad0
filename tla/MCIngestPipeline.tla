-------------------------- MODULE MCIngestPipeline --------------------------
(* IngestPipeline for TLC.                                                 *)
EXTENDS IngestPipeline, TLC

CONSTANTS w1, w2, mail, receipt, lease, note, home

Symmetry == Permutations({w1, w2})
=============================================================================
