----------------------------- MODULE MCJobQueue -----------------------------
(* Small instances of JobQueue for TLC.                                    *)
EXTENDS JobQueue, TLC

CONSTANTS w1, w2, webhook, sync, gone

Symmetry == Permutations(Workers)
=============================================================================
