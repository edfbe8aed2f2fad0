----------------------------- MODULE MCGmailSync -----------------------------
(* GmailSync for TLC.  The mailboxes are alike, which the safety run uses; *)
(* the liveness run has one only.                                          *)
EXTENDS GmailSync, TLC

CONSTANTS home, office

Symmetry == Permutations(Mailboxes)
=============================================================================
