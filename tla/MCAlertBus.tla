----------------------------- MODULE MCAlertBus -----------------------------
(* AlertBus for TLC.                                                       *)
EXTENDS AlertBus

CONSTANTS sweep, panic, lapsed
=============================================================================
