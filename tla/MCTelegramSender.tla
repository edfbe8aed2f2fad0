-------------------------- MODULE MCTelegramSender --------------------------
(* TelegramSender for TLC.                                                 *)
EXTENDS TelegramSender
=============================================================================
