------------------------------ MODULE MCChatTurn ------------------------------
(* ChatTurn for TLC.                                                       *)
EXTENDS ChatTurn
=============================================================================
