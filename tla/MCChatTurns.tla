---------------------------- MODULE MCChatTurns ----------------------------
(***************************************************************************)
(* Two messages: the first call may be tried twice and say two things per  *)
(* attempt, the second says one thing.                                     *)
(***************************************************************************)
EXTENDS ChatTurns

MCAttempts == <<2, 1>>
MCChunks == <<2, 1>>
=============================================================================
