------------------------------ MODULE MCBotTurns ------------------------------
(* Small instances of BotTurns for TLC. *)
EXTENDS BotTurns

CONSTANTS m1, m2, m3, w1, w2
=============================================================================
