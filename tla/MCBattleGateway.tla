-------------------------- MODULE MCBattleGateway --------------------------
EXTENDS BattleGateway
CONSTANT p1
MCConvs == 1..2
MCMaxMsgs == <<2, 0>>
=============================================================================
