----------------------------- MODULE MCChatTurn -----------------------------
EXTENDS ChatTurn

CONSTANTS a, b
=============================================================================
