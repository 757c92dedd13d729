---------------------------- MODULE MCWsTickets -----------------------------
EXTENDS WsTickets
=============================================================================
