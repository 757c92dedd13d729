----------------------------- MODULE MCWsClient -----------------------------
EXTENDS WsClient

CONSTANTS c1, c2, d1

MCCalls == {c1, c2}
MCDomains == {d1}
=============================================================================
