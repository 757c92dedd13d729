--------------------------- MODULE MCHostedAttach ---------------------------
EXTENDS HostedAttach

CONSTANTS a, b
=============================================================================
