-------------------------- MODULE MCDocumentDrafts --------------------------
EXTENDS DocumentDrafts

CONSTANTS c1, c2

Typed == {"x", "s"}
Suggested == "s"
=============================================================================
