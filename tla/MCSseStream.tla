---------------------------- MODULE MCSseStream -----------------------------
EXTENDS SseStream
=============================================================================
