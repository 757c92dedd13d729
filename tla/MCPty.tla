------------------------------- MODULE MCPty --------------------------------
EXTENDS Pty

CONSTANTS r1, r2, u1

OneRequest == {r1}
TwoRequests == {r1, r2}
OneSubscriber == {u1}
TwoFds == {3, 4}
=============================================================================
