----------------------------- MODULE MCWsBridge -----------------------------
EXTENDS WsBridge

SecondAndThird == {2, 3}
=============================================================================
