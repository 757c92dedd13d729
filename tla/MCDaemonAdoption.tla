-------------------------- MODULE MCDaemonAdoption --------------------------
EXTENDS DaemonAdoption, TLC

CONSTANTS a1, a2

TwoApps == {a1, a2}
=============================================================================
