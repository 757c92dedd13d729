---------------------------- MODULE MCAppSettings ---------------------------
EXTENDS AppSettings

CONSTANTS put, prefs, click, get, n1, n2

\* Batched notices on; the settings view pauses them.
Batching == [enabled |-> TRUE, batching |-> "30s"]
Paused == [enabled |-> FALSE, batching |-> "30s"]
Stored == Object([app |-> FALSE, notifications |-> Batching])

SoundOrDamaged == {Missing, Damaged, Stored}
JustPaused == {Paused}
=============================================================================
