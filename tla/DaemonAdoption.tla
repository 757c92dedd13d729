--------------------------- MODULE DaemonAdoption ---------------------------
(***************************************************************************)
(* How an app instance finds the daemon it drives: src/bun/daemon-manager  *)
(* (probe, adopt or spawn), the handle src/bun/index.ts fills in once, the *)
(* proxy of src/bun/ui-server.ts that waits for the handle's token, and    *)
(* the gate of DaemonGate.tsx that shows what the handle says.             *)
(*                                                                         *)
(* Instances run concurrently, and so do the daemons: others start them,   *)
(* they take time to bind the port, they are slow, they die.  What         *)
(* answers on the port is of one of four kinds: a daemon of our major that *)
(* takes our token, one of another major, one that rejects the token, and  *)
(* something else.                                                         *)
(***************************************************************************)
EXTENDS Naturals, FiniteSets

CONSTANTS Apps,          \* app instances
          MaxProcesses,  \* bound: processes that ever contend for the port
          MaxPolls       \* polls before SPAWN_READY_TIMEOUT_MS is over

ASSUME AdoptionAssumption ==
  IsFiniteSet(Apps) /\ MaxProcesses \in Nat /\ MaxPolls \in Nat

Processes == 1..MaxProcesses
Kinds == {"compatible", "offMajor", "rejects", "foreign"}

VARIABLES
  started,  \* processes that were started so far
  kind,     \* process -> its kind
  process,  \* process -> starting, listening or gone
  handlePhase,    \* app -> off, probing, polling, settled or quit
  mode,     \* app -> handle.info.mode
  token,    \* app -> handle.token # ""
  polls,    \* app -> polls since the spawn
  shown,    \* app -> the mode the webview last fetched
  driven    \* app -> processes its proxied requests reached (history)

osVars == <<started, kind, process>>
handleVars == <<handlePhase, mode, token, polls>>
adoptionVars == <<osVars, handleVars, shown, driven>>

AdoptionInit ==
  /\ started = 0 /\ kind = [p \in Processes |-> "foreign"]
  /\ process = [p \in Processes |-> "gone"]
  /\ handlePhase = [a \in Apps |-> "off"] /\ mode = [a \in Apps |-> "unreachable"]
  /\ token = [a \in Apps |-> FALSE]
  /\ polls = [a \in Apps |-> 0] /\ shown = [a \in Apps |-> "none"]
  /\ driven = [a \in Apps |-> {}]

Listening == {p \in Processes : process[p] = "listening"}

----------------------------------------------------------------------------
\* Processes of the machine: the spawned daemons, and everyone else's.

StartProcess(k) ==
  /\ started < MaxProcesses
  /\ started' = started + 1
  /\ kind' = [kind EXCEPT ![started + 1] = k]
  /\ process' = [process EXCEPT ![started + 1] = "starting"]

OtherStarts == \E k \in Kinds : StartProcess(k) /\ UNCHANGED <<handleVars, shown, driven>>

\* Only one process can listen on the port; a second one gives up.
Binds(p) ==
  /\ process[p] = "starting"
  /\ process' = [process EXCEPT ![p] = IF Listening = {} THEN "listening" ELSE "gone"]
  /\ UNCHANGED <<started, kind, handleVars, shown, driven>>

Dies(p) ==
  /\ process[p] \in {"starting", "listening"}
  /\ process' = [process EXCEPT ![p] = "gone"]
  /\ UNCHANGED <<started, kind, handleVars, shown, driven>>

----------------------------------------------------------------------------
\* adoptOrSpawn.

\* What probe() may return: a process that answers too late, or while it is
\* still starting, counts as unreachable.
ProbeResults == {"unreachable"} \cup {kind[p] : p \in Listening}

Launch(a) ==
  /\ handlePhase[a] = "off" /\ handlePhase' = [handlePhase EXCEPT ![a] = "probing"]
  /\ UNCHANGED <<osVars, mode, token, polls, shown, driven>>

\* main() stores the result in the handle: whatever the mode, with the token.
Settle(a, m) ==
  /\ handlePhase' = [handlePhase EXCEPT ![a] = "settled"]
  /\ mode' = [mode EXCEPT ![a] = m]
  /\ token' = [token EXCEPT ![a] = TRUE]

\* The first probe had an answer.
Adopt(a) ==
  /\ handlePhase[a] = "probing"
  /\ \/ "compatible" \in ProbeResults /\ Settle(a, "external")
     \/ "offMajor" \in ProbeResults /\ Settle(a, "incompatible")
     \/ {"rejects", "foreign"} \cap ProbeResults # {} /\ Settle(a, "unreachable")
  /\ UNCHANGED <<osVars, polls, shown, driven>>

\* It had none, and there is a binary to spawn, of whatever version.
Spawn(a) ==
  /\ handlePhase[a] = "probing"
  /\ \E k \in {"compatible", "offMajor"} : StartProcess(k)
  /\ handlePhase' = [handlePhase EXCEPT ![a] = "polling"]
  /\ UNCHANGED <<mode, token, polls, shown, driven>>

NoBinary(a) ==
  /\ handlePhase[a] = "probing" /\ Settle(a, "unreachable")
  /\ UNCHANGED <<osVars, polls, shown, driven>>

\* A poll: any GoodVibes answer will do.
PollAnswered(a) ==
  /\ handlePhase[a] = "polling" /\ polls[a] < MaxPolls
  /\ {"compatible", "offMajor"} \cap ProbeResults # {}
  /\ Settle(a, "spawned")
  /\ UNCHANGED <<osVars, polls, shown, driven>>

PollUnanswered(a) ==
  /\ handlePhase[a] = "polling" /\ polls[a] < MaxPolls
  /\ polls' = [polls EXCEPT ![a] = @ + 1]
  /\ UNCHANGED <<osVars, handlePhase, mode, token, shown, driven>>

\* Seeded bug: no deadline.
DeadlinePassedNever(a) == handlePhase[a] = "polling" /\ polls[a] > MaxPolls /\ UNCHANGED adoptionVars

DeadlinePassed(a) ==
  /\ handlePhase[a] = "polling" /\ polls[a] = MaxPolls
  /\ Settle(a, "unreachable")
  /\ UNCHANGED <<osVars, polls, shown, driven>>

\* quitApp: the daemon stays up.
Quit(a) ==
  /\ handlePhase[a] \in {"probing", "polling", "settled"}
  /\ handlePhase' = [handlePhase EXCEPT ![a] = "quit"]
  /\ UNCHANGED <<osVars, mode, token, polls, shown, driven>>

Running(a) == handlePhase[a] \in {"probing", "polling", "settled"}

\* Seeded bug: the proxy forwards whatever the handle says.
ProxyWithoutToken(a) ==
  /\ Running(a)
  /\ driven' = [driven EXCEPT ![a] = @ \cup Listening]
  /\ UNCHANGED <<osVars, handleVars, shown>>

\* proxyToDaemon: 503 without a token, 502 without an answer.
Proxy(a) ==
  /\ Running(a) /\ token[a]
  /\ driven' = [driven EXCEPT ![a] = @ \cup Listening]
  /\ UNCHANGED <<osVars, handleVars, shown>>

\* The webview fetches /app/health every few seconds and on "Retry now":
\* the handle's info, as it is.
FetchHealth(a) ==
  /\ Running(a) /\ shown' = [shown EXCEPT ![a] = mode[a]]
  /\ UNCHANGED <<osVars, handleVars, driven>>

Adopting(a) == \/ Adopt(a) \/ Spawn(a) \/ NoBinary(a)
               \/ PollAnswered(a) \/ PollUnanswered(a) \/ DeadlinePassed(a)

AdoptionNext ==
  \/ OtherStarts
  \/ \E p \in Processes : Binds(p) \/ Dies(p)
  \/ \E a \in Apps : \/ Launch(a) \/ Adopting(a) \/ Quit(a)
                     \/ Proxy(a) \/ FetchHealth(a)

(***************************************************************************)
(* Fairness: probes have a timeout and polls a deadline, a process that    *)
(* starts binds or gives up, the webview keeps fetching the health.        *)
(***************************************************************************)
AdoptionFairness ==
  /\ \A a \in Apps : WF_adoptionVars(Adopting(a)) /\ WF_adoptionVars(FetchHealth(a))
  /\ \A p \in Processes : WF_adoptionVars(Binds(p))

AdoptionSafeSpec == AdoptionInit /\ [][AdoptionNext]_adoptionVars
AdoptionSpec == AdoptionSafeSpec /\ AdoptionFairness

----------------------------------------------------------------------------
Modes == {"external", "spawned", "unreachable", "incompatible"}

AdoptionTypeOK ==
  /\ started \in 0..MaxProcesses /\ kind \in [Processes -> Kinds]
  /\ process \in [Processes -> {"starting", "listening", "gone"}]
  /\ handlePhase \in [Apps -> {"off", "probing", "polling", "settled", "quit"}]
  /\ mode \in [Apps -> Modes] /\ token \in [Apps -> BOOLEAN]
  /\ polls \in [Apps -> 0..MaxPolls]
  /\ shown \in [Apps -> Modes \cup {"none"}]
  /\ driven \in [Apps -> SUBSET Processes]

\* The gate is up when the health that was fetched last has no daemon to drive.
Gated(a) == shown[a] \in {"unreachable", "incompatible"}

\* However slow, absent or hostile what is behind the port, a launched app
\* comes to a verdict (daemon-manager.ts:236-256), and the gate tells it.
AdoptionSettles ==
  \A a \in Apps : handlePhase[a] = "probing" ~>
    \/ handlePhase[a] = "settled" /\ (Gated(a) <=> mode[a] \in {"unreachable", "incompatible"})
    \/ handlePhase[a] = "quit"

\* "Requests arriving before adoption resolve get a clean 503"
\* (index.ts:29-30): none is proxied before the app reached its verdict.
RequestsWaitForAdoption ==
  \A a \in Apps : handlePhase[a] \in {"probing", "polling"} => driven[a] = {}
=============================================================================
