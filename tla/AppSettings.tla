---------------------------- MODULE AppSettings ----------------------------
(***************************************************************************)
(* The app's settings file and those who share it: the serialised          *)
(* read-modify-write of src/bun/settings-store.ts, the notification        *)
(* preferences and notices of src/bun/notifications.ts, the "app" settings *)
(* of src/bun/secrets.ts, and the tray menu of src/bun/index.ts.           *)
(*                                                                         *)
(* A task is one request or callback.  It awaits the file system, and in   *)
(* between other tasks run: reads are not serialised with anything, the    *)
(* writes with each other through writeChain.  "app" stands for the keys   *)
(* of the other owners (GitHub's is written the same way).                 *)
(***************************************************************************)
EXTENDS Naturals, Sequences, FiniteSets, SequencesExt

CONSTANTS AppPuts,      \* PUT requests for the app's own settings
          PrefsPuts,    \* PUT /app/notifications/prefs
          Toggles,      \* "Pause notifications" clicks in the tray
          Gets,         \* the boot's prime(), then GET /app/notifications/prefs
          Notices,      \* POST /app/notifications/notify
          StartFiles,   \* what settings.json may be when the app first starts
          PutPrefs,     \* preferences the settings view may put
          MaxFailures,  \* bound: writes the file system refuses
          MaxRestarts   \* bound: times the app quits and is started again

Updates == AppPuts \cup PrefsPuts \cup Toggles
Loaders == Toggles \cup Gets \cup Notices
Tasks == Updates \cup Loaders

Prefs == [enabled : BOOLEAN, batching : {"off", "30s"}]
DefaultPrefs == [enabled |-> TRUE, batching |-> "off"]
Settings == [app : BOOLEAN, notifications : Prefs]
Defaults == [app |-> FALSE, notifications |-> DefaultPrefs]

\* What an update may write under its key.
Values(u) == IF u \in AppPuts THEN BOOLEAN ELSE Prefs

\* settings.json is absent, not a JSON object, or an object; a read may fail.
Missing == [is |-> "missing"]
Damaged == [is |-> "damaged"]
Unreadable == [is |-> "unreadable"]
Files == {Missing, Damaged} \cup [is : {"object"}, settings : Settings]
Readings == Files \cup {Unreadable}
Object(settings) == [is |-> "object", settings |-> settings]

ASSUME SettingsAssumption ==
  /\ AppPuts \cap (PrefsPuts \cup Toggles) = {} /\ PrefsPuts \cap Toggles = {}
  /\ Updates \cap (Gets \cup Notices) = {} /\ Gets \cap Notices = {}
  /\ StartFiles \subseteq Files /\ PutPrefs \subseteq Prefs
  /\ MaxFailures \in Nat /\ MaxRestarts \in Nat

VARIABLES
  file,        \* settings.json
  phase,       \* task -> how far it is
  seen,        \* task -> what its last readFile returned
  asked,       \* update -> what it writes under its key
  writeChain,  \* the updates that wait for writeChain, the running one first
  cachedPrefs, \* cachedPrefs
  menu,        \* the tray menu's "paused", as last built
  batchQueue,  \* notices waiting for the batch timer
  batchTimer,  \* the batch timer is armed
  failures,    \* writes that failed
  restarts     \* times the app was started again

storeVars == <<file, writeChain, failures>>
noticeVars == <<batchQueue, batchTimer>>
trayVars == <<cachedPrefs, menu>>
vars == <<storeVars, phase, seen, asked, trayVars, noticeVars, restarts>>

\* The process starts: prime() reads while the menu is built from the defaults.
Booted ==
  /\ writeChain = <<>> /\ cachedPrefs = DefaultPrefs
  /\ menu = ~DefaultPrefs.enabled
  /\ batchQueue = <<>> /\ batchTimer = FALSE

Init ==
  /\ file \in StartFiles /\ Booted
  /\ phase = [t \in Tasks |-> IF t \in Gets THEN "loading" ELSE "idle"]
  /\ seen = [t \in Tasks |-> Missing]
  /\ asked = [u \in Updates |-> IF u \in AppPuts THEN FALSE ELSE DefaultPrefs]
  /\ failures = 0 /\ restarts = 0

Goto(t, p) == phase' = [phase EXCEPT ![t] = p]

----------------------------------------------------------------------------
\* Reading, readAppSettings: as a load of its own, or as the first half of an
\* update, which waits for the updates before it in writeChain.

StartLoad(t) ==
  /\ t \in Loaders /\ phase[t] = "idle" /\ Goto(t, "loading")
  /\ UNCHANGED <<storeVars, seen, asked, trayVars, noticeVars, restarts>>

\* Seeded bug: updates read at once, not when their turn comes.
ReadFileAtOnce(t) ==
  /\ \/ phase[t] = "loading" /\ Goto(t, "loaded")
     \/ phase[t] = "chained" /\ Goto(t, "fetched")
  /\ seen' = [seen EXCEPT ![t] = file]
  /\ UNCHANGED <<storeVars, asked, trayVars, noticeVars, restarts>>

Reads(t, result) ==
  /\ \/ phase[t] = "loading" /\ Goto(t, "loaded")
     \/ writeChain # <<>> /\ Head(writeChain) = t
        /\ phase[t] = "chained" /\ Goto(t, "fetched")
  /\ seen' = [seen EXCEPT ![t] = result]
  /\ UNCHANGED <<storeVars, asked, trayVars, noticeVars, restarts>>

ReadFile(t) == Reads(t, file)

\* Whatever error readFile meets, it counts as a file that is not there.
ReadFails(t) == Reads(t, Unreadable)

\* A reader that found no JSON object moves away whatever is there by now, or
\* fails to.
SetAside(t) ==
  /\ phase[t] \in {"loaded", "fetched"} /\ seen[t] = Damaged
  /\ file' \in {Missing, file}
  /\ seen' = [seen EXCEPT ![t] = Missing]
  /\ UNCHANGED <<writeChain, failures, phase, asked, trayVars, noticeVars, restarts>>

Contents(f) == IF f.is = "object" THEN f.settings ELSE Defaults

----------------------------------------------------------------------------
\* Updating, mutateAppSettings.

PutRequest(u) ==
  /\ u \in AppPuts \cup PrefsPuts /\ phase[u] = "idle"
  /\ \E v \in IF u \in AppPuts THEN BOOLEAN ELSE PutPrefs :
       asked' = [asked EXCEPT ![u] = v]
  /\ Goto(u, "chained") /\ writeChain' = Append(writeChain, u)
  /\ UNCHANGED <<file, failures, seen, trayVars, noticeVars, restarts>>

Mutate(u, settings, v) ==
  IF u \in AppPuts THEN [settings EXCEPT !.app = v]
                   ELSE [settings EXCEPT !.notifications = v]

\* The temporary file is renamed over settings.json.
WriteFile(u) ==
  /\ phase[u] = "fetched" /\ seen[u] # Damaged
  /\ file' = Object(Mutate(u, Contents(seen[u]), asked[u]))
  /\ Goto(u, "written") /\ writeChain' = Tail(writeChain)
  /\ seen' = [seen EXCEPT ![u] = Missing]
  /\ UNCHANGED <<failures, asked, trayVars, noticeVars, restarts>>

\* Seeded bug: a rejection is passed on to the updates behind it.
WriteFailsForAll(u) ==
  /\ phase[u] = "fetched" /\ seen[u] # Damaged /\ failures < MaxFailures
  /\ failures' = failures + 1
  /\ phase' = [t \in Tasks |-> IF t \in ToSet(writeChain) THEN "failed" ELSE phase[t]]
  /\ writeChain' = <<>> /\ seen' = [seen EXCEPT ![u] = Missing]
  /\ UNCHANGED <<file, asked, trayVars, noticeVars, restarts>>

\* Seeded bug: writeChain is left to the rejected update.
WriteFailsHoldsChain(u) ==
  /\ phase[u] = "fetched" /\ seen[u] # Damaged /\ failures < MaxFailures
  /\ failures' = failures + 1 /\ Goto(u, "failed")
  /\ seen' = [seen EXCEPT ![u] = Missing]
  /\ UNCHANGED <<file, writeChain, asked, trayVars, noticeVars, restarts>>

\* It could not be written or renamed: the chain goes on without this one.
WriteFails(u) ==
  /\ phase[u] = "fetched" /\ seen[u] # Damaged /\ failures < MaxFailures
  /\ failures' = failures + 1
  /\ Goto(u, "failed") /\ writeChain' = Tail(writeChain)
  /\ seen' = [seen EXCEPT ![u] = Missing]
  /\ UNCHANGED <<file, asked, trayVars, noticeVars, restarts>>

\* The update's caller goes on: savePrefs keeps what it stored, and the
\* tray's click handler builds the menu again.
Saved(u) ==
  /\ phase[u] = "written" /\ Goto(u, "done")
  /\ cachedPrefs' = IF u \in AppPuts THEN cachedPrefs ELSE asked[u]
  /\ menu' = IF u \in Toggles THEN ~cachedPrefs'.enabled ELSE menu
  /\ UNCHANGED <<storeVars, seen, asked, noticeVars, restarts>>

----------------------------------------------------------------------------
\* What follows a load of the preferences.

LoadPrefs(t) ==
  /\ phase[t] = "loaded" /\ seen[t] # Damaged
  /\ cachedPrefs' = Contents(seen[t]).notifications
  /\ seen' = [seen EXCEPT ![t] = Missing]

Get(t) ==
  /\ t \in Gets /\ LoadPrefs(t) /\ Goto(t, "idle")
  /\ UNCHANGED <<storeVars, asked, menu, noticeVars, restarts>>

TogglePaused(t) ==
  /\ t \in Toggles /\ LoadPrefs(t)
  /\ asked' = [asked EXCEPT ![t] = [cachedPrefs' EXCEPT !.enabled = ~@]]
  /\ Goto(t, "chained") /\ writeChain' = Append(writeChain, t)
  /\ UNCHANGED <<file, failures, menu, noticeVars, restarts>>

\* Not shown when paused, when its domain is muted or nothing can deliver it;
\* shown at once without batching, else queued.
Notify(n) ==
  /\ n \in Notices /\ LoadPrefs(n) /\ Goto(n, "done")
  /\ \/ UNCHANGED noticeVars
     \/ /\ cachedPrefs'.enabled /\ cachedPrefs'.batching # "off"
        /\ batchQueue' = Append(batchQueue, n)
        /\ batchTimer' = TRUE
  /\ UNCHANGED <<storeVars, asked, menu, restarts>>

BatchTimerFires ==
  /\ batchTimer /\ batchTimer' = FALSE /\ batchQueue' = <<>>
  /\ UNCHANGED <<storeVars, phase, seen, asked, trayVars, restarts>>

----------------------------------------------------------------------------
\* "Quit GoodVibes" and a new start: what was in flight is gone.
Restart ==
  /\ restarts < MaxRestarts /\ restarts' = restarts + 1
  /\ writeChain' = <<>> /\ cachedPrefs' = DefaultPrefs
  /\ menu' = ~DefaultPrefs.enabled
  /\ batchQueue' = <<>> /\ batchTimer' = FALSE
  /\ phase' = [t \in Tasks |->
       CASE t \in Gets -> "loading"
         [] t \in Notices /\ phase[t] # "idle" -> "done"
         [] phase[t] = "written" -> "done"
         [] phase[t] \in {"loading", "loaded", "chained", "fetched"} -> "lost"
         [] OTHER -> phase[t]]
  /\ seen' = [t \in Tasks |-> Missing]
  /\ UNCHANGED <<file, failures, asked>>

Next ==
  \/ \E t \in Loaders : StartLoad(t)
  \/ \E t \in Tasks : ReadFile(t) \/ ReadFails(t) \/ SetAside(t)
  \/ \E u \in Updates : PutRequest(u) \/ WriteFile(u) \/ WriteFails(u) \/ Saved(u)
  \/ \E t \in Gets : Get(t)
  \/ \E t \in Toggles : TogglePaused(t)
  \/ \E n \in Notices : Notify(n)
  \/ BatchTimerFires
  \/ Restart

\* File operations that were issued end, and timers fire.
Fairness ==
  /\ \A t \in Tasks : WF_vars(ReadFile(t) \/ ReadFails(t)) /\ WF_vars(SetAside(t))
  /\ \A u \in Updates : WF_vars(WriteFile(u) \/ WriteFails(u)) /\ WF_vars(Saved(u))
  /\ \A t \in Toggles : WF_vars(TogglePaused(t))
  /\ \A t \in Gets : WF_vars(Get(t))
  /\ \A n \in Notices : WF_vars(Notify(n))
  /\ WF_vars(BatchTimerFires)

Spec == Init /\ [][Next]_vars /\ Fairness

----------------------------------------------------------------------------
\* Properties.

Phases == {"idle", "loading", "loaded", "chained", "fetched", "written", "done",
           "failed", "lost"}

\* The settings stay well typed, an update waits in writeChain exactly once
\* from when it is chained until it is settled, and only the first of them is
\* past its read (settings-store.ts:61-81).
TypeOK ==
  /\ file \in Files /\ phase \in [Tasks -> Phases] /\ seen \in [Tasks -> Readings]
  /\ DOMAIN asked = Updates /\ \A u \in Updates : asked[u] \in Values(u)
  /\ IsInjective(writeChain)
  /\ ToSet(writeChain) = {u \in Updates : phase[u] \in {"chained", "fetched"}}
  /\ \A u \in Updates : phase[u] = "fetched" => u = Head(writeChain)
  /\ cachedPrefs \in Prefs /\ menu \in BOOLEAN
  /\ batchQueue \in Seq(Notices) /\ batchTimer \in BOOLEAN
  /\ failures \in 0..MaxFailures /\ restarts \in 0..MaxRestarts

\* "cross-module writes can never lose each other" (settings-store.ts:9):
\* every update changes its own key of the settings as they are when it is
\* stored, and nothing else.  Excepted are the two ways in which the code does
\* lose what others wrote: an update whose read failed writes on top of nothing
\* (42), and a reader that found the file damaged renames whatever is there when
\* it comes to it (56), until the last such reader is done.
Outcome(p) ==
  CASE p \in {"written", "done"} -> "stored"
    [] p \in {"failed", "lost"} -> "rejected"
    [] OTHER -> "none"

Effects(u, settings) == {Mutate(u, settings, v) : v \in Values(u)}

FoundDamaged == file = Damaged \/ \E t \in Tasks : seen[t] = Damaged

\* The settings an update is about to write on top of, when the file says
\* something else.
Basis(u) ==
  IF phase[u] = "fetched" /\ Contents(seen[u]) # Contents(file)
  THEN Contents(seen[u]) ELSE [is |-> "current"]

Store == INSTANCE SerialStore
  WITH Documents <- Settings, Empty <- Defaults,
       Effects <- Effects,
       doc <- Contents(file),
       damaged <- FoundDamaged,
       basis <- [u \in Updates |-> Basis(u)],
       outcome <- [u \in Updates |-> Outcome(phase[u])]

StoreIsSerial == Store!Spec

\* "The chain survives a rejected write so later writes still run"
\* (settings-store.ts:67-68): a write that fails rejects its own update only.
OneFailureOneRejection ==
  Cardinality({u \in Updates : phase[u] = "failed"}) = failures

\* An update that was chained is answered, unless the app quits.
EveryUpdateSettles ==
  \A u \in Updates :
    phase[u] = "chained" ~> phase[u] \in {"done", "failed", "lost"}

=============================================================================
