------------------------- MODULE AppSettingsProofs -------------------------
(***************************************************************************)
(* The settings file implements SerialStore, for any number of updates,    *)
(* readers, failed reads and writes, and restarts.  What makes it          *)
(* inductive is FetchInv, the one update that has read the file and not    *)
(* yet written it is the head of writeChain, so nobody else writes in      *)
(* between, and SeenInv, only a reader that is about to set it aside holds *)
(* a damaged file.  That writeChain holds exactly the unsettled updates    *)
(* (ChainInv), and that failures and failed updates are as many            *)
(* (FailedInv), goes by the same steps.                                    *)
(***************************************************************************)
EXTENDS AppSettings, SeqFacts, FiniteSetTheorems

Typed ==
  /\ file \in Files
  /\ phase \in [Tasks -> Phases] /\ seen \in [Tasks -> Readings]
  /\ DOMAIN asked = Updates /\ asked = [u \in Updates |-> asked[u]]
  /\ \A u \in Updates : asked[u] \in Values(u)
  /\ writeChain \in Seq(Updates)

FetchInv ==
  \A u \in Updates : phase[u] = "fetched" => writeChain # <<>> /\ Head(writeChain) = u

SeenInv ==
  \A t \in Tasks : phase[t] \notin {"loaded", "fetched"} => seen[t] # Damaged

StoreInv == Typed /\ FetchInv /\ SeenInv

USE SettingsAssumption

----------------------------------------------------------------------------
\* What a read may return is told apart, and counts as some settings.
LEMMA FileFacts ==
  /\ Missing # Damaged /\ Missing \in Files /\ Damaged \in Files
  /\ Unreadable # Damaged /\ Unreadable \in Readings /\ Files \subseteq Readings
  /\ \A f \in {Missing, Damaged, Unreadable} : Contents(f) = Defaults
  /\ \A f \in Readings : Contents(f) \in Settings
  /\ \A s \in Settings : /\ Object(s) \in Files /\ Object(s) # Damaged
                         /\ Contents(Object(s)) = s
<1>1. Missing.is = "missing" /\ Damaged.is = "damaged" /\ Unreadable.is = "unreadable"
  BY DEF Missing, Damaged, Unreadable
<1>2. /\ Missing # Damaged /\ Missing \in Files /\ Damaged \in Files
      /\ Unreadable # Damaged /\ Unreadable \in Readings /\ Files \subseteq Readings
  BY <1>1 DEF Files, Readings
<1>3. \A f \in {Missing, Damaged, Unreadable} : Contents(f) = Defaults
  BY <1>1 DEF Contents
<1>4. Defaults \in Settings
  BY DEF Defaults, DefaultPrefs, Settings, Prefs
<1>5. \A f \in Readings : Contents(f) \in Settings
  <2>1. \A f \in [is : {"object"}, settings : Settings] : Contents(f) \in Settings
    BY DEF Contents
  <2>2. QED
    BY <2>1, <1>3, <1>4 DEF Files, Readings
<1>6. ASSUME NEW s \in Settings
      PROVE  Object(s) \in Files /\ Object(s) # Damaged /\ Contents(Object(s)) = s
  <2>1. Object(s).is = "object" /\ Object(s).settings = s
    BY DEF Object
  <2>2. Object(s) \in [is : {"object"}, settings : Settings]
    BY DEF Object
  <2>3. QED
    BY <2>1, <2>2, <1>1 DEF Files, Contents
<1>7. QED
  BY <1>2, <1>3, <1>5, <1>6

\* An update writes settings, whatever it writes under its key.
LEMMA MutateFacts ==
  ASSUME NEW u \in Updates, NEW s \in Settings, NEW v \in Values(u)
  PROVE  Mutate(u, s, v) \in Settings /\ Mutate(u, s, v) \in Effects(u, s)
<1>1. Mutate(u, s, v) \in Settings
  BY DEF Mutate, Values, Settings
<1>2. QED
  BY <1>1 DEF Effects

----------------------------------------------------------------------------
\* The invariant, one lemma for each action that moves more than one task on.

LEMMA StoreInvInit == Init => StoreInv
<1> SUFFICES ASSUME Init PROVE StoreInv
  OBVIOUS
<1>1. file \in Files
  BY DEF Init
<1>2. phase \in [Tasks -> Phases] /\ \A t \in Tasks : phase[t] # "fetched"
  BY DEF Init, Phases
<1>3. seen \in [Tasks -> Readings] /\ \A t \in Tasks : seen[t] # Damaged
  BY FileFacts DEF Init
<1>4. /\ DOMAIN asked = Updates /\ asked = [u \in Updates |-> asked[u]]
      /\ \A u \in Updates : asked[u] \in Values(u)
  BY DEF Init, Values, DefaultPrefs, Prefs
<1>5. writeChain \in Seq(Updates)
  BY EmptySeqFacts DEF Init, Booted
<1>6. QED
  BY <1>1, <1>2, <1>3, <1>4, <1>5 DEF StoreInv, Typed, FetchInv, SeenInv, Tasks

\* Reading, whatever it returns: only the head of writeChain reads to update.
LEMMA ReadsKeeps ==
  ASSUME NEW t \in Tasks, NEW result \in Readings, StoreInv, Reads(t, result)
  PROVE  StoreInv'
<1>1. Typed'
  BY DEF StoreInv, Typed, Reads, Goto, storeVars, Phases
<1>2. SeenInv'
  BY DEF StoreInv, Typed, SeenInv, Reads, Goto
<1>3. FetchInv'
  BY DEF StoreInv, Typed, FetchInv, Reads, Goto, Tasks, storeVars
<1>4. QED
  BY <1>1, <1>2, <1>3 DEF StoreInv

\* Only a reader that found the file damaged sets it aside.
LEMMA SetAsideKeeps ==
  ASSUME NEW t \in Tasks, StoreInv, SetAside(t)
  PROVE  StoreInv'
<1>1. Typed'
  BY FileFacts DEF StoreInv, Typed, SetAside
<1>2. FetchInv' /\ SeenInv'
  BY FileFacts DEF StoreInv, Typed, FetchInv, SeenInv, SetAside
<1>3. QED
  BY <1>1, <1>2 DEF StoreInv

\* An update joins writeChain behind the one that may have read the file.
LEMMA ChainedKeeps ==
  ASSUME NEW u \in Updates, NEW v \in Values(u), StoreInv,
         phase[u] # "fetched", Goto(u, "chained"),
         asked' = [asked EXCEPT ![u] = v], writeChain' = Append(writeChain, u),
         UNCHANGED file,
         (seen' = seen /\ seen[u] # Damaged) \/ seen' = [seen EXCEPT ![u] = Missing]
  PROVE  StoreInv'
<1>1. writeChain' \in Seq(Updates)
  BY AppendFacts DEF StoreInv, Typed
<1>2. /\ DOMAIN asked' = Updates /\ asked' = [w \in Updates |-> asked'[w]]
      /\ \A w \in Updates : asked'[w] \in Values(w)
  BY DEF StoreInv, Typed, Values
<1>3. Typed'
  BY <1>1, <1>2, FileFacts DEF StoreInv, Typed, Goto, Phases, Values, Tasks
<1>4. SeenInv'
  BY FileFacts DEF StoreInv, Typed, SeenInv, Goto, Tasks
<1>5. FetchInv'
  <2> SUFFICES ASSUME NEW w \in Updates, phase'[w] = "fetched"
               PROVE  writeChain' # <<>> /\ Head(writeChain') = w
    BY DEF FetchInv
  <2>1. w # u /\ phase[w] = "fetched"
    BY DEF StoreInv, Typed, Goto, Tasks
  <2>2. writeChain # <<>> /\ Head(writeChain) = w
    BY <2>1 DEF StoreInv, FetchInv
  <2>3. writeChain' # <<>> /\ Head(writeChain') = w
    BY <2>2, AppendFacts, TailFacts, <1>1 DEF StoreInv, Typed
  <2>4. QED
    BY <2>3
<1>6. QED
  BY <1>3, <1>4, <1>5 DEF StoreInv

\* The head of writeChain is settled, and nobody else has read the file for it.
LEMMA SettledKeeps ==
  ASSUME NEW u \in Updates, StoreInv, phase[u] = "fetched",
         Goto(u, "written") \/ Goto(u, "failed"),
         writeChain' = Tail(writeChain), seen' = [seen EXCEPT ![u] = Missing],
         file' \in Files, UNCHANGED asked
  PROVE  StoreInv'
<1>1. writeChain # <<>> /\ Head(writeChain) = u
  BY DEF StoreInv, FetchInv
<1>2. writeChain' \in Seq(Updates)
  BY <1>1, TailFacts DEF StoreInv, Typed
<1>3. Typed'
  BY <1>2, FileFacts DEF StoreInv, Typed, Goto, Phases, Values, Tasks
<1>4. SeenInv'
  BY FileFacts DEF StoreInv, Typed, SeenInv, Goto, Tasks
<1>5. \A w \in Updates : phase'[w] # "fetched"
  <2> SUFFICES ASSUME NEW w \in Updates, phase'[w] = "fetched" PROVE FALSE
    OBVIOUS
  <2>1. w # u /\ phase[w] = "fetched"
    BY DEF StoreInv, Typed, Goto, Tasks
  <2>2. QED
    BY <1>1, <2>1 DEF StoreInv, FetchInv
<1>6. QED
  BY <1>3, <1>4, <1>5 DEF StoreInv, FetchInv

\* A task goes on without touching the file, writeChain or what it reads.
LEMMA MovedOnKeeps ==
  ASSUME NEW t \in Tasks, NEW p \in Phases \ {"fetched"}, StoreInv, Goto(t, p),
         UNCHANGED <<file, writeChain, asked>>,
         (seen' = seen /\ seen[t] # Damaged) \/ seen' = [seen EXCEPT ![t] = Missing]
  PROVE  StoreInv'
<1>1. Typed'
  BY FileFacts DEF StoreInv, Typed, Goto
<1>2. SeenInv'
  BY FileFacts DEF StoreInv, Typed, SeenInv, Goto
<1>3. ASSUME NEW u \in Updates, phase'[u] = "fetched"
      PROVE  phase[u] = "fetched"
  BY <1>3 DEF StoreInv, Typed, Goto, Tasks
<1>4. FetchInv'
  BY <1>3 DEF StoreInv, FetchInv
<1>5. QED
  BY <1>1, <1>2, <1>4 DEF StoreInv

\* A new start reads the file afresh, damaged or not.
LEMMA RestartKeeps ==
  ASSUME StoreInv, Restart
  PROVE  StoreInv'
<1>1. phase' \in [Tasks -> Phases] /\ \A u \in Updates : phase'[u] # "fetched"
  <2>1. \A t \in Tasks : phase[t] \in Phases
    BY DEF StoreInv, Typed
  <2>2. \A t \in Tasks : phase'[t] \in Phases \ {"fetched"}
    BY <2>1 DEF Restart, Phases
  <2>3. QED
    BY <2>2 DEF Restart, Tasks
<1>2. Typed'
  BY <1>1, FileFacts, EmptySeqFacts DEF StoreInv, Typed, Restart, Values
<1>3. SeenInv'
  BY FileFacts DEF SeenInv, Restart
<1>4. QED
  BY <1>1, <1>2, <1>3 DEF StoreInv, FetchInv

\* What a task that found a JSON object, or nothing, reads there is typed.
LEMMA SeenFacts ==
  ASSUME NEW t \in Tasks, StoreInv
  PROVE  Contents(seen[t]) \in Settings /\ Contents(seen[t]).notifications \in Prefs
<1>1. Contents(seen[t]) \in Settings
  BY FileFacts DEF StoreInv, Typed
<1>2. QED
  BY <1>1 DEF Settings

\* What a write leaves in the file.
LEMMA WriteFacts ==
  ASSUME NEW u \in Updates, StoreInv, WriteFile(u)
  PROVE  /\ file' \in Files /\ file' # Damaged
         /\ Contents(file') \in Effects(u, Contents(seen[u]))
<1> DEFINE new == Mutate(u, Contents(seen[u]), asked[u])
<1>1. Contents(seen[u]) \in Settings /\ asked[u] \in Values(u)
  BY SeenFacts DEF StoreInv, Typed, Tasks
<1>2. new \in Settings /\ new \in Effects(u, Contents(seen[u]))
  BY <1>1, MutateFacts
<1>3. file' = Object(new)
  BY DEF WriteFile
<1>4. Contents(file') = new /\ file' \in Files /\ file' # Damaged
  BY <1>2, <1>3, FileFacts
<1>5. QED
  BY <1>2, <1>4

LEMMA StoreInvStep == StoreInv /\ [Next]_vars => StoreInv'
<1> SUFFICES ASSUME StoreInv, [Next]_vars PROVE StoreInv'
  OBVIOUS
<1> USE DEF storeVars
<1>1. ASSUME NEW t \in Loaders, StartLoad(t) PROVE StoreInv'
  <2>1. t \in Tasks /\ "loading" \in Phases \ {"fetched"}
    BY DEF Tasks, Phases
  <2>2. QED
    BY <1>1, <2>1, MovedOnKeeps DEF StartLoad, StoreInv, SeenInv
<1>2. ASSUME NEW t \in Tasks, ReadFile(t) \/ ReadFails(t) \/ SetAside(t) PROVE StoreInv'
  <2>1. file \in Readings /\ Unreadable \in Readings
    BY FileFacts DEF StoreInv, Typed
  <2>2. QED
    BY <1>2, <2>1, ReadsKeeps, SetAsideKeeps DEF ReadFile, ReadFails
<1>3. ASSUME NEW u \in Updates, PutRequest(u) PROVE StoreInv'
  <2>1. PICK v \in Values(u) : asked' = [asked EXCEPT ![u] = v]
    BY <1>3 DEF PutRequest, Values
  <2>2. QED
    BY <1>3, <2>1, ChainedKeeps DEF PutRequest, StoreInv, SeenInv, Tasks
<1>4. ASSUME NEW u \in Updates, WriteFile(u) PROVE StoreInv'
  <2>1. file' \in Files /\ file' # Damaged
    BY <1>4, WriteFacts
  <2>2. QED
    BY <1>4, <2>1, SettledKeeps DEF WriteFile
<1>5. ASSUME NEW u \in Updates, WriteFails(u) PROVE StoreInv'
  BY <1>5, SettledKeeps DEF WriteFails, StoreInv, Typed
<1>6. ASSUME NEW u \in Updates, Saved(u) PROVE StoreInv'
  <2>1. u \in Tasks /\ "done" \in Phases \ {"fetched"}
    BY DEF Tasks, Phases
  <2>2. QED
    BY <1>6, <2>1, MovedOnKeeps DEF Saved, StoreInv, SeenInv
<1>7. ASSUME NEW t \in Gets, Get(t) PROVE StoreInv'
  <2>1. t \in Tasks /\ "idle" \in Phases \ {"fetched"}
    BY DEF Tasks, Loaders, Phases
  <2>2. QED
    BY <1>7, <2>1, MovedOnKeeps DEF Get, LoadPrefs
<1>8. ASSUME NEW t \in Toggles, TogglePaused(t) PROVE StoreInv'
  <2>1. t \in Updates /\ t \in Tasks /\ Values(t) = Prefs
    BY DEF Updates, Tasks, Values
  <2>2. cachedPrefs' \in Prefs
    BY <1>8, <2>1, SeenFacts DEF TogglePaused, LoadPrefs
  <2>3. [cachedPrefs' EXCEPT !.enabled = ~@] \in Prefs
    BY <2>2 DEF Prefs
  <2>4. QED
    BY <1>8, <2>1, <2>3, ChainedKeeps DEF TogglePaused, LoadPrefs
<1>9. ASSUME NEW n \in Notices, Notify(n) PROVE StoreInv'
  <2>1. n \in Tasks /\ "done" \in Phases \ {"fetched"}
    BY DEF Tasks, Loaders, Phases
  <2>2. QED
    BY <1>9, <2>1, MovedOnKeeps DEF Notify, LoadPrefs
<1>10. CASE BatchTimerFires \/ UNCHANGED vars
  BY <1>10 DEF BatchTimerFires, vars, StoreInv, Typed, FetchInv, SeenInv
<1>11. CASE Restart
  BY <1>11, RestartKeeps
<1>12. QED
  BY <1>1, <1>2, <1>3, <1>4, <1>5, <1>6, <1>7, <1>8, <1>9, <1>10, <1>11 DEF Next

\* StoreInv holds in every reachable state.
THEOREM StoreInvariant == Spec => []StoreInv
  BY StoreInvInit, StoreInvStep, PTL DEF Spec
----------------------------------------------------------------------------
\* Who waits in writeChain, and whom a failed write rejects.

Unsettled == {"chained", "fetched"}

ChainInv ==
  IsInjective(writeChain) /\ ToSet(writeChain) = {u \in Updates : phase[u] \in Unsettled}

Failed == {u \in Updates : phase[u] = "failed"}
FailedInv == IsFiniteSet(Failed) /\ Cardinality(Failed) = failures

TrayInv ==
  /\ cachedPrefs \in Prefs /\ menu \in BOOLEAN
  /\ batchQueue \in Seq(Notices) /\ batchTimer \in BOOLEAN
  /\ failures \in 0..MaxFailures /\ restarts \in 0..MaxRestarts

QueueInv == ChainInv /\ FailedInv /\ TrayInv

\* An update joins the chain.
LEMMA JoinsChain ==
  ASSUME NEW u \in Updates, StoreInv, ChainInv, phase[u] \notin Unsettled \cup {"failed"},
         Goto(u, "chained"), writeChain' = Append(writeChain, u)
  PROVE  ChainInv' /\ Failed' = Failed
<1>1. phase'[u] = "chained" /\ \A w \in Updates \ {u} : phase'[w] = phase[w]
  BY DEF StoreInv, Typed, Goto, Tasks
<1>2. u \notin ToSet(writeChain) /\ writeChain \in Seq(Updates) /\ IsInjective(writeChain)
  BY DEF ChainInv, StoreInv, Typed
<1>3. IsInjective(writeChain') /\ ToSet(writeChain') = ToSet(writeChain) \cup {u}
  BY <1>2, JoinFacts
<1>4. QED
  BY <1>1, <1>3 DEF ChainInv, Unsettled, Failed

\* The head of the chain is settled.
LEMMA LeavesChain ==
  ASSUME NEW u \in Updates, NEW p \in {"written", "failed"}, StoreInv, ChainInv,
         phase[u] = "fetched", Goto(u, p), writeChain' = Tail(writeChain)
  PROVE  ChainInv' /\ Failed' = IF p = "failed" THEN Failed \cup {u} ELSE Failed
<1>1. phase'[u] = p /\ \A w \in Updates \ {u} : phase'[w] = phase[w]
  BY DEF StoreInv, Typed, Goto, Tasks
<1>2. /\ writeChain # <<>> /\ Head(writeChain) = u
      /\ writeChain \in Seq(Updates) /\ IsInjective(writeChain)
  BY DEF ChainInv, StoreInv, Typed, FetchInv
<1>3. IsInjective(writeChain') /\ ToSet(writeChain') = ToSet(writeChain) \ {u}
  BY <1>2, LeaveFacts
<1>4. QED
  BY <1>1, <1>3 DEF ChainInv, Unsettled, Failed

\* A task goes on that neither joins the chain nor leaves it.
LEMMA StaysInChain ==
  ASSUME NEW t \in Tasks, NEW p \in Phases \ {"failed"}, StoreInv, ChainInv,
         phase[t] # "failed", Goto(t, p), writeChain' = writeChain,
         p \in Unsettled <=> phase[t] \in Unsettled
  PROVE  ChainInv' /\ Failed' = Failed
<1>1. phase'[t] = p /\ \A w \in Tasks \ {t} : phase'[w] = phase[w]
  BY DEF StoreInv, Typed, Goto
<1>2. \A u \in Updates : /\ phase'[u] \in Unsettled <=> phase[u] \in Unsettled
                         /\ phase'[u] = "failed" <=> phase[u] = "failed"
  <2> TAKE u \in Updates
  <2>1. u \in Tasks
    BY DEF Tasks
  <2>2. CASE u = t
    BY <1>1, <2>2
  <2>3. CASE u # t
    BY <1>1, <2>1, <2>3
  <2>4. QED
    BY <2>2, <2>3
<1>3. Failed' = Failed
  BY <1>2 DEF Failed
<1>4. {u \in Updates : phase'[u] \in Unsettled} = {u \in Updates : phase[u] \in Unsettled}
  BY <1>2
<1>5. ChainInv'
  BY <1>4 DEF ChainInv
<1>6. QED
  BY <1>3, <1>5

LEMMA QueueInvInit == Init => QueueInv
<1> SUFFICES ASSUME Init PROVE QueueInv
  OBVIOUS
<1>1. \A u \in Updates : phase[u] = "idle"
  BY DEF Init, Tasks
<1>2. ChainInv
  BY <1>1, EmptyQueueFacts DEF Init, Booted, ChainInv, Unsettled
<1>3. FailedInv
  BY <1>1, FS_EmptySet DEF Init, FailedInv, Failed
<1>4. TrayInv
  <2>1. batchQueue \in Seq(Notices) /\ batchTimer \in BOOLEAN
    BY EmptySeqFacts DEF Init, Booted
  <2>2. cachedPrefs \in Prefs /\ menu \in BOOLEAN
    BY DEF Init, Booted, DefaultPrefs, Prefs
  <2>3. failures \in 0..MaxFailures /\ restarts \in 0..MaxRestarts
    BY SettingsAssumption DEF Init
  <2>4. QED
    BY <2>1, <2>2, <2>3 DEF TrayInv
<1>5. QED
  BY <1>2, <1>3, <1>4 DEF QueueInv

\* Quitting empties the chain and settles nothing as failed.
LEMMA RestartClears ==
  ASSUME StoreInv, QueueInv, Restart
  PROVE  QueueInv'
<1>1. ASSUME NEW u \in Updates
      PROVE  phase'[u] \notin Unsettled /\ (phase'[u] = "failed" <=> phase[u] = "failed")
  <2>1. phase[u] \in Phases /\ u \notin Gets /\ u \notin Notices /\ u \in Tasks
    BY DEF StoreInv, Typed, Tasks
  <2>2. phase'[u] = CASE phase[u] = "written" -> "done"
                      [] phase[u] \in {"loading", "loaded", "chained", "fetched"} -> "lost"
                      [] OTHER -> phase[u]
    BY <2>1 DEF Restart
  <2>3. QED
    BY <2>1, <2>2 DEF Phases, Unsettled
<1>2. ChainInv'
  <2>1. writeChain' = <<>> /\ {u \in Updates : phase'[u] \in Unsettled} = {}
    BY <1>1 DEF Restart
  <2>2. QED
    BY <2>1, EmptyQueueFacts DEF ChainInv
<1>3. FailedInv'
  <2>1. Failed' = Failed
    BY <1>1 DEF Failed
  <2>2. failures' = failures
    BY DEF Restart
  <2>3. QED
    BY <2>1, <2>2 DEF QueueInv, FailedInv
<1>4. TrayInv'
  <2>1. batchQueue' \in Seq(Notices) /\ batchTimer' \in BOOLEAN
    BY EmptySeqFacts DEF Restart
  <2>2. cachedPrefs' \in Prefs /\ menu' \in BOOLEAN
    BY DEF Restart, DefaultPrefs, Prefs
  <2>3. failures' \in 0..MaxFailures /\ restarts' \in 0..MaxRestarts
    BY SettingsAssumption DEF Restart, QueueInv, TrayInv
  <2>4. QED
    BY <2>1, <2>2, <2>3 DEF TrayInv
<1>5. QED
  BY <1>2, <1>3, <1>4 DEF QueueInv

LEMMA QueueInvStep == StoreInv /\ QueueInv /\ [Next]_vars => QueueInv'
<1> SUFFICES ASSUME StoreInv, QueueInv, [Next]_vars PROVE QueueInv'
  OBVIOUS
<1> USE DEF storeVars, trayVars, noticeVars
<1>1. ChainInv /\ FailedInv /\ TrayInv
  BY DEF QueueInv
<1>2. ASSUME NEW t \in Loaders, StartLoad(t) PROVE QueueInv'
  <2>1. ChainInv' /\ Failed' = Failed
    BY <1>1, <1>2, StaysInChain DEF StartLoad, Tasks, Phases, Unsettled
  <2>2. QED
    BY <1>1, <1>2, <2>1 DEF StartLoad, QueueInv, FailedInv, TrayInv
<1>3. ASSUME NEW t \in Tasks, ReadFile(t) \/ ReadFails(t) PROVE QueueInv'
  <2>1. PICK result : Reads(t, result)
    BY <1>3 DEF ReadFile, ReadFails
  <2>2. CASE phase[t] = "loading" /\ Goto(t, "loaded")
    BY <1>1, <2>1, <2>2, StaysInChain
       DEF Reads, Phases, Unsettled, QueueInv, FailedInv, TrayInv
  <2>3. CASE phase[t] = "chained" /\ Goto(t, "fetched")
    BY <1>1, <2>1, <2>3, StaysInChain
       DEF Reads, Phases, Unsettled, QueueInv, FailedInv, TrayInv
  <2>4. QED
    BY <2>1, <2>2, <2>3 DEF Reads
<1>4. ASSUME NEW t \in Tasks, SetAside(t) PROVE QueueInv'
  BY <1>1, <1>4 DEF SetAside, QueueInv, ChainInv, FailedInv, Failed, TrayInv
<1>5. ASSUME NEW u \in Updates, PutRequest(u) PROVE QueueInv'
  <2>1. ChainInv' /\ Failed' = Failed
    BY <1>1, <1>5, JoinsChain DEF PutRequest, Unsettled
  <2>2. QED
    BY <1>1, <1>5, <2>1 DEF PutRequest, QueueInv, FailedInv, TrayInv
<1>6. ASSUME NEW u \in Updates, WriteFile(u) PROVE QueueInv'
  <2>1. ChainInv' /\ Failed' = Failed
    BY <1>1, <1>6, LeavesChain DEF WriteFile
  <2>2. QED
    BY <1>1, <1>6, <2>1 DEF WriteFile, QueueInv, FailedInv, TrayInv
<1>7. ASSUME NEW u \in Updates, WriteFails(u) PROVE QueueInv'
  <2>1. ChainInv' /\ Failed' = Failed \cup {u}
    BY <1>1, <1>7, LeavesChain DEF WriteFails
  <2>2. u \notin Failed /\ failures' = failures + 1 /\ failures' \in 0..MaxFailures
    BY <1>1, <1>7 DEF WriteFails, Failed, TrayInv
  <2>3. FailedInv'
    BY <1>1, <2>1, <2>2, FS_AddElement DEF FailedInv
  <2>4. QED
    BY <1>1, <1>7, <2>1, <2>2, <2>3 DEF WriteFails, QueueInv, TrayInv
<1>8. ASSUME NEW u \in Updates, Saved(u) PROVE QueueInv'
  <2>1. ChainInv' /\ Failed' = Failed
    BY <1>1, <1>8, StaysInChain DEF Saved, Tasks, Phases, Unsettled
  <2>2. cachedPrefs' \in Prefs
    BY <1>1, <1>8 DEF Saved, StoreInv, Typed, Values, TrayInv
  <2>3. menu' \in BOOLEAN
    BY <1>1, <1>8 DEF Saved, TrayInv
  <2>4. QED
    BY <1>1, <1>8, <2>1, <2>2, <2>3 DEF Saved, QueueInv, FailedInv, TrayInv
<1>9. ASSUME NEW t \in Gets, Get(t) PROVE QueueInv'
  <2>1. ChainInv' /\ Failed' = Failed
    BY <1>1, <1>9, StaysInChain DEF Get, LoadPrefs, Tasks, Loaders, Phases, Unsettled
  <2>2. cachedPrefs' \in Prefs
    BY <1>9, SeenFacts DEF Get, LoadPrefs, Tasks, Loaders
  <2>3. QED
    BY <1>1, <1>9, <2>1, <2>2 DEF Get, LoadPrefs, QueueInv, FailedInv, TrayInv
<1>10. ASSUME NEW t \in Toggles, TogglePaused(t) PROVE QueueInv'
  <2>1. t \in Updates /\ t \in Tasks
    BY DEF Updates, Tasks
  <2>2. ChainInv' /\ Failed' = Failed
    BY <1>1, <1>10, <2>1, JoinsChain DEF TogglePaused, LoadPrefs, Unsettled
  <2>3. cachedPrefs' \in Prefs
    BY <1>10, <2>1, SeenFacts DEF TogglePaused, LoadPrefs
  <2>4. QED
    BY <1>1, <1>10, <2>2, <2>3 DEF TogglePaused, LoadPrefs, QueueInv, FailedInv, TrayInv
<1>11. ASSUME NEW n \in Notices, Notify(n) PROVE QueueInv'
  <2>1. ChainInv' /\ Failed' = Failed
    BY <1>1, <1>11, StaysInChain DEF Notify, LoadPrefs, Tasks, Loaders, Phases, Unsettled
  <2>2. cachedPrefs' \in Prefs
    BY <1>11, SeenFacts DEF Notify, LoadPrefs, Tasks, Loaders
  <2>3. batchQueue' \in Seq(Notices) /\ batchTimer' \in BOOLEAN
    <3>1. CASE UNCHANGED noticeVars
      BY <1>1, <3>1 DEF TrayInv
    <3>2. CASE batchQueue' = Append(batchQueue, n) /\ batchTimer' = TRUE
      BY <1>1, <3>2, AppendFacts DEF TrayInv
    <3>3. QED
      BY <1>11, <3>1, <3>2 DEF Notify
  <2>4. QED
    BY <1>1, <1>11, <2>1, <2>2, <2>3 DEF Notify, QueueInv, FailedInv, TrayInv
<1>12. CASE BatchTimerFires
  BY <1>1, <1>12, EmptySeqFacts
     DEF BatchTimerFires, QueueInv, ChainInv, FailedInv, Failed, TrayInv
<1>13. CASE Restart
  BY <1>13, RestartClears
<1>14. CASE UNCHANGED vars
  BY <1>1, <1>14 DEF vars, QueueInv, ChainInv, FailedInv, Failed, TrayInv
<1>15. QED
  BY <1>2, <1>3, <1>4, <1>5, <1>6, <1>7, <1>8, <1>9, <1>10, <1>11, <1>12, <1>13, <1>14 DEF Next

LEMMA QueueInvariance == Spec => []QueueInv
<1>1. StoreInv /\ QueueInv /\ [Next]_vars => QueueInv'
  BY QueueInvStep
<1>2. QED
  BY <1>1, QueueInvInit, StoreInvariant, PTL DEF Spec

\* Every reachable state of the settings is well typed, writeChain holds exactly
\* the updates that are not settled, and only its head is past its read.
THEOREM SettingsTyped == Spec => []TypeOK
<1>1. StoreInv /\ QueueInv => TypeOK
  <2> SUFFICES ASSUME StoreInv, QueueInv PROVE TypeOK
    OBVIOUS
  <2>1. ToSet(writeChain) = {u \in Updates : phase[u] \in {"chained", "fetched"}}
    BY DEF QueueInv, ChainInv, Unsettled
  <2>2. QED
    BY <2>1 DEF StoreInv, Typed, FetchInv, QueueInv, ChainInv, TrayInv, TypeOK
<1>2. QED
  BY <1>1, StoreInvariant, QueueInvariance, PTL

\* "The chain survives a rejected write so later writes still run"
\* (settings-store.ts:67-68): as many updates are rejected as writes failed.
THEOREM OneRejectionEach == Spec => []OneFailureOneRejection
<1>1. QueueInv => OneFailureOneRejection
  BY DEF QueueInv, FailedInv, Failed, OneFailureOneRejection
<1>2. QED
  BY <1>1, QueueInvariance, PTL
----------------------------------------------------------------------------
\* Refinement: the instant an update takes effect is WriteFile.

Outcomes == [u \in Updates |-> Outcome(phase[u])]

\* Which phases an update is still unsettled in.
LEMMA OutcomeFacts ==
  /\ \A p \in {"idle", "loading", "loaded", "chained", "fetched"} : Outcome(p) = "none"
  /\ \A p \in {"written", "done"} : Outcome(p) = "stored"
  /\ \A p \in {"failed", "lost"} : Outcome(p) = "rejected"
  BY DEF Outcome

\* What an update that has read the file writes on top of.
LEMMA BasisFacts ==
  ASSUME NEW u \in Updates, StoreInv
  PROVE  /\ Basis(u) \in Settings \cup {Store!Current}
         /\ phase[u] # "fetched" => Basis(u) = Store!Current
         /\ phase[u] = "fetched" => Store!TakenFor(u) = Contents(seen[u])
<1>1. Store!Current \notin Settings
  <2>1. DOMAIN Store!Current = {"is"} /\ \A s \in Settings : DOMAIN s = {"app", "notifications"}
    BY DEF Store!Current, Settings
  <2>2. QED
    BY <2>1
<1>2. Contents(seen[u]) \in Settings
  BY SeenFacts DEF Tasks
<1>3. Basis(u) = IF phase[u] = "fetched" /\ Contents(seen[u]) # Contents(file)
                 THEN Contents(seen[u]) ELSE Store!Current
  BY DEF Basis, Store!Current
<1>4. Store!TakenFor(u) = IF Basis(u) = Store!Current THEN Contents(file) ELSE Basis(u)
  BY DEF Store!TakenFor
<1>5. QED
  BY <1>1, <1>2, <1>3, <1>4

Bases == [u \in Updates |-> Basis(u)]

\* A step that moves one task on, or none, and settles nothing, stutters.
LEMMA UnsettledStutters ==
  ASSUME NEW t \in Tasks, NEW p \in Phases \ {"fetched"}, StoreInv, Goto(t, p),
         t \in Updates => phase[t] # "fetched" /\ Outcome(p) = Outcome(phase[t]),
         UNCHANGED file,
         seen' = seen \/ /\ seen[t] # Damaged
                         /\ seen'[t] # Damaged \/ seen'[t] = file
                         /\ \A w \in Tasks \ {t} : seen'[w] = seen[w]
  PROVE  UNCHANGED Store!svars
<1>1. \A u \in Updates : Outcome(phase'[u]) = Outcome(phase[u])
  BY DEF StoreInv, Typed, Goto, Tasks
<1>2. Outcomes' = Outcomes
  BY <1>1 DEF Outcomes
<1>3. ASSUME NEW u \in Updates PROVE Basis(u)' = Basis(u)
  <2>1. /\ phase'[u] = "fetched" <=> phase[u] = "fetched"
        /\ phase[u] = "fetched" => seen'[u] = seen[u]
    BY DEF StoreInv, Typed, Goto, Tasks
  <2>2. QED
    BY <2>1 DEF Basis, Contents
<1>4. FoundDamaged' = FoundDamaged
  BY DEF FoundDamaged
<1>5. QED
  BY <1>2, <1>3, <1>4 DEF Outcomes, Store!svars, Contents

\* A read that fails where the file says more than the defaults is a misreading,
\* any other read is a stutter.
LEMMA ReadsMisreads ==
  ASSUME NEW t \in Tasks, NEW result \in {file, Unreadable}, StoreInv, Reads(t, result)
  PROVE  Store!Next \/ UNCHANGED Store!svars
<1>1. seen[t] # Damaged
  BY DEF StoreInv, SeenInv, Reads
<1>2. /\ file' = file /\ seen'[t] = result
      /\ \A w \in Tasks \ {t} : seen'[w] = seen[w] /\ phase'[w] = phase[w]
  BY DEF StoreInv, Typed, Reads, Goto, storeVars
<1>3. FoundDamaged' = FoundDamaged
  BY <1>1, <1>2, FileFacts DEF FoundDamaged
<1>4. CASE phase[t] = "loading" /\ Goto(t, "loaded")
  BY <1>1, <1>2, <1>4, FileFacts, UnsettledStutters, OutcomeFacts DEF Phases
<1>5. CASE t \in Updates /\ phase[t] = "chained" /\ Goto(t, "fetched")
  <2>1. phase'[t] = "fetched"
    BY <1>5 DEF StoreInv, Typed, Goto
  <2>2. \A u \in Updates : Outcome(phase'[u]) = Outcome(phase[u])
    BY <1>2, <1>5, <2>1, OutcomeFacts DEF Tasks
  <2>3. \A u \in Updates \ {t} : Basis(u)' = Basis(u)
    BY <1>2 DEF Basis, Contents, Tasks
  <2>4. Basis(t) = Store!Current
    BY <1>5, BasisFacts
  <2>5. CASE Contents(result) = Contents(file)
    <3>1. Basis(t)' = Store!Current
      BY <1>2, <2>1, <2>5 DEF Basis, Contents, Store!Current
    <3>2. \A u \in Updates : Basis(u)' = Basis(u)
      BY <2>3, <2>4, <3>1
    <3>3. QED
      BY <1>2, <1>3, <2>2, <3>2 DEF Store!svars, Contents
  <2>6. CASE Contents(result) # Contents(file)
    <3>1. Contents(result) = Defaults
      BY <2>6, FileFacts
    <3>2. Basis(t)' = Defaults
      BY <1>2, <2>1, <2>6, <3>1 DEF Basis, Contents
    <3>3. Bases' = [Bases EXCEPT ![t] = Defaults]
      BY <1>5, <2>3, <3>2 DEF Bases
    <3>4. Outcomes[t] = "none" /\ Outcomes' = Outcomes
      BY <1>5, <2>2, OutcomeFacts DEF Outcomes
    <3>5. Store!Misread(t)
      BY <1>2, <1>3, <3>3, <3>4 DEF Store!Misread, Bases, Outcomes, Contents
    <3>6. QED
      BY <1>5, <3>5 DEF Store!Next
  <2>7. QED
    BY <2>5, <2>6
<1>6. writeChain # <<>> => Head(writeChain) \in Updates
  BY TailFacts DEF StoreInv, Typed
<1>7. QED
  BY <1>4, <1>5, <1>6 DEF Reads

\* Once the head of writeChain is settled, nobody has read the file to update it.
LEMMA SettledBases ==
  ASSUME NEW u \in Updates, NEW p \in {"written", "failed"}, StoreInv,
         phase[u] = "fetched", Goto(u, p), seen[u] # Damaged,
         seen' = [seen EXCEPT ![u] = Missing]
  PROVE  /\ Bases' = [w \in Updates |-> Store!Current]
         /\ Bases = [[w \in Updates |-> Store!Current] EXCEPT ![u] = Basis(u)]
         /\ FoundDamaged <=> file = Damaged \/ \E t \in Tasks \ {u} : seen[t] = Damaged
         /\ FoundDamaged' <=> file' = Damaged \/ \E t \in Tasks \ {u} : seen[t] = Damaged
<1>1. \A w \in Updates \ {u} : phase[w] # "fetched"
  BY DEF StoreInv, FetchInv
<1>2. \A w \in Updates : phase'[w] # "fetched"
  BY <1>1 DEF StoreInv, Typed, Goto, Tasks
<1>3. \A w \in Updates : Basis(w)' = Store!Current
  BY <1>2 DEF Basis, Store!Current
<1>4. \A w \in Updates \ {u} : Basis(w) = Store!Current
  BY <1>1 DEF Basis, Store!Current
<1>5. FoundDamaged <=> file = Damaged \/ \E t \in Tasks \ {u} : seen[t] = Damaged
  BY DEF FoundDamaged, Tasks
<1>6. FoundDamaged' <=> file' = Damaged \/ \E t \in Tasks \ {u} : seen[t] = Damaged
  BY FileFacts DEF FoundDamaged, Tasks, StoreInv, Typed
<1>7. QED
  BY <1>3, <1>4, <1>5, <1>6 DEF Bases

LEMMA WriteFileCommits ==
  ASSUME NEW u \in Updates, StoreInv, WriteFile(u)
  PROVE  Store!Next
<1>1. Contents(file') \in Effects(u, Store!TakenFor(u))
  BY WriteFacts, BasisFacts DEF WriteFile
<1>2. Outcomes[u] = "none" /\ Outcomes' = [Outcomes EXCEPT ![u] = "stored"]
  <2>1. \A w \in Updates : Outcome(phase'[w]) =
          IF w = u THEN "stored" ELSE Outcome(phase[w])
    BY OutcomeFacts DEF StoreInv, Typed, WriteFile, Goto, Tasks
  <2>2. Outcome(phase[u]) = "none"
    BY OutcomeFacts DEF WriteFile
  <2>3. QED
    BY <2>1, <2>2 DEF Outcomes
<1>3. /\ Bases' = [w \in Updates |-> Store!Current]
      /\ Bases = [[w \in Updates |-> Store!Current] EXCEPT ![u] = Basis(u)]
      /\ FoundDamaged <=> file = Damaged \/ \E t \in Tasks \ {u} : seen[t] = Damaged
      /\ FoundDamaged' <=> file' = Damaged \/ \E t \in Tasks \ {u} : seen[t] = Damaged
  BY SettledBases DEF WriteFile
<1>4. Bases' = [Bases EXCEPT ![u] = Store!Current]
  BY <1>3
<1>5. FoundDamaged' \in {FoundDamaged, FALSE}
  BY <1>3, WriteFacts DEF FoundDamaged
<1>6. Store!Commit(u)
  BY <1>1, <1>2, <1>4, <1>5 DEF Store!Commit, Outcomes, Bases, Contents
<1>7. QED
  BY <1>6 DEF Store!Next

LEMMA WriteFailsRejects ==
  ASSUME NEW u \in Updates, StoreInv, WriteFails(u)
  PROVE  Store!Next
<1>1. /\ \A w \in {u} : Outcomes[w] = "none"
      /\ Outcomes' = [w \in Updates |-> IF w \in {u} THEN "rejected" ELSE Outcomes[w]]
  <2>1. \A w \in Updates : Outcome(phase'[w]) =
          IF w = u THEN "rejected" ELSE Outcome(phase[w])
    BY OutcomeFacts DEF StoreInv, Typed, WriteFails, Goto, Tasks
  <2>2. Outcome(phase[u]) = "none"
    BY OutcomeFacts DEF WriteFails
  <2>3. QED
    BY <2>1, <2>2 DEF Outcomes
<1>2. file' = file
  BY DEF WriteFails
<1>3. /\ Bases' = [w \in Updates |-> Store!Current]
      /\ Bases = [[w \in Updates |-> Store!Current] EXCEPT ![u] = Basis(u)]
      /\ FoundDamaged <=> file = Damaged \/ \E t \in Tasks \ {u} : seen[t] = Damaged
      /\ FoundDamaged' <=> file' = Damaged \/ \E t \in Tasks \ {u} : seen[t] = Damaged
  BY SettledBases DEF WriteFails
<1>4. Bases' = [w \in Updates |-> IF w \in {u} THEN Store!Current ELSE Bases[w]]
  BY <1>3
<1>5. FoundDamaged' \in {FoundDamaged, FALSE}
  BY <1>2, <1>3 DEF FoundDamaged
<1>6. Store!Reject({u})
  BY <1>1, <1>2, <1>4, <1>5 DEF Store!Reject, Outcomes, Bases, Contents
<1>7. QED
  BY <1>6 DEF Store!Next

\* Quitting rejects every update that was in flight.
LEMMA RestartRejects ==
  ASSUME StoreInv, Restart
  PROVE  Store!Next
<1> DEFINE InFlight ==
      {u \in Updates : phase[u] \in {"loading", "loaded", "chained", "fetched"}}
<1>1. ASSUME NEW u \in Updates
      PROVE  /\ Outcome(phase'[u]) = IF u \in InFlight THEN "rejected" ELSE Outcome(phase[u])
             /\ phase'[u] # "fetched" /\ (u \notin InFlight => phase[u] # "fetched")
  <2>1. phase[u] \in Phases /\ u \notin Gets /\ u \notin Notices /\ u \in Tasks
    BY DEF StoreInv, Typed, Tasks
  <2>2. phase'[u] = CASE phase[u] = "written" -> "done"
                      [] u \in InFlight -> "lost"
                      [] OTHER -> phase[u]
    BY <2>1 DEF Restart
  <2>3. CASE u \in InFlight
    BY <2>2, <2>3, OutcomeFacts
  <2>4. CASE phase[u] = "written"
    BY <2>2, <2>4, OutcomeFacts
  <2>5. CASE u \notin InFlight /\ phase[u] # "written"
    BY <2>2, <2>5
  <2>6. QED
    BY <2>3, <2>4, <2>5
<1>2. \A u \in InFlight : Outcomes[u] = "none"
  BY OutcomeFacts DEF Outcomes
<1>3. Outcomes' = [u \in Updates |-> IF u \in InFlight THEN "rejected" ELSE Outcomes[u]]
  BY <1>1 DEF Outcomes
<1>4. Bases' = [u \in Updates |-> IF u \in InFlight THEN Store!Current ELSE Bases[u]]
  BY <1>1 DEF Bases, Basis, Store!Current
<1>5. file' = file
  BY DEF Restart
<1>6. FoundDamaged' \in {FoundDamaged, FALSE}
  BY <1>5, FileFacts DEF FoundDamaged, Restart
<1>7. InFlight \in SUBSET Updates
  OBVIOUS
<1> HIDE DEF InFlight
<1>8. Store!Reject(InFlight)
  BY <1>2, <1>3, <1>4, <1>5, <1>6 DEF Store!Reject, Outcomes, Bases, Contents
<1>9. QED
  BY <1>7, <1>8 DEF Store!Next

\* Whoever has read the file still writes on top of what it read.
LEMMA SetAsideGivesUp ==
  ASSUME NEW t \in Tasks, StoreInv, SetAside(t)
  PROVE  Store!Next
<1>1. FoundDamaged /\ FoundDamaged' \in BOOLEAN
  BY DEF FoundDamaged, SetAside
<1>2. Contents(file') \in {Contents(file), Defaults}
  BY FileFacts DEF SetAside
<1>3. Outcomes' = Outcomes
  BY DEF SetAside, Outcomes
<1>4. StoreInv'
  BY SetAsideKeeps
<1>5. ASSUME NEW u \in Updates
      PROVE  /\ Bases'[u] \in Settings \cup {Store!Current}
             /\ Bases'[u] \in {Store!Current, Store!TakenFor(u)}
  <2>1. Contents(seen'[u]) = Contents(seen[u]) /\ phase'[u] = phase[u]
    BY FileFacts DEF SetAside, StoreInv, Typed, Tasks, Contents
  <2>2. Basis(u)' = IF phase'[u] = "fetched" /\ Contents(seen'[u]) # Contents(file')
                    THEN Contents(seen'[u]) ELSE Store!Current
    BY DEF Basis, Contents, Store!Current
  <2>3. Contents(seen[u]) \in Settings
    BY SeenFacts DEF Tasks
  <2>4. phase[u] = "fetched" => Store!TakenFor(u) = Contents(seen[u])
    BY BasisFacts
  <2>5. QED
    BY <2>1, <2>2, <2>3, <2>4 DEF Bases
<1>6. Bases' \in [Updates -> Settings \cup {Store!Current}]
  BY <1>5 DEF Bases
<1>7. Store!GiveUp
  BY <1>1, <1>2, <1>3, <1>5, <1>6 DEF Store!GiveUp, Outcomes, Bases, Contents
<1>8. QED
  BY <1>7 DEF Store!Next

LEMMA StoreStep == StoreInv /\ [Next]_vars => [Store!Next]_(Store!svars)
<1> SUFFICES ASSUME StoreInv, [Next]_vars PROVE Store!Next \/ UNCHANGED Store!svars
  OBVIOUS
<1> USE DEF storeVars
<1>1. ASSUME NEW t \in Loaders, StartLoad(t) PROVE UNCHANGED Store!svars
  BY <1>1, UnsettledStutters, OutcomeFacts DEF StartLoad, Tasks, Phases
<1>2. ASSUME NEW t \in Tasks, ReadFile(t) \/ ReadFails(t)
      PROVE  Store!Next \/ UNCHANGED Store!svars
  BY <1>2, ReadsMisreads DEF ReadFile, ReadFails
<1>3. ASSUME NEW t \in Tasks, SetAside(t) PROVE Store!Next
  BY <1>3, SetAsideGivesUp
<1>4. ASSUME NEW u \in Updates, PutRequest(u) PROVE UNCHANGED Store!svars
  BY <1>4, UnsettledStutters, OutcomeFacts DEF PutRequest, Tasks, Phases
<1>5. ASSUME NEW u \in Updates, WriteFile(u) \/ WriteFails(u) PROVE Store!Next
  BY <1>5, WriteFileCommits, WriteFailsRejects
<1>6. ASSUME NEW u \in Updates, Saved(u) PROVE UNCHANGED Store!svars
  BY <1>6, UnsettledStutters, OutcomeFacts DEF Saved, Tasks, Phases
<1> DEFINE Loaded(t) == /\ seen[t] # Damaged /\ seen'[t] # Damaged
                        /\ \A w \in Tasks \ {t} : seen'[w] = seen[w]
<1>7. ASSUME NEW t \in Tasks, LoadPrefs(t) PROVE Loaded(t)
  BY <1>7, FileFacts DEF LoadPrefs, StoreInv, Typed
<1>8. ASSUME NEW t \in Gets, Get(t) PROVE UNCHANGED Store!svars
  <2>1. t \in Tasks /\ t \notin Updates
    BY DEF Tasks, Loaders
  <2>2. QED
    BY <1>8, <2>1, <1>7, UnsettledStutters DEF Get, Phases
<1>9. ASSUME NEW t \in Toggles, TogglePaused(t) PROVE UNCHANGED Store!svars
  <2>1. t \in Tasks /\ phase[t] = "loaded"
    BY <1>9 DEF Tasks, Loaders, TogglePaused, LoadPrefs
  <2>2. Outcome("chained") = Outcome(phase[t])
    BY <2>1, OutcomeFacts
  <2>3. QED
    BY <1>9, <2>1, <2>2, <1>7, UnsettledStutters DEF TogglePaused, Phases
<1>10. ASSUME NEW n \in Notices, Notify(n) PROVE UNCHANGED Store!svars
  <2>1. n \in Tasks /\ n \notin Updates
    BY DEF Tasks, Loaders
  <2>2. QED
    BY <1>10, <2>1, <1>7, UnsettledStutters DEF Notify, Phases
<1>11. CASE BatchTimerFires \/ UNCHANGED vars
  BY <1>11 DEF BatchTimerFires, vars, Store!svars, Contents, FoundDamaged, Basis
<1>12. CASE Restart
  BY <1>12, RestartRejects
<1>13. QED
  BY <1>1, <1>2, <1>3, <1>4, <1>5, <1>6, <1>8, <1>9, <1>10, <1>11, <1>12 DEF Next

LEMMA StoreInit == Init => Store!Init
<1> SUFFICES ASSUME Init PROVE Store!Init
  OBVIOUS
<1>1. Contents(file) \in Settings /\ FoundDamaged \in BOOLEAN
  BY FileFacts DEF Init, FoundDamaged
<1>2. Outcomes = [u \in Updates |-> "none"]
  BY OutcomeFacts DEF Outcomes, Init, Tasks
<1>3. Bases = [u \in Updates |-> Store!Current]
  BY DEF Bases, Basis, Store!Current, Init, Tasks
<1>4. QED
  BY <1>1, <1>2, <1>3 DEF Store!Init, Outcomes, Bases

\* "cross-module writes can never lose each other" (settings-store.ts:9), for
\* any number of updates, readers, failed reads and writes and restarts: an
\* update changes its own key of the document as it is when it is stored, but
\* for the two ways in which the code loses what others wrote, a failed read
\* (42) and a reader that found the file damaged (56).
THEOREM Serial == Spec => StoreIsSerial
<1>1. Init => Store!Init
  BY StoreInit
<1>2. StoreInv /\ [Next]_vars => [Store!Next]_(Store!svars)
  BY StoreStep
<1>3. QED
  BY <1>1, <1>2, StoreInvariant, PTL DEF Spec, StoreIsSerial, Store!Spec
=============================================================================
