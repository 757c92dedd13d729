--------------------------- MODULE RegistryStore ---------------------------
(***************************************************************************)
(* The app's registries: the file-backed store of                          *)
(* src/bun/registries/store.ts, the requests that index.ts serves from it, *)
(* document versions (documents.ts) and the import of the agent's files    *)
(* (import-bridge.ts).                                                     *)
(*                                                                         *)
(* An operation takes its turn in the collection's chain of promises,      *)
(* loads the whole file, changes the items in memory and saves them, an    *)
(* await between each; an import does so for one collection after the     *)
(* other.  File operations under the lock that nobody else can see are one *)
(* action.                                                                 *)
(***************************************************************************)
EXTENDS Naturals, Sequences, FiniteSets, SequencesExt

CONSTANTS Names,        \* the collections
          Requests,     \* requests the webview makes
          Asks,         \* what the requests may ask for: request -> Input
          AgentIds,     \* ids in the agent's files
          AgentFiles,   \* collection -> what the agent's file lists
          StartFiles,   \* what a collection's file may be at the start
          MaxVersions,  \* MAX_DOCUMENT_VERSIONS
          MaxFailures,  \* bound: file operations that fail
          MaxRestarts   \* bound: times the app quits and is started again

\* newRegistryId gives an item an id of its own: the request that creates it.
Ids == Requests \cup AgentIds

\* by: the request whose fields the item has.
Items == [id : Ids, born : Requests \cup {"agent"}, by : Requests \cup {"agent"},
          versions : Seq(Nat)]

\* of: the collections asked for, one after the other.
Input == [op : {"list", "create", "import"}, of : Seq(Names)]
         \cup [op : {"get", "delete", "append"}, of : Seq(Names), id : Ids]
         \cup [op : {"put"}, of : Seq(Names), id : Ids, versions : Seq(Nat)]

\* What the agent's files list: an item with so many versions.
Agents == [id : AgentIds, versions : Nat]

Missing == [is |-> "missing"]
Damaged == [is |-> "damaged"]
Stored(items) == [is |-> "stored", items |-> items]
Files == {Missing, Damaged} \cup [is : {"stored"}, items : Seq(Items)]

\* What a request is told, for each of its collections.
None == [is |-> "none"]
Error == [is |-> "error"]
Lost == [is |-> "lost"]
Gone == [is |-> "gone"]                       \* not found, 404
Says(what) == [is |-> "ok", what |-> what]

ASSUME RegistryAssumption ==
  /\ Asks \subseteq [Requests -> Input]
  /\ \A asked \in Asks : \A r \in Requests :
       /\ asked[r].of # <<>> /\ IsInjective(asked[r].of)
       /\ asked[r].op # "import" => Len(asked[r].of) = 1
  /\ AgentFiles \in [Names -> Seq(Agents)] /\ Requests \cap AgentIds = {}
  /\ StartFiles \subseteq Files /\ MaxVersions \in Nat \ {0}
  /\ MaxFailures \in Nat /\ MaxRestarts \in Nat

\* The view puts back the versions as it fetched them (documents-data.ts:198-200),
\* and the files were written by the same code.
Increasing(versions) ==
  /\ Len(versions) <= MaxVersions
  /\ \A i, j \in DOMAIN versions : i < j => versions[i] < versions[j]

ASSUME VersionsAssumption ==
  /\ \A asked \in Asks : \A r \in Requests :
       asked[r].op = "put" => Increasing(asked[r].versions)
  /\ \A f \in StartFiles : f.is = "stored" =>
       \A k \in DOMAIN f.items : Increasing(f.items[k].versions)

VARIABLES
  file,      \* collection -> <collection>.json
  locks,     \* collection -> the requests in its chain, the running one first
  ask,       \* request -> its input
  phase,     \* request -> how far it is
  todo,      \* request -> collections it has still to work on
  seen,      \* request -> the items it loaded
  blind,     \* <<r, c>>: request r could not read the file of c
  answer,    \* request -> collection -> its answer
  failures,  \* file operations that failed
  restarts   \* times the app was started again

vars == <<file, locks, ask, phase, todo, seen, blind, answer, failures, restarts>>

Init ==
  /\ file \in [Names -> StartFiles] /\ locks = [c \in Names |-> <<>>]
  /\ ask \in Asks
  /\ phase = [r \in Requests |-> "idle"]
  /\ todo = [r \in Requests |-> ask[r].of]
  /\ seen = [r \in Requests |-> <<>>]
  /\ blind = {} /\ answer = [r \in Requests |-> [c \in Names |-> None]]
  /\ failures = 0 /\ restarts = 0

Goto(r, p) == phase' = [phase EXCEPT ![r] = p]

----------------------------------------------------------------------------
\* What an operation makes of the items it loaded.

With(items, id) == {k \in DOMAIN items : items[k].id = id}

\* findIndex: the first of them.
Found(items, id, k) == k \in With(items, id) /\ \A j \in 1..(k - 1) : items[j].id # id

\* The elements of a sequence at the positions K, in their order.
Nth(K, n) == CHOOSE k \in K : Cardinality({i \in K : i <= k}) = n
Only(seq, K) == [n \in 1..Cardinality(K) |-> seq[Nth(K, n)]]
Kept(items, answer_) == [saves |-> FALSE, items |-> items, answer |-> answer_]
Changed(items, answer_) == [saves |-> TRUE, items |-> items, answer |-> answer_]

\* normalizeDocumentOnCreate gives a document with content its first version.
Create(r, items) ==
  Changed(Append(items, [id |-> r, born |-> r, by |-> r, versions |-> <<1>>]), Says(r))

\* The whole item is replaced, but for its id and its time of creation.
Put(r, in, items) ==
  Changed([k \in DOMAIN items |->
             IF Found(items, in.id, k)
             THEN [items[k] EXCEPT !.by = r, !.versions = in.versions]
             ELSE items[k]], Says(r))

Delete(in, items) == Changed(Only(items, DOMAIN items \ With(items, in.id)), Says(in.id))

\* The last n of a sequence.
Newest(n, seq) == SubSeq(seq, 1 + (IF Len(seq) > n THEN Len(seq) - n ELSE 0), Len(seq))

Latest(versions) == Max({0} \cup {versions[k] : k \in DOMAIN versions})

\* Seeded bug: the number of versions is counted on, not the highest number.
AppendVersionByCount(versions) ==
  Newest(MaxVersions, Append(versions, Len(versions) + 1))

AppendVersion(versions) ==
  Newest(MaxVersions, Append(versions, Latest(versions) + 1))

AppendTo(in, items) ==
  [k \in DOMAIN items |->
     IF Found(items, in.id, k)
     THEN [items[k] EXCEPT !.versions = AppendVersion(items[k].versions)]
     ELSE items[k]]

\* mapAgentDocument numbers the agent's versions anew.
Imported(entry) ==
  [id |-> entry.id, born |-> "agent", by |-> "agent",
   versions |-> Newest(MaxVersions, [v \in 1..entry.versions |-> v])]

\* What is not there yet is added, the first of every id.
InsertImported(incoming, items) ==
  LET fresh == {k \in DOMAIN incoming : /\ With(items, incoming[k].id) = {}
                                        /\ Found(incoming, incoming[k].id, k)}
  IN  items \o Only([k \in DOMAIN incoming |-> Imported(incoming[k])], fresh)

Import(c, items) ==
  LET all == InsertImported(AgentFiles[c], items)
      added == Len(all) - Len(items)
  IN  [saves |-> added > 0, items |-> all, answer |-> Says(added)]

\* What the request makes of the items of a collection.
Outcome(r, in, c, items) ==
  CASE in.op = "list" -> Kept(items, Says(items))
    [] in.op = "get" -> Kept(items, Says({items[k] : k \in {j \in With(items, in.id) :
                                                            Found(items, in.id, j)}}))
    [] in.op = "create" -> Create(r, items)
    [] in.op = "import" -> Import(c, items)
    \* mutate saves what it loaded, even when the document is not there
    [] in.op = "append" -> Changed(AppendTo(in, items),
                                   IF With(items, in.id) = {} THEN Gone ELSE Says(r))
    [] OTHER ->
         IF With(items, in.id) = {} THEN Kept(items, Gone)
         ELSE IF in.op = "put" THEN Put(r, in, items) ELSE Delete(in, items)

----------------------------------------------------------------------------
\* The lock and the file.

Contents(f) == IF f.is = "stored" THEN f.items ELSE <<>>

\* The body was read: the request joins the chain of its (next) collection.
Enqueue(r) ==
  /\ phase[r] \in {"idle", "between"} /\ Goto(r, "queued")
  /\ locks' = [locks EXCEPT ![Head(todo[r])] = Append(@, r)]
  /\ UNCHANGED <<file, ask, todo, seen, blind, answer, failures, restarts>>

\* Seeded bug: an operation starts at once, not when the ones before it ended.
LoadAtOnce(r) ==
  /\ phase[r] = "queued" /\ Goto(r, "loaded")
  /\ seen' = [seen EXCEPT ![r] = Contents(file[Head(todo[r])])]
  /\ UNCHANGED <<file, locks, ask, todo, blind, answer, failures, restarts>>

\* A file that is not a store is moved aside; what is stored is then empty.
Load(r) ==
  LET c == Head(todo[r]) IN
  /\ phase[r] = "queued" /\ Head(locks[c]) = r /\ Goto(r, "loaded")
  /\ seen' = [seen EXCEPT ![r] = Contents(file[c])]
  /\ file' = [file EXCEPT ![c] = IF @ = Damaged THEN Missing ELSE @]
  /\ UNCHANGED <<locks, ask, todo, blind, answer, failures, restarts>>

\* readFile fails though the file is there; or the damaged file stays in place.
LoadFails(r) ==
  LET c == Head(todo[r]) IN
  /\ phase[r] = "queued" /\ Head(locks[c]) = r /\ Goto(r, "loaded")
  /\ failures < MaxFailures /\ failures' = failures + 1
  /\ blind' = blind \cup {<<r, c>>}
  /\ seen' = [seen EXCEPT ![r] = <<>>]
  /\ UNCHANGED <<file, locks, ask, todo, answer, restarts>>

\* The operation ends with an answer and the next one in the chain may run.
Leave(r, c, answer_) ==
  /\ locks' = [locks EXCEPT ![c] = Tail(@)]
  /\ answer' = [answer EXCEPT ![r][c] = answer_]
  /\ seen' = [seen EXCEPT ![r] = <<>>]
  /\ todo' = [todo EXCEPT ![r] = IF answer_ = Error THEN <<>> ELSE Tail(@)]
  /\ Goto(r, IF todo'[r] = <<>> THEN "done" ELSE "between")

\* Nothing to save, or the temporary file is renamed over the collection's.
Finish(r) ==
  LET c == Head(todo[r])
      out == Outcome(r, ask[r], c, seen[r])
  IN
  /\ phase[r] = "loaded"
  /\ file' = IF out.saves THEN [file EXCEPT ![c] = Stored(out.items)] ELSE file
  /\ Leave(r, c, out.answer)
  /\ UNCHANGED <<ask, blind, failures, restarts>>

\* Seeded bug: a rejected operation keeps the chain.
SaveFailsHoldsLock(r) ==
  LET c == Head(todo[r]) IN
  /\ phase[r] = "loaded" /\ failures < MaxFailures /\ failures' = failures + 1
  /\ Outcome(r, ask[r], c, seen[r]).saves
  /\ answer' = [answer EXCEPT ![r][c] = Error]
  /\ seen' = [seen EXCEPT ![r] = <<>>] /\ todo' = [todo EXCEPT ![r] = <<>>]
  /\ Goto(r, "done")
  /\ UNCHANGED <<file, locks, ask, blind, restarts>>

\* It cannot be written or renamed: the request is answered with an error, an
\* import does not go on.
SaveFails(r) ==
  LET c == Head(todo[r]) IN
  /\ phase[r] = "loaded" /\ failures < MaxFailures /\ failures' = failures + 1
  /\ Outcome(r, ask[r], c, seen[r]).saves
  /\ Leave(r, c, Error)
  /\ UNCHANGED <<file, ask, blind, restarts>>

\* The app quits, in the middle of what it does, and is started again.
Restart ==
  /\ restarts < MaxRestarts /\ restarts' = restarts + 1
  /\ locks' = [c \in Names |-> <<>>]
  /\ answer' = [r \in Requests |-> [c \in Names |->
       IF phase[r] \notin {"idle", "done"} /\ c \in ToSet(todo[r])
       THEN Lost ELSE answer[r][c]]]
  /\ phase' = [r \in Requests |-> IF phase[r] = "idle" THEN "idle" ELSE "done"]
  /\ todo' = [r \in Requests |-> IF phase[r] = "idle" THEN todo[r] ELSE <<>>]
  /\ seen' = [r \in Requests |-> <<>>]
  /\ UNCHANGED <<file, ask, blind, failures>>

Next ==
  \/ \E r \in Requests :
       Enqueue(r) \/ Load(r) \/ LoadFails(r) \/ Finish(r) \/ SaveFails(r)
  \/ Restart

\* File operations that were issued end; an import goes on.
Fairness ==
  \A r \in Requests :
    /\ WF_vars(Enqueue(r) /\ phase[r] = "between")
    /\ WF_vars(Load(r) \/ LoadFails(r)) /\ WF_vars(Finish(r) \/ SaveFails(r))

Spec == Init /\ [][Next]_vars /\ Fairness

----------------------------------------------------------------------------
\* Properties.

Phases == {"idle", "between", "queued", "loaded", "done"}

\* A request waits in the chain of the collection it works on, once, and only
\* the first in a chain has loaded (store.ts:54-62).
Waiting(c) == {r \in Requests : phase[r] \in {"queued", "loaded"} /\ Head(todo[r]) = c}

\* The store stays well typed, the contents of the files apart.
TypeOK ==
  /\ DOMAIN file = Names /\ ask \in Asks /\ phase \in [Requests -> Phases]
  /\ todo \in [Requests -> Seq(Names)] /\ locks \in [Names -> Seq(Requests)]
  /\ \A c \in Names :
       /\ IsInjective(locks[c]) /\ ToSet(locks[c]) = Waiting(c)
       /\ \A r \in Waiting(c) : phase[r] = "loaded" => r = Head(locks[c])
  /\ \A r \in Requests : /\ IsInjective(todo[r])
                         /\ todo[r] = <<>> <=> phase[r] = "done"
  /\ DOMAIN seen = Requests /\ blind \subseteq Requests \X Names
  /\ DOMAIN answer = Requests /\ \A r \in Requests : DOMAIN answer[r] = Names
  /\ failures \in 0..MaxFailures /\ restarts \in 0..MaxRestarts

\* "read-modify-write cycles never interleave" (store.ts:3-4): each collection
\* is as if one request after the other had worked on the whole of it, reads,
\* imports and refused saves included, and every answer is the one of that order.
Registry == INSTANCE SerialRegistry
  WITH Stores <- Seq(Items), Empty <- <<>>, Outcome <- Outcome,
       items <- [c \in Names |-> Contents(file[c])]

CollectionsAreSerial == Registry!Spec

\* "headVersion always points at the newest version" and versions are "bounded
\* to the last MAX_DOCUMENT_VERSIONS" (documents.ts:1-3): the version numbers of
\* a document increase, whichever were put or dropped, so the last is the newest.
VersionsIncrease ==
  \A c \in Names : \A k \in DOMAIN Contents(file[c]) :
    Increasing(Contents(file[c])[k].versions)

\* A failed operation holds nobody up (store.ts:56: prev.then(fn, fn)): every
\* request in a chain ends, with an answer or with the process.
EveryRequestEnds ==
  \A r \in Requests : phase[r] = "queued" ~> phase[r] = "done"
=============================================================================
