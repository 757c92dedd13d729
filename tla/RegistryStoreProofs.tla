------------------------ MODULE RegistryStoreProofs ------------------------
(***************************************************************************)
(* The registries implement SerialRegistry, for any number of collections, *)
(* requests, failures and restarts, and whatever an operation makes of the *)
(* items: nothing is used of Outcome.  What makes it inductive is SeenInv, *)
(* what the first in a collection's chain loaded is still what its file    *)
(* says (or it could not read it), and that a request is answered once for *)
(* each collection, in turn (AnswerInv, BlindInv).                         *)
(*                                                                         *)
(* Of what an operation does make of the items the last part proves that   *)
(* the versions of each stay numbered upwards: in what the files hold and, *)
(* as a request works on what it loaded, in that too (FilesInv).           *)
(***************************************************************************)
EXTENDS RegistryStore, SeqFacts, FiniteSetTheorems

\* A collection that is still to be worked on has no answer yet.
AnswerInv == \A r \in Requests : \A c \in ToSet(todo[r]) : answer[r][c] = None

\* It was not found unreadable either, unless it is the one that is loaded.
BlindInv ==
  \A r \in Requests : \A c \in ToSet(todo[r]) :
    <<r, c>> \in blind => phase[r] = "loaded" /\ c = Head(todo[r])

\* What r loaded, if it has: nobody changes the file before it leaves.
Loaded(r, c) == IF <<r, c>> \in blind THEN <<>> ELSE Contents(file[c])

\* What a request that has loaded goes on with is what the file says.
SeenInv == \A r \in Requests : phase[r] = "loaded" => seen[r] = Loaded(r, Head(todo[r]))

\* What every step keeps, whatever the operations are.
RegInv == TypeOK /\ AnswerInv /\ BlindInv /\ SeenInv

USE RegistryAssumption

----------------------------------------------------------------------------
\* A file that is missing or damaged holds nothing, and no file is both.
LEMMA FileFacts ==
  /\ Contents(Missing) = <<>> /\ Contents(Damaged) = <<>>
  /\ \A items : Contents(Stored(items)) = items
  BY DEF Contents, Missing, Damaged, Stored

\* A request that waits has a collection to work on, and it is among its own.
LEMMA HeadFacts ==
  ASSUME TypeOK, NEW r \in Requests, phase[r] # "done"
  PROVE  /\ todo[r] \in Seq(Names) /\ todo[r] # <<>> /\ IsInjective(todo[r])
         /\ Head(todo[r]) \in Names /\ Head(todo[r]) \in ToSet(todo[r])
<1>1. todo[r] \in Seq(Names) /\ todo[r] # <<>> /\ IsInjective(todo[r])
  BY DEF TypeOK
<1>2. Head(todo[r]) \in Names /\ Head(todo[r]) \in ToSet(todo[r])
  BY <1>1, QueueFacts
<1>3. QED
  BY <1>1, <1>2

\* Nobody waits at first.
LEMMA RegInit == Init => RegInv
<1> SUFFICES ASSUME Init PROVE RegInv
  OBVIOUS
<1>1. \A r \in Requests : ask[r].of \in Seq(Names) /\ ask[r].of # <<>> /\ IsInjective(ask[r].of)
  BY DEF Init, Input
<1>2. /\ DOMAIN file = Names /\ ask \in Asks /\ phase \in [Requests -> Phases]
      /\ \A r \in Requests : phase[r] = "idle"
  BY DEF Init, Phases
<1>3. todo \in [Requests -> Seq(Names)] /\ \A r \in Requests : todo[r] = ask[r].of
  BY <1>1 DEF Init
<1>4. /\ locks \in [Names -> Seq(Requests)]
      /\ \A c \in Names : IsInjective(locks[c]) /\ ToSet(locks[c]) = {} /\ Waiting(c) = {}
  BY <1>2, EmptySeqFacts, EmptyQueueFacts DEF Init, Waiting
<1>5. TypeOK
  <2>1. \A r \in Requests : IsInjective(todo[r]) /\ (todo[r] = <<>> <=> phase[r] = "done")
    BY <1>1, <1>2, <1>3
  <2>2. /\ DOMAIN seen = Requests /\ blind \subseteq Requests \X Names
        /\ DOMAIN answer = Requests /\ \A r \in Requests : DOMAIN answer[r] = Names
        /\ failures \in 0..MaxFailures /\ restarts \in 0..MaxRestarts
    BY DEF Init
  <2>3. QED
    BY <1>2, <1>3, <1>4, <2>1, <2>2 DEF TypeOK
<1>6. AnswerInv /\ BlindInv /\ SeenInv
  <2>1. \A r \in Requests : ToSet(todo[r]) \subseteq Names
    BY <1>3, QueueFacts
  <2>2. QED
    BY <1>2, <2>1 DEF Init, AnswerInv, BlindInv, SeenInv
<1>7. QED
  BY <1>5, <1>6 DEF RegInv

----------------------------------------------------------------------------
\* The invariant, one lemma for each action.

\* The newest request joins the chain behind whoever has loaded.
LEMMA EnqueueKeeps ==
  ASSUME RegInv, NEW r \in Requests, Enqueue(r)
  PROVE  RegInv'
<1>1. TypeOK /\ phase[r] \in {"idle", "between"}
  BY DEF RegInv, Enqueue
<1>2. PICK c \in Names : c = Head(todo[r]) /\ c \in ToSet(todo[r])
  BY <1>1, HeadFacts
<1>3. phase' \in [Requests -> Phases] /\ \A q \in Requests \ {r} : phase'[q] = phase[q]
  BY <1>1 DEF TypeOK, Enqueue, Goto, Phases
<1>4. phase'[r] = "queued"
  BY <1>1 DEF TypeOK, Enqueue, Goto
<1>5. r \notin ToSet(locks[c])
  BY <1>1, <1>2 DEF TypeOK, Waiting
<1>6. /\ Append(locks[c], r) \in Seq(Requests) /\ IsInjective(Append(locks[c], r))
      /\ ToSet(Append(locks[c], r)) = ToSet(locks[c]) \cup {r}
      /\ Head(Append(locks[c], r)) = IF locks[c] = <<>> THEN r ELSE Head(locks[c])
  <2>1. locks[c] \in Seq(Requests) /\ IsInjective(locks[c])
    BY <1>1, <1>2 DEF TypeOK
  <2>2. QED
    BY <1>5, <2>1, JoinFacts
<1>7. /\ locks' \in [Names -> Seq(Requests)] /\ locks'[c] = Append(locks[c], r)
      /\ \A d \in Names \ {c} : locks'[d] = locks[d]
  BY <1>1, <1>2, <1>6 DEF TypeOK, Enqueue
<1>8. /\ Waiting(c)' = Waiting(c) \cup {r}
      /\ \A d \in Names \ {c} : Waiting(d)' = Waiting(d)
  BY <1>1, <1>2, <1>3, <1>4 DEF Waiting, Enqueue
<1>9. ASSUME NEW d \in Names
      PROVE  /\ IsInjective(locks'[d]) /\ ToSet(locks'[d]) = Waiting(d)'
             /\ \A q \in Waiting(d)' : phase'[q] = "loaded" => q = Head(locks'[d])
  <2>1. CASE d = c
    <3>1. ASSUME NEW q \in Waiting(c)', phase'[q] = "loaded" PROVE q = Head(locks'[c])
      <4>1. q # r /\ q \in Waiting(c) /\ phase[q] = "loaded"
        BY <1>4, <1>3, <1>8, <3>1 DEF Waiting
      <4>2. q = Head(locks[c]) /\ locks[c] # <<>>
        BY <1>1, <1>2, <4>1, EmptyQueueFacts DEF TypeOK
      <4>3. QED
        BY <1>6, <1>7, <4>2
    <3>2. QED
      BY <2>1, <1>1, <1>2, <1>6, <1>7, <1>8, <3>1 DEF TypeOK
  <2>2. CASE d # c
    <3>1. \A q \in Waiting(d) : phase'[q] = "loaded" => phase[q] = "loaded"
      BY <1>3, <1>4 DEF Waiting
    <3>2. QED
      BY <2>2, <3>1, <1>1, <1>7, <1>8 DEF TypeOK
  <2>3. QED
    BY <2>1, <2>2
<1>10. TypeOK'
  BY <1>1, <1>3, <1>4, <1>7, <1>9 DEF TypeOK, Enqueue
<1>11. AnswerInv' /\ BlindInv'
  BY <1>1, <1>3, <1>4 DEF RegInv, AnswerInv, BlindInv, Enqueue
<1>12. SeenInv'
  BY <1>3, <1>4 DEF RegInv, SeenInv, Loaded, Enqueue, Contents
<1>13. QED
  BY <1>10, <1>11, <1>12 DEF RegInv

\* The first in a chain loads, or cannot read; what the files hold stays.
LEMMA LoadedKeeps ==
  ASSUME RegInv, NEW r \in Requests, NEW c \in Names, c = Head(todo[r]),
         phase[r] = "queued", Head(locks[c]) = r, Goto(r, "loaded"),
         DOMAIN file' = Names, \A d \in Names : Contents(file'[d]) = Contents(file[d]),
         \/ blind' = blind /\ seen' = [seen EXCEPT ![r] = Contents(file[c])]
         \/ blind' = blind \cup {<<r, c>>} /\ seen' = [seen EXCEPT ![r] = <<>>],
         failures' \in 0..MaxFailures, UNCHANGED <<locks, ask, todo, answer, restarts>>
  PROVE  RegInv'
<1>1. TypeOK
  BY DEF RegInv
<1>2. c \in ToSet(todo[r])
  BY <1>1, HeadFacts
<1>3. /\ phase' \in [Requests -> Phases] /\ phase'[r] = "loaded"
      /\ \A q \in Requests \ {r} : phase'[q] = phase[q]
  BY <1>1 DEF TypeOK, Goto, Phases
<1>4. \A d \in Names : Waiting(d)' = Waiting(d)
  BY <1>3 DEF Waiting
<1>5. ASSUME NEW d \in Names, NEW q \in Waiting(d)', phase'[q] = "loaded"
      PROVE  q = Head(locks[d])
  <2>1. CASE q = r
    BY <1>5, <2>1 DEF Waiting
  <2>2. CASE q # r
    BY <1>1, <1>3, <1>4, <1>5, <2>2 DEF TypeOK, Waiting
  <2>3. QED
    BY <2>1, <2>2
<1>6. TypeOK'
  <2>1. \A d \in Names : /\ IsInjective(locks'[d]) /\ ToSet(locks'[d]) = Waiting(d)'
                        /\ \A q \in Waiting(d)' : phase'[q] = "loaded" => q = Head(locks'[d])
    BY <1>1, <1>4, <1>5 DEF TypeOK
  <2>2. \A q \in Requests : IsInjective(todo'[q]) /\ (todo'[q] = <<>> <=> phase'[q] = "done")
    BY <1>1, <1>3 DEF TypeOK
  <2>3. DOMAIN seen' = Requests /\ blind' \subseteq Requests \X Names
    BY <1>1 DEF TypeOK
  <2>4. QED
    BY <1>1, <1>3, <2>1, <2>2, <2>3 DEF TypeOK
<1>7. AnswerInv'
  BY DEF RegInv, AnswerInv
<1>8. \A q \in Requests, d \in Names :
        <<q, d>> # <<r, c>> => (<<q, d>> \in blind' <=> <<q, d>> \in blind)
  OBVIOUS
<1>9. BlindInv'
  <2> SUFFICES ASSUME NEW q \in Requests, NEW d \in ToSet(todo[q]), <<q, d>> \in blind'
               PROVE  phase'[q] = "loaded" /\ d = Head(todo[q])
    BY DEF BlindInv
  <2>1. CASE <<q, d>> = <<r, c>>
    BY <2>1, <1>3
  <2>2. CASE <<q, d>> # <<r, c>>
    <3>1. <<q, d>> \in blind
      BY <2>2
    <3>2. phase[q] = "loaded" /\ d = Head(todo[q])
      BY <3>1 DEF RegInv, BlindInv
    <3>3. QED
      BY <3>2, <1>3
  <2>3. QED
    BY <2>1, <2>2
<1>10. SeenInv'
  <2> SUFFICES ASSUME NEW q \in Requests, phase'[q] = "loaded"
               PROVE  seen'[q] = Loaded(q, Head(todo[q]))'
    BY DEF SeenInv
  <2>1. CASE q = r
    <3>1. <<r, c>> \notin blind
      BY <1>2 DEF RegInv, BlindInv
    <3>2. QED
      BY <1>1, <2>1, <3>1 DEF Loaded, TypeOK
  <2>2. CASE q # r
    <3>1. phase[q] = "loaded" /\ seen'[q] = seen[q]
      BY <1>1, <1>3, <2>2 DEF TypeOK
    <3>2. Head(todo[q]) \in Names
      BY <1>1, <3>1, HeadFacts
    <3>3. Loaded(q, Head(todo[q]))' = Loaded(q, Head(todo[q]))
      BY <1>8, <2>2, <3>2 DEF Loaded
    <3>4. QED
      BY <3>1, <3>3 DEF RegInv, SeenInv
  <2>3. QED
    BY <2>1, <2>2
<1>11. QED
  BY <1>6, <1>7, <1>9, <1>10 DEF RegInv

\* The first in a chain leaves it, whatever it did to its file; no one else in
\* that chain has loaded.
LEMMA LeaveKeeps ==
  ASSUME RegInv, NEW r \in Requests, NEW c \in Names, c = Head(todo[r]),
         phase[r] = "loaded", NEW a, Leave(r, c, a),
         DOMAIN file' = Names, \A d \in Names \ {c} : file'[d] = file[d],
         failures' \in 0..MaxFailures, UNCHANGED <<ask, blind, restarts>>
  PROVE  RegInv'
<1>1. TypeOK
  BY DEF RegInv
<1>2. /\ todo[r] \in Seq(Names) /\ todo[r] # <<>> /\ IsInjective(todo[r])
      /\ c \in ToSet(todo[r])
  BY <1>1, HeadFacts
<1>3. r \in Waiting(c) /\ r = Head(locks[c]) /\ locks[c] # <<>>
  BY <1>1, EmptyQueueFacts DEF TypeOK, Waiting
<1>4. /\ todo'[r] \in Seq(Names) /\ IsInjective(todo'[r])
      /\ ToSet(todo'[r]) \subseteq ToSet(todo[r]) \ {c}
      /\ todo' \in [Requests -> Seq(Names)]
      /\ \A q \in Requests \ {r} : todo'[q] = todo[q]
  <2>1. todo'[r] = IF a = Error THEN <<>> ELSE Tail(todo[r])
    BY <1>1 DEF TypeOK, Leave
  <2>2. /\ todo'[r] \in Seq(Names) /\ IsInjective(todo'[r])
        /\ ToSet(todo'[r]) \subseteq ToSet(todo[r]) \ {c}
    BY <1>2, <2>1, LeaveFacts, EmptySeqFacts, EmptyQueueFacts
  <2>3. QED
    BY <1>1, <2>1, <2>2 DEF TypeOK, Leave
<1>5. /\ phase'[r] = IF todo'[r] = <<>> THEN "done" ELSE "between"
      /\ phase' \in [Requests -> Phases]
      /\ \A q \in Requests \ {r} : phase'[q] = phase[q]
  BY <1>1 DEF TypeOK, Leave, Goto, Phases
<1>6. /\ Tail(locks[c]) \in Seq(Requests) /\ IsInjective(Tail(locks[c]))
      /\ ToSet(Tail(locks[c])) = ToSet(locks[c]) \ {r}
  <2>1. locks[c] \in Seq(Requests) /\ IsInjective(locks[c])
    BY <1>1 DEF TypeOK
  <2>2. QED
    BY <2>1, <1>3, LeaveFacts
<1>7. /\ locks' \in [Names -> Seq(Requests)] /\ locks'[c] = Tail(locks[c])
      /\ \A d \in Names \ {c} : locks'[d] = locks[d]
  BY <1>1, <1>6 DEF TypeOK, Leave
<1>8. /\ Waiting(c)' = Waiting(c) \ {r}
      /\ \A d \in Names \ {c} : Waiting(d)' = Waiting(d)
  BY <1>4, <1>5 DEF Waiting
<1>9. ASSUME NEW q \in Requests, phase'[q] = "loaded"
      PROVE  q # r /\ phase[q] = "loaded" /\ todo'[q] = todo[q] /\ Head(todo[q]) \in Names \ {c}
  <2>1. q # r /\ phase[q] = "loaded" /\ todo'[q] = todo[q]
    BY <1>4, <1>5, <1>9
  <2>2. Head(todo[q]) \in Names
    BY <1>1, <2>1, HeadFacts
  <2>3. ASSUME Head(todo[q]) = c PROVE FALSE
    BY <1>1, <1>3, <2>1, <2>3 DEF TypeOK, Waiting
  <2>4. QED
    BY <2>1, <2>2, <2>3
<1>10. TypeOK'
  <2>1. ASSUME NEW d \in Names
        PROVE  /\ IsInjective(locks'[d]) /\ ToSet(locks'[d]) = Waiting(d)'
               /\ \A q \in Waiting(d)' : phase'[q] = "loaded" => q = Head(locks'[d])
    <3>1. ASSUME NEW q \in Waiting(d)', phase'[q] = "loaded"
          PROVE  d # c /\ q \in Waiting(d) /\ phase[q] = "loaded"
      BY <1>9, <3>1 DEF Waiting
    <3>2. QED
      BY <1>1, <1>6, <1>7, <1>8, <3>1 DEF TypeOK
  <2>2. \A q \in Requests : IsInjective(todo'[q]) /\ (todo'[q] = <<>> <=> phase'[q] = "done")
    BY <1>1, <1>4, <1>5 DEF TypeOK
  <2>3. /\ DOMAIN seen' = Requests /\ DOMAIN answer' = Requests
        /\ \A q \in Requests : DOMAIN answer'[q] = Names
    BY <1>1 DEF TypeOK, Leave
  <2>4. QED
    BY <1>1, <1>4, <1>5, <1>7, <2>1, <2>2, <2>3 DEF TypeOK
<1>11. \A q \in Requests : ToSet(todo'[q]) \subseteq ToSet(todo[q]) /\ (q = r => c \notin ToSet(todo'[q]))
  BY <1>4
<1>12. AnswerInv'
  <2> SUFFICES ASSUME NEW q \in Requests, NEW d \in ToSet(todo'[q]) PROVE answer'[q][d] = None
    BY DEF AnswerInv
  <2>1. d \in ToSet(todo[q]) /\ <<q, d>> # <<r, c>>
    BY <1>11
  <2>2. answer[q][d] = None /\ d \in Names
    BY <1>1, <2>1, QueueFacts DEF RegInv, AnswerInv, TypeOK
  <2>3. QED
    BY <1>1, <2>1, <2>2 DEF TypeOK, Leave
<1>13. BlindInv'
  <2> SUFFICES ASSUME NEW q \in Requests, NEW d \in ToSet(todo'[q]), <<q, d>> \in blind
               PROVE  phase'[q] = "loaded" /\ d = Head(todo'[q])
    BY DEF BlindInv
  <2>1. phase[q] = "loaded" /\ d = Head(todo[q]) /\ q # r
    BY <1>11 DEF RegInv, BlindInv
  <2>2. QED
    BY <2>1, <1>4, <1>5
<1>14. SeenInv'
  <2> SUFFICES ASSUME NEW q \in Requests, phase'[q] = "loaded"
               PROVE  seen'[q] = Loaded(q, Head(todo[q]))' /\ todo'[q] = todo[q]
    BY DEF SeenInv, Loaded
  <2>1. q # r /\ phase[q] = "loaded" /\ todo'[q] = todo[q] /\ Head(todo[q]) \in Names \ {c}
    BY <1>9
  <2>2. seen'[q] = seen[q]
    BY <1>1, <2>1 DEF TypeOK, Leave
  <2>3. Loaded(q, Head(todo[q]))' = Loaded(q, Head(todo[q]))
    BY <2>1 DEF Loaded, Contents
  <2>4. QED
    BY <2>1, <2>2, <2>3 DEF RegInv, SeenInv
<1>15. QED
  BY <1>10, <1>12, <1>13, <1>14 DEF RegInv

\* What was under way is over; what is still to come has not begun.
LEMMA RestartKeeps ==
  ASSUME RegInv, Restart
  PROVE  RegInv'
<1>1. TypeOK
  BY DEF RegInv
<1>2. /\ phase' \in [Requests -> {"idle", "done"}]
      /\ \A r \in Requests : phase'[r] = "idle" => phase[r] = "idle" /\ todo'[r] = todo[r]
      /\ \A r \in Requests : phase'[r] = "done" => todo'[r] = <<>>
  BY DEF Restart
<1>3. todo' \in [Requests -> Seq(Names)]
  BY <1>1, EmptySeqFacts DEF Restart, TypeOK
<1>4. /\ locks' \in [Names -> Seq(Requests)]
      /\ \A c \in Names : IsInjective(locks'[c]) /\ ToSet(locks'[c]) = {} /\ Waiting(c)' = {}
  BY <1>2, EmptySeqFacts, EmptyQueueFacts DEF Restart, Waiting
<1>5. TypeOK'
  <2>1. \A r \in Requests : IsInjective(todo'[r]) /\ (todo'[r] = <<>> <=> phase'[r] = "done")
    BY <1>1, <1>2, EmptyQueueFacts DEF TypeOK
  <2>2. /\ DOMAIN seen' = Requests /\ DOMAIN answer' = Requests
        /\ \A r \in Requests : DOMAIN answer'[r] = Names
        /\ restarts' \in 0..MaxRestarts
    BY <1>1 DEF Restart, TypeOK
  <2>3. QED
    BY <1>1, <1>2, <1>3, <1>4, <2>1, <2>2 DEF Restart, TypeOK, Phases
<1>6. ASSUME NEW r \in Requests, NEW c \in ToSet(todo'[r])
      PROVE  phase[r] = "idle" /\ c \in ToSet(todo[r]) /\ c \in Names
  <2>1. phase'[r] = "idle"
    BY <1>2, EmptyQueueFacts
  <2>2. QED
    BY <1>1, <1>2, <2>1, QueueFacts DEF TypeOK
<1>7. AnswerInv'
  BY <1>6 DEF RegInv, AnswerInv, Restart
<1>8. BlindInv'
  BY <1>6 DEF RegInv, BlindInv, Restart
<1>9. SeenInv'
  BY <1>2 DEF SeenInv
<1>10. QED
  BY <1>5, <1>7, <1>8, <1>9 DEF RegInv

\* Every step keeps the invariant.
LEMMA RegStep == RegInv /\ [Next]_vars => RegInv'
<1> SUFFICES ASSUME RegInv, [Next]_vars PROVE RegInv'
  OBVIOUS
<1>1. TypeOK
  BY DEF RegInv
<1>2. ASSUME NEW r \in Requests, Enqueue(r) PROVE RegInv'
  BY <1>2, EnqueueKeeps
<1>3. ASSUME NEW r \in Requests, Load(r) \/ LoadFails(r) PROVE RegInv'
  <2>1. PICK c \in Names : c = Head(todo[r])
    BY <1>1, <1>3, HeadFacts DEF Load, LoadFails
  <2>2. DOMAIN file' = Names /\ \A d \in Names : Contents(file'[d]) = Contents(file[d])
    BY <1>1, <1>3, <2>1, FileFacts DEF Load, LoadFails, TypeOK
  <2>3. failures' \in 0..MaxFailures
    BY <1>1, <1>3 DEF Load, LoadFails, TypeOK
  <2>4. QED
    BY <1>3, <2>1, <2>2, <2>3, LoadedKeeps DEF Load, LoadFails
<1>4. ASSUME NEW r \in Requests, Finish(r) \/ SaveFails(r) PROVE RegInv'
  <2>1. PICK c \in Names : c = Head(todo[r])
    BY <1>1, <1>4, HeadFacts DEF Finish, SaveFails
  <2>2. DOMAIN file' = Names /\ \A d \in Names \ {c} : file'[d] = file[d]
    BY <1>1, <1>4, <2>1 DEF Finish, SaveFails, TypeOK
  <2>3. failures' \in 0..MaxFailures
    BY <1>1, <1>4 DEF Finish, SaveFails, TypeOK
  <2>4. PICK a : Leave(r, c, a)
    BY <1>4, <2>1 DEF Finish, SaveFails
  <2>5. QED
    BY <1>4, <2>1, <2>2, <2>3, <2>4, LeaveKeeps DEF Finish, SaveFails
<1>5. CASE Restart
  BY <1>5, RestartKeeps
<1>6. CASE UNCHANGED vars
  BY <1>6 DEF vars, RegInv, TypeOK, Waiting, AnswerInv, BlindInv, SeenInv, Loaded, Contents
<1>7. QED
  BY <1>2, <1>3, <1>4, <1>5, <1>6 DEF Next

\* In every reachable state a collection's chain holds each request once, only
\* the first of them has loaded, and what it loaded is what the file says.
THEOREM RegistryInvariant == Spec => []RegInv
  BY RegInit, RegStep, PTL DEF Spec

----------------------------------------------------------------------------
\* Refinement: a request is served at the instant it saves, or would.

\* What the abstract registries hold.
Held == [c \in Names |-> Contents(file[c])]

\* To save is to serve the request.
LEMMA FinishServes ==
  ASSUME RegInv, NEW r \in Requests, NEW c \in Names, c = Head(todo[r]), Finish(r)
  PROVE  Registry!Serve(r, c)
<1> DEFINE out == Outcome(r, ask[r], c, seen[r])
<1>1. TypeOK /\ c \in ToSet(todo[r])
  BY HeadFacts DEF RegInv, Finish
<1>2. answer[r][c] = None
  BY <1>1 DEF RegInv, AnswerInv
<1>3. seen[r] = IF <<r, c>> \in blind THEN <<>> ELSE Held[c]
  BY DEF RegInv, SeenInv, Loaded, Held, Finish
<1>4. answer' = [answer EXCEPT ![r][c] = out.answer]
  BY DEF Finish, Leave
<1>5. Held' = IF out.saves THEN [Held EXCEPT ![c] = out.items] ELSE Held
  <2>1. CASE out.saves
    <3>1. file' = [file EXCEPT ![c] = Stored(out.items)]
      BY <2>1 DEF Finish
    <3>2. Contents(file'[c]) = out.items /\ \A d \in Names \ {c} : file'[d] = file[d]
      BY <1>1, <3>1, FileFacts DEF TypeOK
    <3>3. \A d \in Names : Contents(file'[d]) = [Held EXCEPT ![c] = out.items][d]
      BY <3>2 DEF Held, Contents
    <3>4. QED
      BY <2>1, <3>3 DEF Held
  <2>2. CASE ~out.saves
    BY <2>2 DEF Finish, Held, Contents
  <2>3. QED
    BY <2>1, <2>2
<1>6. UNCHANGED <<ask, blind>>
  BY DEF Finish
<1>7. QED
  BY <1>2, <1>3, <1>4, <1>5, <1>6 DEF Registry!Serve, Registry!None, None, Held

\* A failed save fails it, and leaves no trace.
LEMMA SaveFailsFails ==
  ASSUME RegInv, NEW r \in Requests, NEW c \in Names, c = Head(todo[r]), SaveFails(r)
  PROVE  Registry!Fail(r, c)
<1>1. c \in ToSet(todo[r])
  BY HeadFacts DEF RegInv, SaveFails
<1>2. answer[r][c] = None
  BY <1>1 DEF RegInv, AnswerInv
<1>3. answer' = [answer EXCEPT ![r][c] = Error] /\ UNCHANGED <<file, ask, blind>>
  BY DEF SaveFails, Leave
<1>4. QED
  BY <1>2, <1>3 DEF Registry!Fail, Registry!None, None, Registry!Error, Error, Contents

\* A failed read makes the collection look empty to it.
LEMMA LoadFailsGoesBlind ==
  ASSUME RegInv, NEW r \in Requests, NEW c \in Names, c = Head(todo[r]), LoadFails(r)
  PROVE  Registry!GoBlind(r, c)
<1>1. c \in ToSet(todo[r])
  BY HeadFacts DEF RegInv, LoadFails
<1>2. answer[r][c] = None
  BY <1>1 DEF RegInv, AnswerInv
<1>3. QED
  BY <1>2 DEF LoadFails, Registry!GoBlind, Registry!None, None, Contents

\* A restart loses the requests, not the items.
LEMMA RestartLoses ==
  ASSUME RegInv, Restart
  PROVE  \E S \in SUBSET (Requests \X Names) : Registry!Lose(S)
<1> DEFINE S == {j \in Requests \X Names :
                   phase[j[1]] \notin {"idle", "done"} /\ j[2] \in ToSet(todo[j[1]])}
<1>1. \A j \in S : answer[j[1]][j[2]] = None
  BY DEF RegInv, AnswerInv
<1>2. answer' = [r \in Requests |-> [c \in Names |->
                   IF <<r, c>> \in S THEN Lost ELSE answer[r][c]]]
  BY DEF Restart
<1>3. UNCHANGED <<file, ask, blind>>
  BY DEF Restart
<1>4. Registry!Lose(S)
  BY <1>1, <1>2, <1>3 DEF Registry!Lose, Registry!None, None, Registry!Lost, Lost, Contents
<1>5. QED
  BY <1>4

\* Every step is one of the abstract registries, or none of their business.
LEMMA RegistryStep == RegInv /\ [Next]_vars => [Registry!Next]_(Registry!rvars)
<1> SUFFICES ASSUME RegInv, [Next]_vars
             PROVE  Registry!Next \/ UNCHANGED Registry!rvars
  OBVIOUS
<1>1. ASSUME NEW r \in Requests, phase[r] # "done" PROVE Head(todo[r]) \in Names
  BY <1>1, HeadFacts DEF RegInv
<1>2. ASSUME NEW r \in Requests, Enqueue(r) PROVE UNCHANGED Registry!rvars
  BY <1>2 DEF Enqueue, Registry!rvars, Contents
<1>3. ASSUME NEW r \in Requests, Load(r) PROVE UNCHANGED Registry!rvars
  <2>1. \A d \in Names : Contents(file'[d]) = Contents(file[d])
    BY <1>3, FileFacts DEF Load, RegInv, TypeOK
  <2>2. QED
    BY <1>3, <2>1 DEF Load, Registry!rvars
<1>4. ASSUME NEW r \in Requests, LoadFails(r) PROVE Registry!Next
  <2>1. Head(todo[r]) \in Names
    BY <1>1, <1>4 DEF LoadFails
  <2>2. QED
    BY <1>4, <2>1, LoadFailsGoesBlind DEF Registry!Next
<1>5. ASSUME NEW r \in Requests, Finish(r) PROVE Registry!Next
  <2>1. Head(todo[r]) \in Names
    BY <1>1, <1>5 DEF Finish
  <2>2. QED
    BY <1>5, <2>1, FinishServes DEF Registry!Next
<1>6. ASSUME NEW r \in Requests, SaveFails(r) PROVE Registry!Next
  <2>1. Head(todo[r]) \in Names
    BY <1>1, <1>6 DEF SaveFails
  <2>2. QED
    BY <1>6, <2>1, SaveFailsFails DEF Registry!Next
<1>7. CASE Restart
  BY <1>7, RestartLoses DEF Registry!Next
<1>8. CASE UNCHANGED vars
  BY <1>8 DEF vars, Registry!rvars, Contents
<1>9. QED
  BY <1>2, <1>3, <1>4, <1>5, <1>6, <1>7, <1>8 DEF Next

\* The files at first are what they hold at first.
LEMMA RegistryInit == Init => Registry!Init
<1> SUFFICES ASSUME Init PROVE Registry!Init
  OBVIOUS
<1>1. \A f \in Files : Contents(f) \in Seq(Items)
  <2>1. \A f \in [is : {"stored"}, items : Seq(Items)] : Contents(f) \in Seq(Items)
    BY DEF Contents
  <2>2. QED
    BY <2>1, FileFacts, EmptySeqFacts DEF Files
<1>2. [c \in Names |-> Contents(file[c])] \in [Names -> Seq(Items)]
  BY <1>1 DEF Init
<1>3. QED
  BY <1>2 DEF Init, Registry!Init, Registry!None, None

\* "read-modify-write cycles never interleave" (store.ts:3-4): the registries
\* implement SerialRegistry, for any number of collections, requests, failing
\* file operations and restarts, and whatever the operations are.
THEOREM CollectionsSerial == Spec => CollectionsAreSerial
<1>1. Init => Registry!Init
  BY RegistryInit
<1>2. RegInv /\ [Next]_vars => [Registry!Next]_(Registry!rvars)
  BY RegistryStep
<1>3. QED
  BY <1>1, <1>2, RegistryInvariant, PTL DEF Spec, CollectionsAreSerial, Registry!Spec

----------------------------------------------------------------------------
\* What the operations make of the versions of the items.

\* There is an n-th position as long as there are n.
LEMMA NthFacts ==
  ASSUME NEW len \in Nat, NEW K \in SUBSET (1..len), NEW n \in 1..Cardinality(K)
  PROVE  Nth(K, n) \in K
<1> DEFINE Upto(m) == {i \in K : i <= m}
           Enough == {m \in Nat : Cardinality(Upto(m)) >= n}
<1>1. \A i \in K : i \in Nat /\ 1 <= i /\ i <= len
  OBVIOUS
<1>2. IsFiniteSet(K)
  <2>1. IsFiniteSet(1..len)
    BY FS_Interval
  <2>2. QED
    BY <2>1, FS_Subset
<1>3. \A m \in Nat : IsFiniteSet(Upto(m)) /\ Cardinality(Upto(m)) \in Nat
  <2>1. ASSUME NEW m \in Nat PROVE Upto(m) \in SUBSET K
    OBVIOUS
  <2>2. QED
    BY <1>2, <2>1, FS_Subset, FS_CardinalityType
<1>4. len \in Enough
  <2>1. Upto(len) = K
    BY <1>1
  <2>2. Cardinality(K) \in Nat
    BY <1>2, FS_CardinalityType
  <2> HIDE DEF Upto
  <2>3. Cardinality(Upto(len)) >= n
    BY <2>1, <2>2
  <2>4. QED
    BY <2>3
<1>5. PICK m \in Enough : \A k \in Enough : m <= k
  <2>1. Enough \subseteq Nat
    OBVIOUS
  <2> HIDE DEF Enough
  <2>2. QED
    BY <1>4, <2>1, LeastFacts
<1>6. m # 0
  <2>1. \A i \in K : ~(i <= 0)
    BY <1>1
  <2>2. Upto(0) = {}
    BY <2>1
  <2>3. Cardinality(Upto(0)) = 0
    BY <2>2, FS_EmptySet
  <2> HIDE DEF Upto
  <2>4. 0 \notin Enough
    BY <2>3
  <2>5. QED
    BY <1>5, <2>4
<1>7. m \in Nat /\ m - 1 \in Nat /\ m - 1 \notin Enough
  <2>1. m \in Nat
    BY <1>5
  <2>2. m - 1 \in Nat
    BY <1>6, <2>1
  <2> HIDE DEF Enough
  <2>3. QED
    BY <1>5, <2>1, <2>2
<1>8. Cardinality(Upto(m)) >= n /\ Cardinality(Upto(m - 1)) < n
  <2>1. Cardinality(Upto(m - 1)) \in Nat
    BY <1>3, <1>7
  <2>2. QED
    BY <1>5, <1>7, <2>1
<1>9. m \in K
  <2> SUFFICES ASSUME m \notin K PROVE FALSE
    OBVIOUS
  <2>1. \A i \in K : i <= m <=> i <= m - 1
    BY <1>7
  <2>2. Upto(m) = Upto(m - 1)
    BY <2>1
  <2>3. QED
    BY <1>3, <1>7, <1>8, <2>2
<1>10. Cardinality(Upto(m)) = n
  <2>1. \A i \in K : i <= m <=> i <= m - 1 \/ i = m
    BY <1>1, <1>7
  <2>2. Upto(m) = Upto(m - 1) \cup {m} /\ m \notin Upto(m - 1)
    BY <1>7, <1>9, <2>1
  <2>3. Cardinality(Upto(m)) = Cardinality(Upto(m - 1)) + 1
    BY <1>3, <1>7, <2>2, FS_AddElement
  <2> HIDE DEF Upto
  <2>4. QED
    BY <1>3, <1>7, <1>8, <2>3
<1>11. QED
  BY <1>9, <1>10 DEF Nth

\* What is picked out of a sequence was in it.
LEMMA OnlyFacts ==
  ASSUME NEW S, NEW seq \in Seq(S), NEW K \in SUBSET (DOMAIN seq)
  PROVE  /\ Only(seq, K) \in Seq(S)
         /\ \A n \in DOMAIN Only(seq, K) : \E k \in DOMAIN seq : Only(seq, K)[n] = seq[k]
<1>1. Len(seq) \in Nat /\ DOMAIN seq = 1..Len(seq)
  OBVIOUS
<1>2. IsFiniteSet(K) /\ Cardinality(K) \in Nat
  <2>1. IsFiniteSet(1..Len(seq)) /\ K \in SUBSET (1..Len(seq))
    BY <1>1, FS_Interval
  <2>2. QED
    BY <2>1, FS_Subset, FS_CardinalityType
<1>3. \A n \in 1..Cardinality(K) : Nth(K, n) \in DOMAIN seq
  BY <1>1, NthFacts
<1>4. \A n \in 1..Cardinality(K) : seq[Nth(K, n)] \in S
  BY <1>3
<1>5. QED
  BY <1>2, <1>3, <1>4 DEF Only

\* Newest keeps an increasing sequence increasing, and of bounded length.
LEMMA NewestFacts ==
  ASSUME NEW versions \in Seq(Nat),
         \A i, j \in DOMAIN versions : i < j => versions[i] < versions[j]
  PROVE  Newest(MaxVersions, versions) \in Seq(Nat) /\ Increasing(Newest(MaxVersions, versions))
<1> DEFINE from == 1 + (IF Len(versions) > MaxVersions THEN Len(versions) - MaxVersions ELSE 0)
           newest == SubSeq(versions, from, Len(versions))
<1>1. from \in Nat \ {0} /\ Len(versions) - from + 1 \in 0..MaxVersions
  OBVIOUS
<1> HIDE DEF from
<1>2. /\ newest \in Seq(Nat) /\ Len(newest) = Len(versions) - from + 1
      /\ \A i \in 1..Len(newest) : newest[i] = versions[from + i - 1]
                                   /\ from + i - 1 \in DOMAIN versions
  BY <1>1
<1> HIDE DEF newest
<1>3. Len(newest) <= MaxVersions
  BY <1>1, <1>2
<1>4. ASSUME NEW i \in DOMAIN newest, NEW j \in DOMAIN newest, i < j
      PROVE  newest[i] < newest[j]
  <2>1. i \in 1..Len(newest) /\ j \in 1..Len(newest)
    BY <1>2
  <2>2. from + i - 1 < from + j - 1
    BY <1>1, <1>4, <2>1
  <2>3. QED
    BY <1>2, <2>1, <2>2
<1>5. Newest(MaxVersions, versions) = newest
  BY DEF Newest, newest, from
<1>6. QED
  BY <1>2, <1>3, <1>4, <1>5 DEF Increasing

\* A version gets a number above all others.
LEMMA AppendVersionFacts ==
  ASSUME NEW versions \in Seq(Nat), Increasing(versions)
  PROVE  AppendVersion(versions) \in Seq(Nat) /\ Increasing(AppendVersion(versions))
<1> DEFINE S == {0} \cup {versions[k] : k \in DOMAIN versions}
           more == Append(versions, Latest(versions) + 1)
<1>1. Latest(versions) \in Nat /\ \A k \in DOMAIN versions : versions[k] <= Latest(versions)
  <2>1. /\ Max(S) \in Nat
        /\ \A x \in S : x <= Max(S)
    BY MaxFacts
  <2>2. QED
    BY <2>1 DEF Latest
<1>2. /\ more \in Seq(Nat) /\ Len(more) = Len(versions) + 1
      /\ \A i \in 1..Len(versions) : more[i] = versions[i]
      /\ more[Len(versions) + 1] = Latest(versions) + 1
  BY <1>1, AppendFacts
<1> HIDE DEF more
<1>3. ASSUME NEW i \in DOMAIN more, NEW j \in DOMAIN more, i < j
      PROVE  more[i] < more[j]
  <2>1. i \in 1..Len(versions) /\ more[i] = versions[i] /\ versions[i] \in Nat
    BY <1>2, <1>3
  <2>2. CASE j \in 1..Len(versions)
    BY <1>2, <1>3, <2>1, <2>2 DEF Increasing
  <2>3. CASE j = Len(versions) + 1
    BY <1>1, <1>2, <2>1, <2>3
  <2>4. QED
    BY <1>2, <2>2, <2>3
<1>4. QED
  BY <1>2, <1>3, NewestFacts DEF AppendVersion, more

\* Items whose versions are in order.
Good(items) == items \in Seq(Items) /\ \A k \in DOMAIN items : Increasing(items[k].versions)

\* put keeps each item's versions or takes those of the request.
LEMMA PutGood ==
  ASSUME NEW r \in Requests, NEW in, in.versions \in Seq(Nat), Increasing(in.versions),
         NEW items, Good(items)
  PROVE  Good(Put(r, in, items).items)
<1> DEFINE put == [k \in DOMAIN items |->
                     IF Found(items, in.id, k)
                     THEN [items[k] EXCEPT !.by = r, !.versions = in.versions]
                     ELSE items[k]]
<1>1. Put(r, in, items).items = put
  BY DEF Put, Changed
<1>2. ASSUME NEW k \in DOMAIN items PROVE put[k] \in Items /\ Increasing(put[k].versions)
  <2>1. items[k] \in Items /\ Increasing(items[k].versions)
    BY DEF Good
  <2>2. [items[k] EXCEPT !.by = r, !.versions = in.versions] \in Items
        /\ [items[k] EXCEPT !.by = r, !.versions = in.versions].versions = in.versions
    BY <2>1 DEF Items
  <2>3. QED
    BY <2>1, <2>2
<1>3. put \in Seq(Items) /\ DOMAIN put = DOMAIN items
  <2>1. items \in Seq(Items)
    BY DEF Good
  <2>2. DOMAIN items = 1..Len(items) /\ Len(items) \in Nat
    BY <2>1
  <2>3. put \in [1..Len(items) -> Items]
    BY <1>2, <2>2
  <2> HIDE DEF put
  <2>4. QED
    BY <2>2, <2>3
<1>4. QED
  BY <1>1, <1>2, <1>3 DEF Good

\* append-version numbers the new version after the last, and drops from the
\* front.
LEMMA AppendToGood ==
  ASSUME NEW in, NEW items, Good(items)
  PROVE  Good(AppendTo(in, items))
<1>1. ASSUME NEW k \in DOMAIN items
      PROVE  AppendTo(in, items)[k] \in Items /\ Increasing(AppendTo(in, items)[k].versions)
  <2>1. items[k] \in Items /\ Increasing(items[k].versions)
    BY DEF Good
  <2>2. items[k].versions \in Seq(Nat)
    BY <2>1 DEF Items
  <2> DEFINE versions == AppendVersion(items[k].versions)
  <2>3. versions \in Seq(Nat) /\ Increasing(versions)
    BY <2>1, <2>2, AppendVersionFacts
  <2> HIDE DEF versions
  <2>4. [items[k] EXCEPT !.versions = versions] \in Items
        /\ [items[k] EXCEPT !.versions = versions].versions = versions
    BY <2>1, <2>3 DEF Items
  <2>5. AppendTo(in, items)[k] = IF Found(items, in.id, k)
                                 THEN [items[k] EXCEPT !.versions = versions] ELSE items[k]
    BY DEF AppendTo, versions
  <2>6. QED
    BY <2>1, <2>3, <2>4, <2>5
<1>2. DOMAIN AppendTo(in, items) = DOMAIN items
  BY DEF AppendTo
<1>3. AppendTo(in, items) \in Seq(Items)
  BY <1>1, <1>2 DEF Good, AppendTo
<1>4. QED
  BY <1>1, <1>2, <1>3 DEF Good

\* create numbers its one version 1.
LEMMA CreateGood ==
  ASSUME NEW r \in Requests, NEW items, Good(items)
  PROVE  Good(Create(r, items).items)
<1> DEFINE item == [id |-> r, born |-> r, by |-> r, versions |-> <<1>>]
<1>1. item \in Items /\ Increasing(item.versions)
  BY DEF Items, Ids, Increasing
<1>2. Create(r, items).items = Append(items, item)
  BY DEF Create, Changed
<1> HIDE DEF item
<1>3. QED
  BY <1>1, <1>2, AppendFacts DEF Good

\* delete leaves the others as they are.
LEMMA DeleteGood ==
  ASSUME NEW in, NEW items, Good(items)
  PROVE  Good(Delete(in, items).items)
<1>1. Delete(in, items).items = Only(items, DOMAIN items \ With(items, in.id))
  BY DEF Delete, Changed
<1>2. QED
  BY <1>1, OnlyFacts DEF Good

\* What is imported is numbered from 1.
LEMMA ImportGood ==
  ASSUME NEW c \in Names, NEW items, Good(items)
  PROVE  Good(Import(c, items).items)
<1> DEFINE incoming == AgentFiles[c]
           entries == [k \in DOMAIN incoming |-> Imported(incoming[k])]
           fresh == {k \in DOMAIN incoming : /\ With(items, incoming[k].id) = {}
                                             /\ Found(incoming, incoming[k].id, k)}
           new == Only(entries, fresh)
<1>1. incoming \in Seq(Agents)
  OBVIOUS
<1>2. ASSUME NEW k \in DOMAIN incoming
      PROVE  entries[k] \in Items /\ Increasing(entries[k].versions)
  <2>1. incoming[k] \in Agents
    BY <1>1
  <2> DEFINE numbers == [v \in 1..incoming[k].versions |-> v]
  <2>2. incoming[k].versions \in Nat /\ incoming[k].id \in AgentIds
    BY <2>1 DEF Agents
  <2>3. numbers \in Seq(Nat) /\ \A i, j \in DOMAIN numbers : i < j => numbers[i] < numbers[j]
    BY <2>2
  <2>4. Newest(MaxVersions, numbers) \in Seq(Nat) /\ Increasing(Newest(MaxVersions, numbers))
    BY <2>3, NewestFacts
  <2>5. entries[k] = [id |-> incoming[k].id, born |-> "agent", by |-> "agent",
                      versions |-> Newest(MaxVersions, numbers)]
    BY DEF Imported
  <2> HIDE DEF numbers, entries
  <2>6. QED
    BY <2>2, <2>4, <2>5 DEF Items, Ids
<1>3. entries \in Seq(Items) /\ DOMAIN entries = DOMAIN incoming
  BY <1>1, <1>2
<1>4. InsertImported(incoming, items) = items \o new
  BY DEF InsertImported
<1>5. /\ new \in Seq(Items)
      /\ \A n \in DOMAIN new : \E k \in DOMAIN entries : new[n] = entries[k]
  <2>1. fresh \in SUBSET (DOMAIN entries)
    BY <1>3
  <2> HIDE DEF entries, fresh
  <2>2. QED
    BY <1>3, <2>1, OnlyFacts
<1> HIDE DEF new, entries
<1>6. \A n \in DOMAIN new : Increasing(new[n].versions)
  BY <1>2, <1>3, <1>5
<1>7. /\ items \o new \in Seq(Items) /\ Len(items \o new) = Len(items) + Len(new)
      /\ \A i \in 1..Len(items) : (items \o new)[i] = items[i]
      /\ \A i \in 1..Len(new) : (items \o new)[Len(items) + i] = new[i]
  BY <1>5, ConcatFacts DEF Good
<1>8. ASSUME NEW k \in DOMAIN (items \o new) PROVE Increasing((items \o new)[k].versions)
  <2>1. Len(items) \in Nat /\ Len(new) \in Nat /\ k \in 1..(Len(items) + Len(new))
    BY <1>5, <1>7 DEF Good
  <2>2. CASE k <= Len(items)
    BY <1>7, <2>1, <2>2 DEF Good
  <2>3. CASE k > Len(items)
    <3>1. k - Len(items) \in 1..Len(new) /\ Len(items) + (k - Len(items)) = k
      BY <2>1, <2>3
    <3>2. (items \o new)[k] = new[k - Len(items)]
      BY <1>7, <3>1
    <3>3. k - Len(items) \in DOMAIN new
      BY <1>5, <3>1
    <3>4. QED
      BY <1>6, <3>2, <3>3
  <2>4. QED
    BY <2>1, <2>2, <2>3
<1>9. Import(c, items).items = items \o new
  BY <1>4 DEF Import
<1>10. QED
  BY <1>7, <1>8, <1>9 DEF Good

\* So every operation keeps the versions of every item numbered upwards.
LEMMA OutcomeGood ==
  ASSUME NEW in \in Input, in.op = "put" => Increasing(in.versions),
         NEW r \in Requests, NEW c \in Names, NEW items, Good(items)
  PROVE  Good(Outcome(r, in, c, items).items)
<1>1. in.op = "put" => in.versions \in Seq(Nat)
  BY DEF Input
<1>2. in.op \in {"list", "create", "import", "get", "delete", "append", "put"}
  BY DEF Input
<1>3. CASE in.op \in {"list", "get"}
  BY <1>3 DEF Outcome, Kept
<1>4. CASE in.op = "create"
  BY <1>4, CreateGood DEF Outcome
<1>5. CASE in.op = "import"
  BY <1>5, ImportGood DEF Outcome
<1>6. CASE in.op = "append"
  BY <1>6, AppendToGood DEF Outcome, Changed
<1>7. CASE in.op = "put"
  BY <1>1, <1>7, PutGood DEF Outcome, Kept
<1>8. CASE in.op = "delete"
  BY <1>8, DeleteGood DEF Outcome, Kept
<1>9. QED
  BY <1>2, <1>3, <1>4, <1>5, <1>6, <1>7, <1>8

\* The files, and what was loaded from them, hold documents in order.
FilesInv ==
  /\ \A c \in Names : Good(Contents(file[c]))
  /\ \A r \in Requests : Good(seen[r])

\* A missing file holds nothing.
LEMMA NothingIsGood == Good(<<>>)
  BY EmptySeqFacts DEF Good

\* The files at first hold documents in order.
LEMMA FilesInit == Init => FilesInv
<1> SUFFICES ASSUME Init PROVE FilesInv
  OBVIOUS
<1>1. ASSUME NEW f \in StartFiles PROVE Good(Contents(f))
  <2>1. f \in Files
    OBVIOUS
  <2>2. CASE f \in {Missing, Damaged}
    BY <2>2, FileFacts, NothingIsGood
  <2>3. CASE f \in [is : {"stored"}, items : Seq(Items)]
    BY <2>3, VersionsAssumption DEF Contents, Good
  <2>4. QED
    BY <2>1, <2>2, <2>3 DEF Files
<1>2. QED
  BY <1>1, NothingIsGood DEF Init, FilesInv

\* Every step leaves them so.
LEMMA FilesStep == RegInv /\ FilesInv /\ [Next]_vars => FilesInv'
<1> SUFFICES ASSUME RegInv, FilesInv, [Next]_vars PROVE FilesInv'
  OBVIOUS
<1>1. TypeOK
  BY DEF RegInv
<1>2. ASSUME NEW r \in Requests, Enqueue(r) PROVE FilesInv'
  BY <1>2 DEF Enqueue, FilesInv, Contents, Good
<1>3. ASSUME NEW r \in Requests, Load(r) \/ LoadFails(r) PROVE FilesInv'
  <2>1. PICK c \in Names : c = Head(todo[r])
    BY <1>1, <1>3, HeadFacts DEF Load, LoadFails
  <2>2. \A d \in Names : Contents(file'[d]) = Contents(file[d])
    BY <1>1, <1>3, <2>1, FileFacts DEF Load, LoadFails, TypeOK
  <2>3. seen'[r] = Contents(file[c]) \/ seen'[r] = <<>>
    BY <1>1, <1>3, <2>1 DEF Load, LoadFails, TypeOK
  <2>4. \A q \in Requests \ {r} : seen'[q] = seen[q]
    BY <1>1, <1>3 DEF Load, LoadFails, TypeOK
  <2>5. QED
    BY <2>2, <2>3, <2>4, NothingIsGood DEF FilesInv
<1>4. ASSUME NEW r \in Requests, Finish(r) \/ SaveFails(r) PROVE FilesInv'
  <2>1. PICK c \in Names : c = Head(todo[r])
    BY <1>1, <1>4, HeadFacts DEF Finish, SaveFails
  <2> DEFINE out == Outcome(r, ask[r], c, seen[r])
  <2>2. file' = file \/ file' = [file EXCEPT ![c] = Stored(out.items)]
    BY <1>4, <2>1 DEF Finish, SaveFails
  <2>3. Good(out.items)
    <3>1. ask[r] \in Input /\ (ask[r].op = "put" => Increasing(ask[r].versions))
      BY <1>1, VersionsAssumption DEF TypeOK
    <3>2. Good(seen[r])
      BY DEF FilesInv
    <3>3. QED
      BY <2>1, <3>1, <3>2, OutcomeGood
  <2> HIDE DEF out
  <2>4. ASSUME NEW d \in Names PROVE Good(Contents(file'[d]))
    <3>1. Contents(file'[d]) = Contents(file[d]) \/ Contents(file'[d]) = out.items
      BY <1>1, <2>2, FileFacts DEF TypeOK
    <3>2. QED
      BY <2>3, <3>1 DEF FilesInv
  <2>5. \A q \in Requests : seen'[q] = seen[q] \/ seen'[q] = <<>>
    BY <1>1, <1>4 DEF Finish, SaveFails, Leave, TypeOK
  <2>6. QED
    BY <2>4, <2>5, NothingIsGood DEF FilesInv
<1>5. CASE Restart
  BY <1>5, NothingIsGood DEF Restart, FilesInv, Contents
<1>6. CASE UNCHANGED vars
  BY <1>6 DEF vars, FilesInv, Contents, Good
<1>7. QED
  BY <1>2, <1>3, <1>4, <1>5, <1>6 DEF Next

\* "headVersion always points at the newest version" (documents.ts:1-3): for any
\* number of requests, imports and restarts, the versions of every item are
\* numbered upwards and within the limit, whichever were dropped.
THEOREM VersionsInOrder == Spec => []VersionsIncrease
<1>1. FilesInv => VersionsIncrease
  BY DEF FilesInv, VersionsIncrease, Good
<1>2. QED
  BY <1>1, FilesInit, FilesStep, RegistryInvariant, PTL DEF Spec
=============================================================================
