--------------------------- MODULE UiServerProofs ---------------------------
(***************************************************************************)
(* Theorems about what the UI server stands between: the tickets of its    *)
(* WebSocket (WsTickets), the adoption of the daemon it waits for          *)
(* (DaemonAdoption), the event streams it passes through (SseStream) and   *)
(* the terminals it keeps (Pty), for every number of tickets, apps,        *)
(* processes, frames, sessions and chunks.                                 *)
(***************************************************************************)
EXTENDS WsTickets, DaemonAdoption, SseStream, Pty, SeqFacts, FiniteSetTheorems, FunctionTheorems

----------------------------------------------------------------------------
\* The tickets.

\* A ticket that is still in the Map has opened nothing.
Unused == \A t \in DOMAIN tickets : opened[t] = 0

\* A ticket presented last is gone, unless it was too early or too late.
LastAnswer ==
  /\ response.ticket <= issued
  /\ response.ticket \in DOMAIN tickets =>
       response.status = 503 \/ tickets[response.ticket] <= now

\* What every step of the ticket gate keeps.
TicketInv == TypeOK /\ OutstandingCapped /\ OneSocketPerTicket /\ Unused /\ LastAnswer

USE TicketAssumption

----------------------------------------------------------------------------
Larger(S, t) == {u \in S : u > t}

\* The elements of S with fewer than k larger ones: what pruneTickets keeps
\* by evicting the oldest.
Newest(S, k) == {t \in S : Cardinality(Larger(S, t)) < k}

\* Of two elements the smaller one has more above it.
LEMMA RankIsInjective ==
  ASSUME NEW S, S \subseteq Nat, IsFiniteSet(S), NEW t \in S, NEW v \in S, t < v
  PROVE  Cardinality(Larger(S, t)) # Cardinality(Larger(S, v))
<1>1. Larger(S, v) \subseteq Larger(S, t) /\ v \in Larger(S, t) /\ v \notin Larger(S, v)
  <2>1. \A u \in S : u \in Nat
    OBVIOUS
  <2>2. \A u \in S : u > v => u > t
    BY <2>1
  <2>3. v > t /\ ~(v > v)
    BY <2>1
  <2>4. QED
    BY <2>2, <2>3 DEF Larger
<1>2. Larger(S, t) \in SUBSET S
  BY DEF Larger
<1>3. IsFiniteSet(Larger(S, t))
  BY <1>2, FS_Subset
<1>4. QED
  BY <1>1, <1>3, FS_Subset

\* At most k elements have fewer than k larger ones.
LEMMA NewestAreFew ==
  ASSUME NEW S, S \subseteq Nat, IsFiniteSet(S), NEW k \in Nat
  PROVE  IsFiniteSet(Newest(S, k)) /\ Cardinality(Newest(S, k)) <= k
<1> DEFINE K == Newest(S, k)
           Rank == [t \in K |-> Cardinality(Larger(S, t))]
<1>1. K \subseteq S
  BY DEF Newest
<1>2. \A t \in S : Cardinality(Larger(S, t)) \in Nat
  BY FS_Subset, FS_CardinalityType DEF Larger
<1>3. Rank \in [K -> 0..(k - 1)]
  <2>1. \A t \in K : Cardinality(Larger(S, t)) < k /\ Cardinality(Larger(S, t)) \in Nat
    BY <1>1, <1>2 DEF Newest
  <2>2. \A t \in K : Cardinality(Larger(S, t)) \in 0..(k - 1)
    BY <2>1
  <2>3. QED
    BY <2>2
<1>4. ASSUME NEW t \in K, NEW v \in K, Rank[t] = Rank[v] PROVE t = v
  <2>1. t \in Nat /\ v \in Nat /\ t \in S /\ v \in S
    BY <1>1
  <2>2. ~(t < v) /\ ~(v < t)
    BY <1>4, <2>1, RankIsInjective
  <2>3. QED
    BY <2>1, <2>2
<1> HIDE DEF K, Rank
<1>5. Rank \in Injection(K, 0..(k - 1))
  BY <1>3, <1>4, Fun_IsInj
<1>6. IsFiniteSet(0..(k - 1)) /\ Cardinality(0..(k - 1)) = k
  BY FS_Interval
<1>7. IsFiniteSet(K) /\ Cardinality(K) <= k
  BY <1>5, <1>6, FS_Injection
<1>8. QED
  BY <1>7 DEF K

\* pruneTickets leaves room for one ticket, and keeps only live ones.
LEMMA PruneLeavesRoom ==
  ASSUME TypeOK, NEW at \in Nat
  PROVE  /\ PruneTickets(at) \subseteq DOMAIN tickets
         /\ IsFiniteSet(PruneTickets(at))
         /\ Cardinality(PruneTickets(at)) <= MaxPendingTickets - 1
<1> DEFINE live == {t \in DOMAIN tickets : tickets[t] > at}
<1>1. live \subseteq 1..issued /\ issued \in Nat
  BY DEF TypeOK
<1>2. IsFiniteSet(1..issued)
  BY <1>1, FS_Interval
<1>3. IsFiniteSet(live) /\ live \subseteq Nat
  BY <1>1, <1>2, FS_Subset
<1>4. MaxPendingTickets - 1 \in Nat
  OBVIOUS
<1>5. PruneTickets(at) = Newest(live, MaxPendingTickets - 1)
  BY DEF PruneTickets, Newest, Larger
<1>6. PruneTickets(at) \subseteq live
  BY <1>5 DEF Newest
<1> HIDE DEF live
<1>7. IsFiniteSet(PruneTickets(at)) /\ Cardinality(PruneTickets(at)) <= MaxPendingTickets - 1
  BY <1>3, <1>4, <1>5, NewestAreFew
<1>8. QED
  BY <1>6, <1>7 DEF live

----------------------------------------------------------------------------
\* No ticket is out at first.
LEMMA InitTicketInv == Init => TicketInv
<1> SUFFICES ASSUME Init PROVE TicketInv
  OBVIOUS
<1>1. DOMAIN tickets = {} /\ DOMAIN deadline = {} /\ DOMAIN opened = {} /\ 1..issued = {}
  BY DEF Init
<1>2. <<>> \in [{} -> Nat]
  OBVIOUS
<1>3. TypeOK
  BY <1>1, <1>2 DEF Init, TypeOK, NoResponse, NoTicket
<1>4. OutstandingCapped
  BY <1>1, FS_EmptySet DEF OutstandingCapped
<1>5. QED
  BY <1>1, <1>3, <1>4
     DEF TicketInv, OneSocketPerTicket, Unused, LastAnswer, Init, NoResponse, NoTicket

\* A new ticket finds the room pruneTickets made, and has opened nothing.
LEMMA IssueTicketInv == TicketInv /\ IssueTicket => TicketInv'
<1> SUFFICES ASSUME TicketInv, IssueTicket PROVE TicketInv'
  OBVIOUS
<1> DEFINE ticket == issued + 1
           kept == PruneTickets(now)
<1>1. TypeOK /\ now \in Nat /\ issued \in Nat /\ Expiry(now) \in Nat
  BY DEF TicketInv, TypeOK, Expiry
<1>2. /\ kept \subseteq DOMAIN tickets /\ IsFiniteSet(kept)
      /\ Cardinality(kept) <= MaxPendingTickets - 1 /\ Cardinality(kept) \in Nat
  BY <1>1, PruneLeavesRoom, FS_CardinalityType
<1>3. DOMAIN tickets \subseteq 1..issued
  BY <1>1 DEF TypeOK
<1>4. ticket \notin DOMAIN tickets
  BY <1>1, <1>3
<1>5. /\ issued' = ticket
      /\ tickets' = [t \in kept \cup {ticket} |-> IF t = ticket THEN Expiry(now) ELSE tickets[t]]
      /\ deadline' = [t \in 1..ticket |-> IF t = ticket THEN Expiry(now) ELSE deadline[t]]
      /\ opened' = [t \in 1..ticket |-> IF t = ticket THEN 0 ELSE opened[t]]
      /\ UNCHANGED <<now, ready, response>>
  BY DEF IssueTicket
<1> HIDE DEF kept
<1>6. DOMAIN tickets' = kept \cup {ticket}
  BY <1>5
<1>7. TypeOK'
  <2>1. DOMAIN tickets' \subseteq 1..issued'
    BY <1>1, <1>2, <1>3, <1>5, <1>6
  <2>2. tickets' \in [DOMAIN tickets' -> Nat]
    BY <1>1, <1>2, <1>5, <1>6 DEF TypeOK
  <2>3. deadline' \in [1..issued' -> Nat] /\ opened' \in [1..issued' -> Nat]
    <3>1. \A t \in 1..ticket : t # ticket => t \in 1..issued
      BY <1>1
    <3>2. QED
      BY <1>1, <1>5, <3>1 DEF TypeOK
  <2>4. QED
    BY <1>1, <1>5, <2>1, <2>2, <2>3 DEF TypeOK
<1>8. OutstandingCapped'
  <2>1. \/ Cardinality(kept \cup {ticket}) = Cardinality(kept)
        \/ Cardinality(kept \cup {ticket}) = Cardinality(kept) + 1
    BY <1>2, FS_AddElement
  <2>2. IsFiniteSet(kept \cup {ticket}) /\ Cardinality(kept \cup {ticket}) \in Nat
    BY <1>2, FS_AddElement, FS_CardinalityType
  <2>3. QED
    BY <1>2, <1>6, <2>1, <2>2 DEF OutstandingCapped
<1>9. OneSocketPerTicket' /\ Unused'
  <2>1. \A t \in 1..ticket : opened'[t] = IF t = ticket THEN 0 ELSE opened[t]
    BY <1>5
  <2>2. \A t \in 1..ticket : t # ticket => t \in 1..issued
    BY <1>1
  <2>3. OneSocketPerTicket'
    BY <1>5, <2>1, <2>2 DEF OneSocketPerTicket, TicketInv
  <2>4. Unused'
    BY <1>1, <1>2, <1>3, <1>6, <2>1 DEF Unused, TicketInv
  <2>5. QED
    BY <2>3, <2>4
<1>10. LastAnswer'
  <2>1. response.ticket \in Nat /\ response.ticket <= issued
    BY <1>1 DEF TypeOK, TicketInv, LastAnswer
  <2>2. response.ticket # ticket /\ response.ticket <= ticket
    BY <1>1, <2>1
  <2>3. response.ticket \in kept => tickets'[response.ticket] = tickets[response.ticket]
    BY <1>5, <2>2
  <2>4. QED
    BY <1>2, <1>5, <1>6, <2>2, <2>3 DEF TicketInv, LastAnswer
<1>11. QED
  BY <1>7, <1>8, <1>9, <1>10 DEF TicketInv

\* An upgrade takes at most its own ticket out of the Map, and opens a socket
\* only when it does.
LEMMA UpgradeTicketInv == TicketInv /\ UpgradeRequest => TicketInv'
<1> SUFFICES ASSUME TicketInv, NEW ticket \in {NoTicket} \cup 1..issued,
                    NEW later \in now..(now + 1), HandleUpgrade(ticket, later)
             PROVE  TicketInv'
  BY DEF UpgradeRequest
<1>1. /\ TypeOK /\ now \in Nat /\ issued \in Nat /\ later \in Nat /\ ticket \in Nat
      /\ now' = later /\ UNCHANGED <<ready, issued, deadline>>
  BY DEF TicketInv, TypeOK, HandleUpgrade, NoTicket
<1>2. /\ response' \in [ticket : Nat, status : {0, 101, 403, 426, 503}]
      /\ response'.ticket = ticket /\ ticket <= issued
  BY <1>1 DEF HandleUpgrade, Answer, NoTicket
<1>3. CASE UNCHANGED tickets
  <2>1. /\ UNCHANGED opened
        /\ ticket \in DOMAIN tickets => response'.status = 503 \/ tickets[ticket] <= now
    <3>1. ~RedeemTicket(ticket) \/ ticket \notin DOMAIN tickets
      BY <1>3 DEF RedeemTicket
    <3>2. ticket \in DOMAIN tickets => tickets[ticket] \in Nat
      BY <1>1 DEF TypeOK
    <3>3. QED
      BY <1>1, <3>1, <3>2 DEF HandleUpgrade, Answer, TicketValid
  <2>2. ticket \in DOMAIN tickets /\ tickets[ticket] <= now => tickets[ticket] <= later
    BY <1>1 DEF TypeOK
  <2>3. LastAnswer'
    BY <1>1, <1>2, <1>3, <2>1, <2>2 DEF LastAnswer
  <2>4. QED
    BY <1>1, <1>2, <1>3, <2>1, <2>3
       DEF TicketInv, TypeOK, OutstandingCapped, OneSocketPerTicket, Unused
<1>4. CASE ~UNCHANGED tickets
  <2>1. /\ ticket \in DOMAIN tickets /\ RedeemTicket(ticket)
        /\ UNCHANGED opened \/ opened' = [opened EXCEPT ![ticket] = @ + 1]
    BY <1>4 DEF HandleUpgrade, TicketValid
  <2>2. /\ DOMAIN tickets' = DOMAIN tickets \ {ticket}
        /\ tickets' \in [DOMAIN tickets' -> Nat]
    BY <1>1, <2>1 DEF RedeemTicket, TypeOK
  <2>3. /\ DOMAIN tickets \subseteq 1..issued /\ opened \in [1..issued -> Nat]
        /\ opened[ticket] = 0
    BY <1>1, <2>1 DEF TypeOK, TicketInv, Unused
  <2>4. /\ opened' \in [1..issued -> Nat]
        /\ \A t \in 1..issued : t # ticket => opened'[t] = opened[t]
        /\ opened'[ticket] \in {0, 1}
    <3>1. CASE UNCHANGED opened
      BY <2>3, <3>1
    <3>2. CASE opened' = [opened EXCEPT ![ticket] = @ + 1]
      <4>1. ticket \in 1..issued /\ opened'[ticket] = 1
        BY <2>1, <2>3, <3>2
      <4>2. QED
        BY <2>3, <3>2, <4>1
    <3>3. QED
      BY <2>1, <3>1, <3>2
  <2>5. TypeOK'
    BY <1>1, <1>2, <2>2, <2>3, <2>4 DEF TypeOK
  <2>6. OutstandingCapped'
    <3>1. IsFiniteSet(1..issued) /\ DOMAIN tickets \in SUBSET (1..issued)
      BY <1>1, <2>3, FS_Interval
    <3>2. IsFiniteSet(DOMAIN tickets) /\ Cardinality(DOMAIN tickets) \in Nat
      BY <3>1, FS_Subset, FS_CardinalityType
    <3>3. Cardinality(DOMAIN tickets') = Cardinality(DOMAIN tickets) - 1
      BY <2>1, <2>2, <3>2, FS_RemoveElement
    <3>4. QED
      BY <3>2, <3>3 DEF TicketInv, OutstandingCapped
  <2>7. OneSocketPerTicket' /\ Unused'
    <3>1. OneSocketPerTicket'
      BY <1>1, <2>3, <2>4 DEF TicketInv, OneSocketPerTicket
    <3>2. \A t \in DOMAIN tickets' : t # ticket /\ t \in DOMAIN tickets /\ t \in 1..issued
      BY <2>2, <2>3
    <3>3. Unused'
      BY <2>4, <3>2 DEF TicketInv, Unused
    <3>4. QED
      BY <3>1, <3>3
  <2>8. LastAnswer'
    BY <1>1, <1>2, <2>2 DEF LastAnswer
  <2>9. QED
    BY <2>5, <2>6, <2>7, <2>8 DEF TicketInv
<1>5. QED
  BY <1>3, <1>4

\* The invariant holds in every reachable state.
THEOREM TicketInvariance == Spec => []TicketInv
<1>1. TicketInv /\ [Next]_vars => TicketInv'
  <2> SUFFICES ASSUME TicketInv, [Next]_vars PROVE TicketInv'
    OBVIOUS
  <2>1. CASE DaemonAdopted \/ Tick \/ UNCHANGED vars
    <3>1. /\ UNCHANGED <<issued, tickets, deadline, opened, response>>
          /\ now \in Nat /\ now' \in Nat /\ now' >= now /\ ready' \in BOOLEAN
      <4>1. now \in Nat /\ ready \in BOOLEAN
        BY DEF TicketInv, TypeOK
      <4>2. CASE DaemonAdopted
        BY <4>1, <4>2 DEF DaemonAdopted
      <4>3. CASE Tick
        BY <4>1, <4>3 DEF Tick
      <4>4. CASE UNCHANGED vars
        BY <4>1, <4>4 DEF vars
      <4>5. QED
        BY <2>1, <4>2, <4>3, <4>4
    <3>2. TypeOK' /\ OutstandingCapped' /\ OneSocketPerTicket' /\ Unused'
      BY <3>1 DEF TicketInv, TypeOK, OutstandingCapped, OneSocketPerTicket, Unused
    <3>3. LastAnswer'
      <4>1. response.ticket \in DOMAIN tickets => tickets[response.ticket] \in Nat
        BY DEF TicketInv, TypeOK
      <4>2. QED
        BY <3>1, <4>1 DEF TicketInv, LastAnswer
    <3>4. QED
      BY <3>2, <3>3 DEF TicketInv
  <2>2. QED
    BY <2>1, IssueTicketInv, UpgradeTicketInv DEF Next
<1>2. QED
  BY <1>1, InitTicketInv, PTL DEF Spec

\* The gate's state is well typed for every limit and lifetime.
THEOREM TicketsTyped == Spec => []TypeOK
  BY TicketInvariance, PTL DEF TicketInv

\* However often a ticket is presented, before, at and after the moment the
\* daemon becomes ready, it opens at most one socket.
THEOREM SingleUse == Spec => []OneSocketPerTicket
  BY TicketInvariance, PTL DEF TicketInv

\* There are never more than MAX_PENDING_TICKETS tickets in the Map.
THEOREM Capped == Spec => []OutstandingCapped
  BY TicketInvariance, PTL DEF TicketInv

----------------------------------------------------------------------------
\* A live ticket that pruneTickets evicts was followed by as many others as
\* the Map may hold but one.
LEMMA EvictedIsOld ==
  ASSUME TypeOK, NEW t \in DOMAIN tickets, tickets[t] > now, t \notin PruneTickets(now)
  PROVE  issued - t >= MaxPendingTickets - 1
<1> DEFINE newer == {u \in {v \in DOMAIN tickets : tickets[v] > now} : u > t}
<1>1. issued \in Nat /\ t \in 1..issued /\ DOMAIN tickets \subseteq 1..issued
  BY DEF TypeOK
<1>2. \A u \in newer : u \in (t + 1)..issued
  BY <1>1
<1>3. newer \in SUBSET ((t + 1)..issued)
  BY <1>2
<1>4. /\ IsFiniteSet((t + 1)..issued)
      /\ Cardinality((t + 1)..issued) = issued - t
  <2>1. t + 1 \in Int /\ issued \in Int /\ t <= issued
    BY <1>1
  <2> DEFINE a == t + 1
  <2>2. a \in Int
    BY <1>1
  <2> HIDE DEF a
  <2>3. /\ IsFiniteSet(a..issued)
        /\ Cardinality(a..issued) = IF a > issued THEN 0 ELSE issued - a + 1
    BY <2>1, <2>2, FS_Interval
  <2>4. QED
    BY <1>1, <2>1, <2>3 DEF a
<1>5. Cardinality(newer) <= issued - t /\ Cardinality(newer) \in Nat
  BY <1>3, <1>4, FS_Subset, FS_CardinalityType
<1>6. ~(Cardinality(newer) < MaxPendingTickets - 1)
  BY DEF PruneTickets
<1>7. QED
  BY <1>1, <1>5, <1>6

\* Eviction never takes a fresh ticket: an unexpired ticket that was not
\* presented leaves the Map only when the limit's number of tickets followed.
THEOREM FreshSurvives == Spec => FreshTicketSurvives
<1>1. TicketInv /\ [Next]_vars => [FreshTicketSurvivesStep]_vars
  <2> SUFFICES ASSUME TicketInv, Next, NEW t \in DOMAIN tickets, t \notin DOMAIN tickets',
                      ~(tickets[t] <= now)
               PROVE  \/ response' # response /\ response'.ticket = t
                      \/ issued' - t >= MaxPendingTickets
    BY DEF FreshTicketSurvivesStep
  <2>1. /\ TypeOK /\ now \in Nat /\ issued \in Nat /\ tickets[t] \in Nat /\ t \in Nat
        /\ tickets[t] > now
    BY DEF TicketInv, TypeOK
  <2>2. CASE IssueTicket
    <3>1. issued' = issued + 1 /\ DOMAIN tickets' = PruneTickets(now) \cup {issued + 1}
      BY <2>2 DEF IssueTicket
    <3>2. issued - t >= MaxPendingTickets - 1
      BY <2>1, <3>1, EvictedIsOld
    <3>3. QED
      BY <2>1, <3>1, <3>2
  <2>3. CASE UpgradeRequest
    <3>1. PICK ticket \in {NoTicket} \cup 1..issued, later \in now..(now + 1) :
            HandleUpgrade(ticket, later)
      BY <2>3 DEF UpgradeRequest
    <3>2. RedeemTicket(ticket) /\ response'.ticket = ticket /\ response'.status \in {101, 403, 426}
      BY <3>1 DEF HandleUpgrade, Answer
    <3>3. t = ticket
      BY <3>2 DEF RedeemTicket
    <3>4. response.ticket = t => response.status = 503
      BY <2>1 DEF TicketInv, LastAnswer
    <3>5. QED
      BY <3>2, <3>3, <3>4
  <2>4. QED
    BY <2>2, <2>3 DEF Next, DaemonAdopted, Tick
<1>2. QED
  BY <1>1, TicketInvariance, PTL DEF Spec, FreshTicketSurvives

\* A 503 is free: while the daemon is not ready, only issuing a new ticket
\* takes tickets out of the Map.
THEOREM RetryKeepsTicket == Spec => NotReadyKeepsTicket
<1>1. TicketInv /\ [Next]_vars => [~ready /\ issued' = issued => tickets' = tickets]_vars
  <2> SUFFICES ASSUME TicketInv, Next, ~ready, issued' = issued PROVE tickets' = tickets
    OBVIOUS
  <2>1. issued \in Nat
    BY DEF TicketInv, TypeOK
  <2>2. ~IssueTicket
    BY <2>1 DEF IssueTicket
  <2>3. QED
    BY <2>2 DEF Next, UpgradeRequest, HandleUpgrade, DaemonAdopted, Tick
<1>2. QED
  BY <1>1, TicketInvariance, PTL DEF Spec, NotReadyKeepsTicket

----------------------------------------------------------------------------
\* The adoption of the daemon.

HIDE TicketAssumption
USE AdoptionAssumption

\* What makes it inductive: the token comes with the verdict.
NoTokenYet ==
  \A a \in Apps : handlePhase[a] \in {"off", "probing", "polling"} => ~token[a] /\ driven[a] = {}

\* What every step of the adoption keeps.
AdoptionInv == AdoptionTypeOK /\ NoTokenYet

\* No app runs at first.
LEMMA AdoptionStarts == AdoptionInit => AdoptionInv
  BY AdoptionAssumption
     DEF AdoptionInit, AdoptionInv, AdoptionTypeOK, NoTokenYet, Processes, Kinds,
         Modes

\* A process that is started, by an app or by anybody else.
LEMMA StartProcessTyped ==
  ASSUME AdoptionTypeOK, NEW k \in Kinds, StartProcess(k)
  PROVE  /\ started' \in 0..MaxProcesses /\ kind' \in [Processes -> Kinds]
         /\ process' \in [Processes -> {"starting", "listening", "gone"}]
  BY AdoptionAssumption DEF AdoptionTypeOK, StartProcess, Processes

\* The verdict of one app.
LEMMA SettleKeeps ==
  ASSUME AdoptionInv, NEW a \in Apps, NEW m \in Modes, Settle(a, m),
         UNCHANGED <<osVars, polls, shown, driven>>
  PROVE  AdoptionInv'
  BY DEF AdoptionInv, AdoptionTypeOK, NoTokenYet, Settle, osVars

\* An app that goes on without a verdict, or quits.
LEMMA PhaseKeeps ==
  ASSUME AdoptionInv, NEW a \in Apps,
         NEW p \in {"off", "probing", "polling", "settled", "quit"},
         handlePhase' = [handlePhase EXCEPT ![a] = p],
         p \in {"probing", "polling"} => handlePhase[a] \in {"off", "probing", "polling"},
         UNCHANGED <<mode, token, polls, shown, driven>>,
         /\ started' \in 0..MaxProcesses /\ kind' \in [Processes -> Kinds]
         /\ process' \in [Processes -> {"starting", "listening", "gone"}],
         p # "off"
  PROVE  AdoptionInv'
  BY DEF AdoptionInv, AdoptionTypeOK, NoTokenYet

\* A step of one app's adoption.
LEMMA AdoptingKeeps ==
  ASSUME AdoptionInv, NEW a \in Apps, Adopting(a)
  PROVE  AdoptionInv'
<1> USE DEF Modes
<1>1. CASE Adopt(a)
  BY <1>1, SettleKeeps DEF Adopt
<1>2. CASE Spawn(a)
  <2>1. PICK k \in Kinds : StartProcess(k)
    BY <1>2 DEF Spawn, Kinds
  <2>2. /\ started' \in 0..MaxProcesses /\ kind' \in [Processes -> Kinds]
        /\ process' \in [Processes -> {"starting", "listening", "gone"}]
    BY <2>1, StartProcessTyped DEF AdoptionInv
  <2>3. QED
    BY <1>2, <2>2, PhaseKeeps DEF Spawn
<1>3. CASE NoBinary(a)
  BY <1>3, SettleKeeps DEF NoBinary
<1>4. CASE PollAnswered(a)
  BY <1>4, SettleKeeps DEF PollAnswered
<1>5. CASE PollUnanswered(a)
  BY <1>5, AdoptionAssumption
     DEF PollUnanswered, AdoptionInv, AdoptionTypeOK, NoTokenYet, osVars
<1>6. CASE DeadlinePassed(a)
  BY <1>6, SettleKeeps DEF DeadlinePassed
<1>7. QED
  BY <1>1, <1>2, <1>3, <1>4, <1>5, <1>6 DEF Adopting

\* Every step keeps the invariant.
LEMMA AdoptionStep == AdoptionInv /\ [AdoptionNext]_adoptionVars => AdoptionInv'
<1> SUFFICES ASSUME AdoptionInv, [AdoptionNext]_adoptionVars PROVE AdoptionInv'
  OBVIOUS
<1> USE DEF osVars, handleVars
<1>1. CASE OtherStarts
  <2>1. PICK k \in Kinds : StartProcess(k)
    BY <1>1 DEF OtherStarts
  <2>2. UNCHANGED <<handleVars, shown, driven>>
    BY <1>1 DEF OtherStarts
  <2>3. QED
    BY <2>1, <2>2, StartProcessTyped DEF AdoptionInv, AdoptionTypeOK, NoTokenYet
<1>2. ASSUME NEW p \in Processes, Binds(p) \/ Dies(p) PROVE AdoptionInv'
  BY <1>2 DEF Binds, Dies, AdoptionInv, AdoptionTypeOK, NoTokenYet
<1>3. ASSUME NEW a \in Apps, Launch(a) PROVE AdoptionInv'
  BY <1>3, PhaseKeeps DEF Launch, AdoptionInv, AdoptionTypeOK
<1>4. ASSUME NEW a \in Apps, Adopting(a) PROVE AdoptionInv'
  BY <1>4, AdoptingKeeps
<1>5. ASSUME NEW a \in Apps, Quit(a) PROVE AdoptionInv'
  BY <1>5, PhaseKeeps DEF Quit, AdoptionInv, AdoptionTypeOK
<1>6. ASSUME NEW a \in Apps, Proxy(a) PROVE AdoptionInv'
  BY <1>6 DEF Proxy, Running, Listening, AdoptionInv, AdoptionTypeOK, NoTokenYet
<1>7. ASSUME NEW a \in Apps, FetchHealth(a) PROVE AdoptionInv'
  BY <1>7 DEF FetchHealth, AdoptionInv, AdoptionTypeOK, NoTokenYet
<1>8. CASE UNCHANGED adoptionVars
  BY <1>8 DEF adoptionVars, AdoptionInv, AdoptionTypeOK, NoTokenYet
<1>9. QED
  BY <1>1, <1>2, <1>3, <1>4, <1>5, <1>6, <1>7, <1>8 DEF AdoptionNext

\* Hence it always holds.
LEMMA AdoptionInvariance == AdoptionSpec => []AdoptionInv
  BY AdoptionStarts, AdoptionStep, PTL DEF AdoptionSpec, AdoptionSafeSpec

\* Every reachable state of the adoption is well typed.
THEOREM AdoptionTyped == AdoptionSpec => []AdoptionTypeOK
<1>1. AdoptionInv => AdoptionTypeOK
  BY DEF AdoptionInv
<1>2. QED
  BY <1>1, AdoptionInvariance, PTL

\* However many apps and daemons race, no request of an app is proxied before
\* that app came to its verdict (index.ts:29-30, ui-server.ts:62).
THEOREM RequestsWait == AdoptionSpec => []RequestsWaitForAdoption
<1>1. AdoptionInv => RequestsWaitForAdoption
  BY DEF AdoptionInv, NoTokenYet, RequestsWaitForAdoption
<1>2. QED
  BY <1>1, AdoptionInvariance, PTL

----------------------------------------------------------------------------
(***************************************************************************)
(* The event stream.  What makes its theorems inductive is where the       *)
(* parser is while the stream is open: it has read some pieces of a frame  *)
(* and, unless a heartbeat cut that frame, it holds what they say          *)
(* (Holding), or nothing where a heartbeat ended the frame right after its *)
(* data.  What it holds is of that frame and no other, cut or not, so that *)
(* what a cut frame leaves behind is gone with its blank line.             *)
(***************************************************************************)

HIDE AdoptionAssumption
USE StreamAssumption

\* The frame being read, how many of its pieces were, and the last one given
\* to the view.
Current == FrameAfter(parsed)
Read == parsed % FrameLength
Latest == missed + Len(received)

\* What p holds after the first k pieces of frame n, none of which was cut.
Holding(p, n, k) ==
  /\ p.line = IF k \in {1, 3, 5} THEN Line[k] ELSE "none"
  /\ k >= 2 => p.id = n
  /\ k <= 3 => p.event = Absent
  /\ k <= 5 => p.data = Absent
  /\ k \in {4, 5} => p.event = n
  /\ k = 6 => p.event = p.data /\ p.event \in {Absent, n}

\* What p holds after the first k pieces of frame n, cut or not.
Within(p, n, k) ==
  /\ p.event \in {Absent, Garbled, n} /\ p.data \in {Absent, Garbled, n}
  /\ k \in {0, 2, 4, 6} => p.line = "none"
  /\ k = 0 => p.event = Absent /\ p.data = Absent

ParserInv ==
  phase = "open" => /\ Within(parser, Current, Read)
                    /\ Current \in cut \/ Holding(parser, Current, Read)

\* A frame as it was handed to the view: whole, unless a heartbeat cut it.
Handed(frame) ==
  /\ frame \in [id : -1..published, event : -1..published, data : -1..published]
  /\ \A n \in (1..published) \ cut :
       n \in {frame.event, frame.data} => frame = WholeFrame(n)

Frame == [id : Int, event : Int, data : Int]

ReceivedInv ==
  received \in Seq(Frame) /\ \A i \in 1..Len(received) : Handed(received[i])

\* While no frame was cut: which frames were handed over, and which is next.
InOrder ==
  /\ \A i \in 1..Len(received) : received[i] = WholeFrame(missed + i)
  /\ Latest <= published
  /\ lastEventId = IF received = <<>> THEN NoId ELSE Latest
  /\ phase = "open" =>
       Latest = IF Read = 6 /\ parser.event = Absent THEN Current ELSE Current - 1

OrderInv == cut = {} => InOrder

\* What every step of the stream keeps.
SseInv == StreamTypeOK /\ ParserInv /\ ReceivedInv /\ OrderInv

----------------------------------------------------------------------------
\* Frames and their pieces.
LEMMA Pieces ==
  ASSUME NEW p \in Nat
  PROVE  /\ FrameAfter(p) \in Nat \ {0} /\ p % FrameLength \in 0..6
         /\ p = FrameLength * (FrameAfter(p) - 1) + (p % FrameLength)
         /\ PlaceAfter(p) = (p % FrameLength) + 1
         /\ p % FrameLength < 6 => /\ FrameAfter(p + 1) = FrameAfter(p)
                                   /\ (p + 1) % FrameLength = (p % FrameLength) + 1
         /\ p % FrameLength = 6 => /\ FrameAfter(p + 1) = FrameAfter(p) + 1
                                   /\ (p + 1) % FrameLength = 0
BY DEF FrameAfter, PlaceAfter, FrameLength

\* Where a frame starts.
LEMMA FrameStarts ==
  ASSUME NEW f \in Nat
  PROVE  /\ FrameLength * f \in Nat
         /\ FrameAfter(FrameLength * f) = f + 1 /\ (FrameLength * f) % FrameLength = 0
BY DEF FrameAfter, FrameLength

\* A piece that was sent is of a frame that was published.
LEMMA WithinPublished ==
  ASSUME NEW p \in Nat, NEW f \in Nat,
         \/ p < FrameLength * f
         \/ p <= FrameLength * f /\ p % FrameLength # 0
  PROVE  FrameAfter(p) \in 1..f
<1>1. p = FrameLength * (FrameAfter(p) - 1) + (p % FrameLength) /\ FrameAfter(p) \in Nat \ {0}
      /\ p % FrameLength \in 0..6
  BY Pieces
<1> DEFINE n == FrameAfter(p)
           k == p % FrameLength
<1>2. p = 7 * (n - 1) + k /\ n \in Nat \ {0} /\ k \in 0..6
  BY <1>1 DEF FrameLength
<1>3. p < 7 * f \/ (p <= 7 * f /\ k # 0)
  BY DEF FrameLength
<1> HIDE DEF n, k
<1>4. n \in 1..f
  BY <1>2, <1>3
<1>5. QED
  BY <1>4 DEF n

\* The types, one by one.
LEMMA TypeFacts ==
  ASSUME SseInv
  PROVE  /\ published \in 0..MaxFrames /\ published \in Nat
         /\ missed \in 0..published /\ missed \in Nat
         /\ parsed \in Nat /\ relayed \in Nat
         /\ parsed <= relayed /\ relayed <= FrameLength * published
         /\ lastEventId \in -1..published
         /\ received \in Seq(Frame) /\ Len(received) \in Nat
<1> USE DEF SseInv
<1>1. published \in 0..MaxFrames /\ missed \in 0..published
  BY DEF StreamTypeOK
<1>2. parsed \in Nat /\ relayed \in Nat
  BY DEF StreamTypeOK
<1>3. parsed <= relayed /\ relayed <= FrameLength * published
  BY DEF StreamTypeOK
<1>4. lastEventId \in -1..published
  BY DEF StreamTypeOK
<1>5. received \in Seq(Frame)
  BY DEF ReceivedInv
<1>6. QED
  BY <1>1, <1>2, <1>3, <1>4, <1>5

\* What is published stays so.
LEMMA StaysHanded ==
  ASSUME ReceivedInv, published \in Nat, published' = published \/ published' = published + 1,
         cut \subseteq cut', received' = received
  PROVE  ReceivedInv'
<1> SUFFICES ASSUME NEW i \in 1..Len(received) PROVE Handed(received[i])'
  BY DEF ReceivedInv
<1>1. Handed(received[i]) /\ received[i] \in Frame
  BY DEF ReceivedInv
<1>2. received[i].id \in -1..published' /\ received[i].event \in -1..published
      /\ received[i].data \in -1..published
  BY <1>1 DEF Handed
<1>3. received[i] \in [id : -1..published', event : -1..published', data : -1..published']
  BY <1>1 DEF Handed
<1>4. ASSUME NEW n \in (1..published') \ cut', n \in {received[i].event, received[i].data}
      PROVE  received[i] = WholeFrame(n)
  <2>1. n \in 1..published /\ n \notin cut
    BY <1>2, <1>4
  <2>2. QED
    BY <1>1, <1>4, <2>1 DEF Handed
<1>5. QED
  BY <1>3, <1>4 DEF Handed, WholeFrame

----------------------------------------------------------------------------
\* The end of a frame, by a blank line or a heartbeat.

\* What a dispatch hands over is typed, and whole unless its frame was cut.
LEMMA DispatchKeeps ==
  ASSUME SseInv, published' = published, missed' = missed, cut \subseteq cut',
         NEW n \in Int, NEW p \in ParserState,
         p.event \in {Absent, Garbled, n}, p.data \in {Absent, Garbled, n},
         p.event # Absent \/ p.data # Absent =>
           /\ n \in cut' \/ (p.id = n /\ p.event = n /\ p.data = n)
           /\ cut' = {} => Latest = n - 1 /\ n \in 1..published,
         Dispatch(p)
  PROVE  /\ parser' = [p EXCEPT !.event = Absent, !.data = Absent]
         /\ lastEventId' \in -1..published
         /\ ReceivedInv'
         /\ cut' = {} =>
              /\ \A i \in 1..Len(received') : received'[i] = WholeFrame(missed + i)
              /\ Latest' <= published
              /\ lastEventId' = IF received' = <<>> THEN NoId ELSE Latest'
              /\ Latest' = IF p.event = Absent /\ p.data = Absent THEN Latest ELSE n
<1>0. published \in Nat /\ missed \in Nat /\ lastEventId \in -1..published
      /\ received \in Seq(Frame) /\ Len(received) \in Nat
  BY TypeFacts
<1>p. p.id \in -1..published /\ p.event \in -1..published /\ p.data \in -1..published
  BY DEF ParserState
<1>1. CASE p.event = Absent /\ p.data = Absent
  <2>1. UNCHANGED <<lastEventId, received>>
        /\ parser' = [p EXCEPT !.event = Absent, !.data = Absent]
    BY <1>1 DEF Dispatch
  <2>2. ReceivedInv'
    BY <2>1, <1>0, StaysHanded DEF SseInv
  <2>3. Latest' = Latest /\ (cut' = {} => cut = {})
    BY <2>1 DEF Latest
  <2>4. QED
    BY <2>1, <2>2, <2>3, <1>0, <1>1 DEF SseInv, OrderInv, InOrder
<1>2. CASE ~(p.event = Absent /\ p.data = Absent)
  <2> DEFINE frame == [id |-> p.id, event |-> p.event, data |-> p.data]
  <2>1. /\ received' = Append(received, frame)
        /\ lastEventId' = IF p.id = NoId THEN lastEventId ELSE p.id
        /\ parser' = [p EXCEPT !.event = Absent, !.data = Absent]
    BY <1>2 DEF Dispatch
  <2>2. frame \in [id : -1..published, event : -1..published, data : -1..published]
        /\ frame.id = p.id /\ frame.event = p.event /\ frame.data = p.data
    BY <1>p
  <2>3. frame \in Frame
    BY <2>2, <1>0 DEF Frame
  <2>4. /\ n \in cut' \/ (frame = WholeFrame(n) /\ p.id = n)
        /\ cut' = {} => Latest = n - 1 /\ n \in 1..published
    BY <1>2 DEF WholeFrame
  <2>5. Handed(frame)'
    <3>1. ASSUME NEW m \in (1..published) \ cut', m \in {frame.event, frame.data}
          PROVE  frame = WholeFrame(m)
      <4>1. m = n
        BY <3>1, <2>2, <1>0 DEF Absent, Garbled
      <4>2. QED
        BY <4>1, <3>1, <2>4
    <3> HIDE DEF frame
    <3>2. QED
      BY <3>1, <2>2 DEF Handed, WholeFrame
  <2> HIDE DEF frame
  <2>6. /\ received' \in Seq(Frame)
        /\ Len(received') = Len(received) + 1 /\ Len(received) \in Nat
        /\ received'[Len(received) + 1] = frame /\ received' # <<>>
        /\ \A i \in 1..Len(received) : received'[i] = received[i]
    BY <2>1, <2>3, <1>0, AppendFacts, EmptySeqFacts
  <2>7. ReceivedInv'
    <3>1. ASSUME NEW f, Handed(f) PROVE Handed(f)'
      BY <3>1 DEF Handed, WholeFrame
    <3>2. ASSUME NEW i \in 1..Len(received')
          PROVE  \E f : received'[i] = f /\ Handed(f)'
      <4>1. i \in 1..Len(received) \/ i = Len(received) + 1
        BY <2>6
      <4>2. CASE i \in 1..Len(received)
        <5>1. Handed(received[i]) /\ received'[i] = received[i]
          BY <4>2, <2>6 DEF SseInv, ReceivedInv
        <5>2. QED
          BY <5>1, <3>1
      <4>3. CASE i = Len(received) + 1
        BY <4>3, <2>5, <2>6
      <4>4. QED
        BY <4>1, <4>2, <4>3
    <3>3. ASSUME NEW i \in 1..Len(received') PROVE Handed(received[i])'
      BY <3>2 DEF Handed, WholeFrame
    <3>4. QED
      BY <3>3, <2>6 DEF ReceivedInv
  <2>8. lastEventId' \in -1..published
    BY <2>1, <1>0, <1>p
  <2>9. ASSUME cut' = {}
        PROVE  /\ \A i \in 1..Len(received') : received'[i] = WholeFrame(missed + i)
               /\ Latest' = n /\ Latest' <= published
               /\ lastEventId' = Latest'
    <3>1. cut = {} /\ frame = WholeFrame(n) /\ missed + Len(received) = n - 1 /\ n \in 1..published
          /\ p.id = n
      BY <2>9, <2>4 DEF Latest
    <3>2. Latest' = n
      BY <3>1, <2>6, <1>0 DEF Latest
    <3>3. lastEventId' = n
      BY <3>1, <2>1 DEF NoId, Absent
    <3>4. ASSUME NEW i \in 1..Len(received') PROVE received'[i] = WholeFrame(missed + i)
      <4>1. CASE i \in 1..Len(received)
        BY <4>1, <3>1, <2>6 DEF SseInv, OrderInv, InOrder
      <4>2. CASE i = Len(received) + 1
        <5>1. missed + i = n
          BY <4>2, <3>1, <2>6, <1>0
        <5>2. QED
          BY <5>1, <4>2, <3>1, <2>6
      <4>3. QED
        BY <4>1, <4>2, <2>6
    <3>5. QED
      BY <3>1, <3>2, <3>3, <3>4
  <2>10. QED
    BY <2>1, <2>6, <2>7, <2>8, <2>9, <1>2
<1>3. QED
  BY <1>1, <1>2

----------------------------------------------------------------------------
\* A step at a time.
\* A new parser.
LEMMA ParserStarts ==
  ASSUME published \in Nat
  PROVE  /\ NewParser \in ParserState /\ NewParser.line = "none"
         /\ NewParser.event = Absent /\ NewParser.data = Absent
BY DEF NewParser, ParserState, Absent

\* Nothing was published at first.
LEMMA SseInit == StreamInit => SseInv
<1> SUFFICES ASSUME StreamInit PROVE SseInv
  OBVIOUS
<1>1. /\ published = 0 /\ relayed = 0 /\ beats = {} /\ heartbeats = 0 /\ breaks = 0
      /\ phase = "connecting" /\ parsed = 0 /\ lastEventId = 0 /\ received = <<>>
      /\ missed = 0 /\ cut = {} /\ parser = NewParser
  BY DEF StreamInit, NoId, Absent
<1>2. parser \in ParserState
  BY <1>1, ParserStarts
<1>3. StreamTypeOK
  <2>1. published \in 0..MaxFrames /\ missed \in 0..published /\ lastEventId \in -1..published
    BY <1>1
  <2>2. parsed \in Nat /\ relayed \in Nat /\ parsed <= relayed /\ relayed <= FrameLength * published
    BY <1>1 DEF FrameLength
  <2>3. heartbeats \in 0..MaxHeartbeats /\ breaks \in 0..MaxBreaks
    BY <1>1
  <2>4. QED
    BY <1>1, <1>2, <2>1, <2>2, <2>3 DEF StreamTypeOK
<1>4. Len(received) = 0 /\ received \in Seq(Frame)
  BY <1>1, EmptySeqFacts
<1>5. ReceivedInv
  BY <1>4 DEF ReceivedInv
<1>6. ParserInv /\ OrderInv
  <2>1. Latest = 0
    BY <1>1, <1>4 DEF Latest
  <2>2. QED
    BY <1>1, <1>4, <2>1 DEF ParserInv, OrderInv, InOrder, NoId, Absent
<1>7. QED
  BY <1>3, <1>5, <1>6 DEF SseInv

\* Steps away from the parser.
LEMMA ParserAside ==
  ASSUME SseInv,
         UNCHANGED <<parsed, parser, lastEventId, received, missed, cut>>,
         phase' = phase \/ phase' # "open",
         published' = published \/ published' = published + 1
  PROVE  /\ parser' \in ParserState' /\ lastEventId' \in -1..published'
         /\ missed' \in 0..published' /\ cut' \subseteq 1..published'
         /\ ParserInv' /\ ReceivedInv' /\ OrderInv'
<1>0. published \in Nat /\ missed \in 0..published /\ lastEventId \in -1..published
      /\ Len(received) \in Nat
  BY TypeFacts
<1>1. parser' \in ParserState'
  <2>1. parser \in ParserState
    BY DEF SseInv, StreamTypeOK
  <2>2. -1..published \subseteq -1..published'
    BY <1>0
  <2>3. QED
    BY <2>1, <2>2 DEF ParserState
<1>2. cut' \subseteq 1..published'
  <2>1. cut \subseteq 1..published
    BY DEF SseInv, StreamTypeOK
  <2>2. QED
    BY <2>1, <1>0
<1>3. ReceivedInv'
  BY <1>0, StaysHanded DEF SseInv
<1>4. ParserInv'
  BY DEF SseInv, ParserInv, Current, Read, Within, Holding
<1>5. Latest' = Latest /\ Latest \in Int
  BY <1>0 DEF Latest
<1>6. OrderInv'
  <2> SUFFICES ASSUME cut' = {} PROVE InOrder'
    BY DEF OrderInv
  <2>1. InOrder
    BY DEF SseInv, OrderInv, InOrder
  <2>2. QED
    BY <2>1, <1>0, <1>5 DEF InOrder, Read, Current
<1>7. QED
  BY <1>0, <1>1, <1>2, <1>3, <1>4, <1>6

\* The daemon publishes a frame.
LEMMA PublishStep == SseInv /\ DaemonPublishes => SseInv'
<1> SUFFICES ASSUME SseInv, DaemonPublishes PROVE SseInv'
  OBVIOUS
<1>1. /\ published < MaxFrames /\ published' = published + 1
      /\ UNCHANGED <<relayed, beats, heartbeats, breaks, phase, parsed, parser,
                     lastEventId, received, missed, cut>>
  BY DEF DaemonPublishes, proxyVars, clientVars, historyVars
<1>2. /\ parser' \in ParserState' /\ lastEventId' \in -1..published'
      /\ missed' \in 0..published' /\ cut' \subseteq 1..published'
      /\ ParserInv' /\ ReceivedInv' /\ OrderInv'
  BY <1>1, ParserAside
<1>3. published' \in 0..MaxFrames /\ relayed' <= FrameLength * published'
  BY <1>1, TypeFacts DEF FrameLength
<1>4. StreamTypeOK'
  BY <1>1, <1>2, <1>3 DEF SseInv, StreamTypeOK
<1>5. QED
  BY <1>2, <1>4 DEF SseInv

\* A piece is relayed, wherever the chunk ends.
LEMMA ProxyStep == SseInv /\ ProxyReads => SseInv'
<1> SUFFICES ASSUME SseInv, ProxyReads PROVE SseInv'
  OBVIOUS
<1>1. /\ relayed < FrameLength * published /\ relayed' = relayed + 1 /\ phase = "open"
      /\ UNCHANGED <<published, beats, heartbeats, breaks, phase, parsed, parser,
                     lastEventId, received, missed, cut>>
  BY DEF ProxyReads, clientVars, historyVars
<1>2. /\ parser' \in ParserState' /\ lastEventId' \in -1..published'
      /\ missed' \in 0..published' /\ cut' \subseteq 1..published'
      /\ ParserInv' /\ ReceivedInv' /\ OrderInv'
  BY <1>1, ParserAside
<1>3. /\ relayed' \in Nat /\ parsed' <= relayed' /\ relayed' <= FrameLength * published'
      /\ beats' \subseteq parsed'..relayed'
  <2>1. beats \subseteq parsed..relayed
    BY DEF SseInv, StreamTypeOK
  <2>2. QED
    BY <1>1, <2>1, TypeFacts DEF FrameLength
<1>4. StreamTypeOK'
  BY <1>1, <1>2, <1>3 DEF SseInv, StreamTypeOK
<1>5. QED
  BY <1>2, <1>4 DEF SseInv

\* The timer injects a heartbeat, wherever the relay stands.
LEMMA InjectStep == SseInv /\ InjectHeartbeat => SseInv'
<1> SUFFICES ASSUME SseInv, InjectHeartbeat PROVE SseInv'
  OBVIOUS
<1>1. /\ heartbeats < MaxHeartbeats /\ heartbeats' = heartbeats + 1 /\ phase = "open"
      /\ beats' = beats \union {relayed}
      /\ UNCHANGED <<published, relayed, breaks, phase, parsed, parser,
                     lastEventId, received, missed, cut>>
  BY DEF InjectHeartbeat, clientVars, historyVars
<1>2. /\ parser' \in ParserState' /\ lastEventId' \in -1..published'
      /\ missed' \in 0..published' /\ cut' \subseteq 1..published'
      /\ ParserInv' /\ ReceivedInv' /\ OrderInv'
  BY <1>1, ParserAside
<1>3. beats' \subseteq parsed'..relayed'
  <2>1. beats \subseteq parsed..relayed
    BY DEF SseInv, StreamTypeOK
  <2>2. relayed \in parsed..relayed
    BY TypeFacts
  <2>3. QED
    BY <1>1, <2>1, <2>2
<1>4. heartbeats' \in 0..MaxHeartbeats
  <2>1. heartbeats \in 0..MaxHeartbeats
    BY DEF SseInv, StreamTypeOK
  <2>2. QED
    BY <1>1, <2>1
<1>5. StreamTypeOK'
  BY <1>1, <1>2, <1>3, <1>4 DEF SseInv, StreamTypeOK
<1>6. QED
  BY <1>2, <1>5 DEF SseInv

\* A failed fetch, a broken or ended stream, the timer, dispose.
LEMMA CloseStep ==
  ASSUME SseInv, FetchFails \/ StreamBreaks \/ StreamEnds \/ TimerFires \/ Dispose
  PROVE  SseInv'
<1>1. /\ phase' \in {"connecting", "waiting", "disposed"}
      /\ relayed' = parsed /\ beats' = {}
      /\ UNCHANGED <<published, heartbeats, parsed, parser, lastEventId, received, missed, cut>>
  BY DEF FetchFails, StreamBreaks, StreamEnds, ScheduleReconnect, TimerFires, Dispose,
         SseInv, StreamTypeOK, historyVars, proxyVars
<1>2. breaks' \in 0..MaxBreaks
  <2>1. breaks \in 0..MaxBreaks
    BY DEF SseInv, StreamTypeOK
  <2>2. breaks' = breaks \/ (breaks < MaxBreaks /\ breaks' = breaks + 1)
    BY DEF FetchFails, StreamBreaks, StreamEnds, ScheduleReconnect, TimerFires, Dispose
  <2>3. QED
    BY <2>1, <2>2
<1>3. /\ parser' \in ParserState' /\ lastEventId' \in -1..published'
      /\ missed' \in 0..published' /\ cut' \subseteq 1..published'
      /\ ParserInv' /\ ReceivedInv' /\ OrderInv'
  BY <1>1, ParserAside
<1>4. relayed' \in Nat /\ parsed' <= relayed' /\ relayed' <= FrameLength * published'
  BY <1>1, TypeFacts DEF FrameLength
<1>5. StreamTypeOK'
  BY <1>1, <1>2, <1>3, <1>4 DEF SseInv, StreamTypeOK
<1>6. QED
  BY <1>3, <1>5 DEF SseInv

\* A new connect starts after the last frame handed over, if it names one.
LEMMA FetchStep == SseInv /\ FetchSucceeds => SseInv'
<1> SUFFICES ASSUME SseInv, FetchSucceeds PROVE SseInv'
  OBVIOUS
<1>1. PICK from \in StartsAfter(lastEventId) :
        /\ relayed' = FrameLength * from /\ parsed' = FrameLength * from
        /\ missed' = IF lastEventId \in 1..published THEN missed ELSE from
  BY DEF FetchSucceeds, ResumeFrom
<1>2. /\ phase = "connecting" /\ phase' = "open" /\ parser' = NewParser
      /\ UNCHANGED <<published, beats, heartbeats, breaks, lastEventId, received, cut>>
  BY DEF FetchSucceeds
<1>3. published \in Nat /\ missed \in 0..published /\ Len(received) \in Nat
  BY TypeFacts
<1>4. from \in 0..published /\ (lastEventId \in 1..published => from = lastEventId)
  BY <1>3 DEF StartsAfter
<1>5. /\ parsed' \in Nat /\ relayed' = parsed' /\ relayed' <= FrameLength * published'
      /\ FrameAfter(parsed') = from + 1 /\ parsed' % FrameLength = 0
  <2>1. FrameLength * from \in Nat /\ FrameLength * from <= FrameLength * published
    BY <1>3, <1>4 DEF FrameLength
  <2>2. from \in Nat
    BY <1>4
  <2>3. QED
    BY <1>1, <1>2, <2>1, <2>2, FrameStarts
<1>6. parser' \in ParserState'
  BY <1>2, <1>3, ParserStarts DEF ParserState
<1>7. StreamTypeOK'
  <2>1. missed' \in 0..published' /\ beats' = {}
    BY <1>1, <1>2, <1>3, <1>4 DEF SseInv, StreamTypeOK
  <2>2. QED
    BY <1>2, <1>5, <1>6, <2>1 DEF SseInv, StreamTypeOK
<1>8. Current' = from + 1 /\ Read' = 0
  BY <1>5 DEF Current, Read
<1>9. ParserInv'
  <2>1. Within(NewParser, from + 1, 0) /\ Holding(NewParser, from + 1, 0)
    BY <1>3, ParserStarts DEF Within, Holding
  <2>2. QED
    BY <2>1, <1>2, <1>8 DEF ParserInv
<1>10. ReceivedInv'
  BY <1>2, <1>3, StaysHanded DEF SseInv
<1>11. OrderInv'
  <2> SUFFICES ASSUME cut' = {} PROVE InOrder'
    BY DEF OrderInv
  <2>1. /\ \A i \in 1..Len(received) : received[i] = WholeFrame(missed + i)
        /\ Latest <= published
        /\ lastEventId = IF received = <<>> THEN NoId ELSE Latest
    BY <1>2 DEF SseInv, OrderInv, InOrder
  <2>2. received = <<>> <=> Len(received) = 0
    BY TypeFacts, EmptySeqFacts
  <2>3. CASE received = <<>>
    <3>1. missed' = from /\ Latest' = from
      BY <1>1, <1>2, <1>4, <2>1, <2>2, <2>3 DEF Latest, NoId, Absent
    <3>2. QED
      BY <3>1, <1>2, <1>4, <1>8, <2>1, <2>2, <2>3 DEF InOrder
  <2>4. CASE received # <<>>
    <3>1. lastEventId = Latest /\ Latest \in 1..published
      BY <1>3, <2>1, <2>2, <2>4 DEF Latest
    <3>2. missed' = missed /\ from = Latest /\ Latest' = Latest
      BY <3>1, <1>1, <1>2, <1>4 DEF Latest
    <3>3. QED
      BY <3>1, <3>2, <1>2, <1>8, <2>1, <2>4 DEF InOrder
  <2>5. QED
    BY <2>3, <2>4
<1>12. QED
  BY <1>7, <1>9, <1>10, <1>11 DEF SseInv

\* What a dispatch leaves of the parser.
LEMMA AfterDispatch ==
  ASSUME published \in Nat, published' = published, NEW p \in ParserState,
         NEW q, q = [p EXCEPT !.event = Absent, !.data = Absent]
  PROVE  /\ q \in ParserState' /\ q.line = p.line /\ q.id = p.id
         /\ q.event = Absent /\ q.data = Absent
<1>1. Absent \in -1..published
  BY DEF Absent
<1>2. [p EXCEPT !.event = Absent, !.data = Absent] \in ParserState
  BY <1>1 DEF ParserState
<1>3. ParserState' = ParserState
  BY DEF ParserState
<1>4. q.line = p.line /\ q.id = p.id /\ q.event = Absent /\ q.data = Absent
  BY DEF ParserState
<1>5. QED
  BY <1>2, <1>3, <1>4

\* A piece of a frame, up to its last line.
LEMMA ReadInside ==
  ASSUME SseInv, WebviewReads, Read < 6
  PROVE  SseInv'
<1> DEFINE n == Current
           k == Read
<1>1. /\ phase = "open" /\ parsed < relayed /\ parsed' = parsed + 1
      /\ FeedPiece(FrameAfter(parsed), PlaceAfter(parsed))
      /\ UNCHANGED <<published, relayed, beats, heartbeats, breaks, phase, missed, cut>>
      /\ parsed \notin beats
  BY DEF WebviewReads, proxyVars, historyVars
<1>2. /\ n \in 1..published /\ n \in Nat \ {0} /\ k \in 0..5
      /\ PlaceAfter(parsed) = k + 1 /\ Current' = n /\ Read' = k + 1
  <2>1. parsed \in Nat /\ published \in Nat /\ parsed < FrameLength * published
    BY <1>1, TypeFacts DEF FrameLength
  <2>2. Current \in 1..published /\ Current \in Nat \ {0}
    BY <2>1, Pieces, WithinPublished DEF Current
  <2>3. Read \in 0..6 /\ PlaceAfter(parsed) = Read + 1
    BY <2>1, Pieces DEF Read
  <2>4. FrameAfter(parsed + 1) = FrameAfter(parsed)
        /\ (parsed + 1) % FrameLength = (parsed % FrameLength) + 1
    BY <2>1, <2>3, Pieces DEF Read
  <2>5. QED
    BY <1>1, <2>2, <2>3, <2>4 DEF Current, Read
<1>3. Within(parser, n, k) /\ (n \in cut \/ Holding(parser, n, k)) /\ parser \in ParserState
  BY <1>1 DEF SseInv, ParserInv, StreamTypeOK
<1>4. /\ FeedPiece(n, k + 1)
      /\ published \in Nat /\ missed \in Nat /\ Len(received) \in Nat
  BY <1>1, <1>2, TypeFacts DEF Current
<1> HIDE DEF n, k
<1>5. /\ UNCHANGED <<lastEventId, received>>
      /\ parser' = IF (k + 1) % 2 = 1 THEN [parser EXCEPT !.line = Line[k + 1]]
                                     ELSE TakeField(parser, n)
  BY <1>2, <1>4 DEF FeedPiece, FrameLength
<1>6. /\ parser' \in ParserState
      /\ Within(parser', n, k + 1) /\ (n \in cut \/ Holding(parser', n, k + 1))
  <2>1. /\ parser.line \in {"none", "id", "event", "data"} /\ parser.id \in -1..published
        /\ parser.event \in -1..published /\ parser.data \in -1..published
    BY <1>3 DEF ParserState
  <2>2. CASE k \in {0, 2, 4}
    <3>1. parser' = [parser EXCEPT !.line = Line[k + 1]] /\ Line[k + 1] \in {"id", "event", "data"}
      BY <1>5, <2>2 DEF Line
    <3>2. parser' \in ParserState
      BY <3>1, <1>3 DEF ParserState
    <3>3. /\ parser'.line = Line[k + 1] /\ parser'.id = parser.id
          /\ parser'.event = parser.event /\ parser'.data = parser.data
      BY <3>1, <1>3 DEF ParserState
    <3> HIDE DEF Line
    <3>4. Within(parser', n, k + 1)
      BY <3>3, <1>3, <2>2 DEF Within
    <3>5. ASSUME Holding(parser, n, k) PROVE Holding(parser', n, k + 1)
      BY <3>3, <3>5, <2>2 DEF Holding
    <3>6. QED
      BY <3>2, <3>4, <3>5, <1>3
  <2>3. CASE k \in {1, 3, 5}
    <3>1. parser' = TakeField(parser, n)
      BY <1>5, <2>3
    <3>2. /\ parser'.line = "none"
          /\ parser'.id = IF parser.line = "id" THEN n ELSE parser.id
          /\ parser'.event = IF parser.line = "event" THEN n ELSE parser.event
          /\ parser'.data = IF parser.line = "data" THEN n ELSE parser.data
      BY <3>1 DEF TakeField
    <3>3. TakeField(parser, n) \in ParserState
      BY <1>2, <2>1 DEF TakeField, ParserState
    <3>4. Within(parser', n, k + 1)
      BY <3>2, <1>3, <2>3 DEF Within
    <3>5. ASSUME Holding(parser, n, k) PROVE Holding(parser', n, k + 1)
      <4>1. parser.line = Line[k]
        BY <3>5, <2>3 DEF Holding
      <4>2. Line[1] = "id" /\ Line[3] = "event" /\ Line[5] = "data"
        BY DEF Line
      <4>3. CASE k = 1
        BY <4>1, <4>2, <4>3, <3>2, <3>5 DEF Holding
      <4>4. CASE k = 3
        BY <4>1, <4>2, <4>4, <3>2, <3>5 DEF Holding
      <4>5. CASE k = 5
        BY <4>1, <4>2, <4>5, <3>2, <3>5 DEF Holding
      <4>6. QED
        BY <4>3, <4>4, <4>5, <2>3
    <3>6. QED
      BY <3>1, <3>3, <3>4, <3>5, <1>3
  <2>4. QED
    BY <2>2, <2>3, <1>2
<1>7. ParserInv'
  BY <1>2, <1>6, <1>1 DEF ParserInv
<1>8. ReceivedInv'
  BY <1>1, <1>4, <1>5, StaysHanded DEF SseInv
<1>9. StreamTypeOK'
  <2>1. parser' \in ParserState'
    BY <1>1, <1>6 DEF ParserState
  <2>2. parsed' \in Nat /\ parsed' <= relayed' /\ beats' \subseteq parsed'..relayed'
    <3>1. beats \subseteq parsed..relayed
      BY DEF SseInv, StreamTypeOK
    <3>2. QED
      BY <3>1, <1>1, TypeFacts
  <2>3. QED
    BY <1>1, <1>5, <2>1, <2>2 DEF SseInv, StreamTypeOK
<1>10. OrderInv'
  <2> SUFFICES ASSUME cut' = {} PROVE InOrder'
    BY DEF OrderInv
  <2>1. InOrder /\ Latest' = Latest /\ Holding(parser', n, k + 1)
    BY <1>1, <1>5, <1>6 DEF SseInv, OrderInv, Latest
  <2>2. Latest = n - 1
    BY <2>1, <1>1, <1>2 DEF InOrder, n, k
  <2>3. k + 1 = 6 => parser'.event # Absent
    <3>1. ASSUME k + 1 = 6 PROVE parser'.event # Absent
      <4>1. parser.event = n
        BY <3>1, <1>1, <1>2, <1>3 DEF Holding
      <4>2. QED
        BY <4>1, <1>2, <1>5, <3>1 DEF TakeField, Absent
    <3>2. QED
      BY <3>1
  <2>4. QED
    BY <2>1, <2>2, <2>3, <1>1, <1>2, <1>5 DEF InOrder
<1>11. QED
  BY <1>7, <1>8, <1>9, <1>10 DEF SseInv

\* The blank line that ends a frame.
LEMMA ReadBlank ==
  ASSUME SseInv, WebviewReads, Read = 6
  PROVE  SseInv'
<1> DEFINE n == Current
<1>1. /\ phase = "open" /\ parsed < relayed /\ parsed' = parsed + 1 /\ parsed \notin beats
      /\ FeedPiece(FrameAfter(parsed), PlaceAfter(parsed))
      /\ UNCHANGED <<published, relayed, beats, heartbeats, breaks, phase, missed, cut>>
  BY DEF WebviewReads, proxyVars, historyVars
<1>2. /\ n \in 1..published /\ n \in Nat \ {0}
      /\ PlaceAfter(parsed) = FrameLength /\ Current' = n + 1 /\ Read' = 0
  <2>1. parsed \in Nat /\ published \in Nat /\ parsed < FrameLength * published
    BY <1>1, TypeFacts DEF FrameLength
  <2>2. Current \in 1..published /\ Current \in Nat \ {0}
    BY <2>1, Pieces, WithinPublished DEF Current
  <2>3. PlaceAfter(parsed) = FrameLength
    BY <2>1, Pieces DEF Read, FrameLength
  <2>4. FrameAfter(parsed + 1) = FrameAfter(parsed) + 1 /\ (parsed + 1) % FrameLength = 0
    BY <2>1, Pieces DEF Read
  <2>5. QED
    BY <1>1, <2>2, <2>3, <2>4 DEF Current, Read
<1>3. Within(parser, n, 6) /\ (n \in cut \/ Holding(parser, n, 6)) /\ parser \in ParserState
  BY <1>1 DEF SseInv, ParserInv, StreamTypeOK
<1>4. Dispatch(parser) /\ published \in Nat /\ missed \in Nat /\ Len(received) \in Nat
  BY <1>1, <1>2, TypeFacts DEF FeedPiece
<1>5. cut = {} => Latest = IF parser.event = Absent THEN n ELSE n - 1
  BY <1>1 DEF SseInv, OrderInv, InOrder
<1> HIDE DEF n
<1>6. parser.event # Absent \/ parser.data # Absent =>
        /\ n \in cut' \/ (parser.id = n /\ parser.event = n /\ parser.data = n)
        /\ cut' = {} => Latest = n - 1 /\ n \in 1..published
  BY <1>1, <1>2, <1>3, <1>5 DEF Holding
<1>7. n \in Int /\ parser.event \in {Absent, Garbled, n} /\ parser.data \in {Absent, Garbled, n}
      /\ parser.line = "none"
  BY <1>2, <1>3 DEF Within
<1>8. /\ parser' = [parser EXCEPT !.event = Absent, !.data = Absent]
      /\ lastEventId' \in -1..published
      /\ ReceivedInv'
      /\ cut' = {} =>
           /\ \A i \in 1..Len(received') : received'[i] = WholeFrame(missed + i)
           /\ Latest' <= published
           /\ lastEventId' = IF received' = <<>> THEN NoId ELSE Latest'
           /\ Latest' = IF parser.event = Absent /\ parser.data = Absent THEN Latest ELSE n
  BY <1>1, <1>3, <1>4, <1>6, <1>7, DispatchKeeps
<1>9. /\ parser' \in ParserState' /\ parser'.line = "none"
      /\ parser'.event = Absent /\ parser'.data = Absent
  BY <1>1, <1>3, <1>4, <1>7, <1>8, AfterDispatch
<1>10. ParserInv'
  <2>1. Within(parser', n + 1, 0) /\ Holding(parser', n + 1, 0)
    BY <1>9 DEF Within, Holding
  <2>2. QED
    BY <2>1, <1>2 DEF ParserInv
<1>11. StreamTypeOK'
  <2>1. parsed' \in Nat /\ parsed' <= relayed' /\ beats' \subseteq parsed'..relayed'
    <3>1. beats \subseteq parsed..relayed
      BY DEF SseInv, StreamTypeOK
    <3>2. QED
      BY <3>1, <1>1, TypeFacts
  <2>2. QED
    BY <1>1, <1>8, <1>9, <2>1 DEF SseInv, StreamTypeOK
<1>12. OrderInv'
  <2> SUFFICES ASSUME cut' = {} PROVE InOrder'
    BY DEF OrderInv
  <2>1. Latest' = n
    BY <1>1, <1>3, <1>5, <1>8 DEF Holding
  <2>2. QED
    BY <2>1, <1>1, <1>2, <1>8 DEF InOrder
<1>13. QED
  BY <1>8, <1>10, <1>11, <1>12 DEF SseInv

\* A heartbeat: a comment between two lines, or a frame cut.
LEMMA ReadBeat == SseInv /\ WebviewReadsHeartbeat => SseInv'
<1> SUFFICES ASSUME SseInv, WebviewReadsHeartbeat PROVE SseInv'
  OBVIOUS
<1> DEFINE n == Current
           k == Read
<1>1. /\ phase = "open" /\ parsed \in beats /\ FeedHeartbeat
      /\ beats' = beats \ {parsed}
      /\ cut' = IF CutsFrame THEN cut \union {n} ELSE cut
      /\ UNCHANGED <<published, relayed, heartbeats, breaks, phase, parsed, missed>>
  BY DEF WebviewReadsHeartbeat, Current
<1>2. /\ n \in Nat \ {0} /\ k \in 0..6 /\ Current' = n /\ Read' = k
      /\ k # 0 => n \in 1..published
  <2>1. parsed \in Nat /\ published \in Nat /\ parsed <= FrameLength * published
    BY TypeFacts DEF FrameLength
  <2>2. Read # 0 => Current \in 1..published
    BY <2>1, WithinPublished DEF Current, Read
  <2>3. QED
    BY <1>1, <2>1, <2>2, Pieces DEF Current, Read
<1>3. Within(parser, n, k) /\ (n \in cut \/ Holding(parser, n, k)) /\ parser \in ParserState
  BY <1>1 DEF SseInv, ParserInv, StreamTypeOK
<1>4. /\ published \in Nat /\ missed \in Nat /\ Len(received) \in Nat
      /\ cut \subseteq 1..published
  BY TypeFacts DEF SseInv, StreamTypeOK
<1>5. cut = {} => Latest = IF k = 6 /\ parser.event = Absent THEN n ELSE n - 1
  BY <1>1 DEF SseInv, OrderInv, InOrder
<1> HIDE DEF n, k
<1>6. cut \subseteq cut' /\ cut' \subseteq 1..published'
  BY <1>1, <1>2, <1>3, <1>4 DEF CutsFrame, Within
<1>7. PICK p \in ParserState :
        /\ Dispatch(p) /\ p.line = "none"
        /\ p.event \in {parser.event, Garbled} /\ p.data \in {parser.data, Garbled}
        /\ parser.line = "none" => /\ p.id = parser.id /\ p.event = parser.event
                                   /\ p.data = parser.data
  <2>1. /\ parser.line \in {"none", "id", "event", "data"} /\ parser.id \in -1..published
        /\ parser.event \in -1..published /\ parser.data \in -1..published
        /\ Garbled \in -1..published
    BY <1>3, <1>4 DEF ParserState, Garbled
  <2>2. CASE Dispatch(TakeField(parser, Garbled))
    <3> DEFINE p == TakeField(parser, Garbled)
    <3>1. p \in ParserState
      BY <2>1 DEF TakeField, ParserState
    <3>2. /\ p.line = "none"
          /\ p.id = IF parser.line = "id" THEN Garbled ELSE parser.id
          /\ p.event = IF parser.line = "event" THEN Garbled ELSE parser.event
          /\ p.data = IF parser.line = "data" THEN Garbled ELSE parser.data
      BY DEF TakeField
    <3>3. Dispatch(p)
      BY <2>2
    <3> HIDE DEF p
    <3>4. /\ p.event \in {parser.event, Garbled} /\ p.data \in {parser.data, Garbled}
          /\ parser.line = "none" => /\ p.id = parser.id /\ p.event = parser.event
                                     /\ p.data = parser.data
      BY <3>2
    <3>5. QED
      BY <3>1, <3>2, <3>3, <3>4
  <2>3. CASE parser.line # "none" /\ Dispatch([parser EXCEPT !.line = "none"])
    <3> DEFINE p == [parser EXCEPT !.line = "none"]
    <3>1. p \in ParserState
      BY <1>3 DEF ParserState
    <3>2. p.line = "none" /\ p.event = parser.event /\ p.data = parser.data
      BY <1>3 DEF ParserState
    <3>3. Dispatch(p)
      BY <2>3
    <3> HIDE DEF p
    <3>4. QED
      BY <3>1, <3>2, <3>3, <2>3
  <2>4. QED
    BY <1>1, <2>2, <2>3 DEF FeedHeartbeat
<1>8. n \in Int /\ p.event \in {Absent, Garbled, n} /\ p.data \in {Absent, Garbled, n}
  BY <1>2, <1>3, <1>7 DEF Within
\* A frame that is not cut now was not cut before, and is not by this heartbeat.
<1>9. ASSUME n \notin cut'
      PROVE  /\ parser.line = "none" /\ k \in {0, 2, 6} /\ Holding(parser, n, k)
             /\ k # 6 => parser.event = Absent /\ parser.data = Absent
             /\ k = 6 => /\ parser.id = n /\ parser.event = parser.data
                         /\ parser.event \in {Absent, n}
  <2>1. ~CutsFrame /\ n \notin cut
    BY <1>1, <1>9
  <2>2. Holding(parser, n, k) /\ parser.line = "none"
        /\ (parser.event = Absent \/ parser.data # Absent)
    BY <2>1, <1>3 DEF CutsFrame
  <2>3. Line[1] # "none" /\ Line[3] # "none" /\ Line[5] # "none"
    BY DEF Line
  <2>4. k \notin {1, 3, 5}
    BY <2>2, <2>3 DEF Holding
  <2>5. k # 4
    BY <2>2, <1>2 DEF Holding, Absent
  <2>6. k \in {0, 2, 6}
    BY <2>4, <2>5, <1>2
  <2>7. QED
    BY <2>2, <2>6 DEF Holding
<1>10. p.event # Absent \/ p.data # Absent =>
        /\ n \in cut' \/ (p.id = n /\ p.event = n /\ p.data = n)
        /\ cut' = {} => Latest = n - 1 /\ n \in 1..published
  <2> SUFFICES ASSUME p.event # Absent \/ p.data # Absent, n \notin cut'
               PROVE  /\ p.id = n /\ p.event = n /\ p.data = n
                      /\ cut' = {} => Latest = n - 1 /\ n \in 1..published
    OBVIOUS
  <2>1. k = 6 /\ parser.event = n
    BY <1>7, <1>9
  <2>2. n # Absent
    BY <1>2 DEF Absent
  <2>3. cut' = {} => cut = {}
    BY <1>6
  <2>4. QED
    BY <2>1, <2>2, <2>3, <1>2, <1>5, <1>7, <1>9
<1>11. /\ parser' = [p EXCEPT !.event = Absent, !.data = Absent]
       /\ lastEventId' \in -1..published
       /\ ReceivedInv'
       /\ cut' = {} =>
            /\ \A i \in 1..Len(received') : received'[i] = WholeFrame(missed + i)
            /\ Latest' <= published
            /\ lastEventId' = IF received' = <<>> THEN NoId ELSE Latest'
            /\ Latest' = IF p.event = Absent /\ p.data = Absent THEN Latest ELSE n
  BY <1>1, <1>6, <1>7, <1>8, <1>10, DispatchKeeps
<1>12. /\ parser' \in ParserState' /\ parser'.line = "none" /\ parser'.id = p.id
       /\ parser'.event = Absent /\ parser'.data = Absent
  BY <1>1, <1>4, <1>7, <1>11, AfterDispatch
<1>13. ParserInv'
  <2>1. Within(parser', n, k)
    BY <1>12 DEF Within
  <2>2. ASSUME n \notin cut' PROVE Holding(parser', n, k)
    BY <1>7, <1>9, <1>12, <2>2 DEF Holding
  <2>3. QED
    BY <2>1, <2>2, <1>2 DEF ParserInv
<1>14. StreamTypeOK'
  <2>1. beats' \subseteq parsed'..relayed'
    BY <1>1 DEF SseInv, StreamTypeOK
  <2>2. QED
    BY <1>1, <1>6, <1>11, <1>12, <2>1 DEF SseInv, StreamTypeOK
<1>15. OrderInv'
  <2> SUFFICES ASSUME cut' = {} PROVE InOrder'
    BY DEF OrderInv
  <2>1. cut = {} /\ n \notin cut'
    BY <1>6
  <2>2. Latest' = IF k = 6 THEN n ELSE n - 1
    BY <2>1, <1>5, <1>7, <1>9, <1>11
  <2>3. QED
    BY <2>2, <1>1, <1>2, <1>11, <1>12 DEF InOrder
<1>16. QED
  BY <1>11, <1>13, <1>14, <1>15 DEF SseInv

\* Every step keeps the invariant.
LEMMA SseNext == SseInv /\ [StreamNext]_streamVars => SseInv'
<1> SUFFICES ASSUME SseInv, [StreamNext]_streamVars PROVE SseInv'
  OBVIOUS
<1>1. CASE UNCHANGED streamVars
  <2>1. UNCHANGED <<published, relayed, beats, heartbeats, breaks, phase, parsed, parser,
                    lastEventId, received, missed, cut>>
    BY <1>1 DEF streamVars, proxyVars, clientVars, historyVars
  <2>2. /\ parser' \in ParserState'
        /\ ParserInv' /\ ReceivedInv' /\ OrderInv'
    BY <2>1, ParserAside
  <2>3. StreamTypeOK'
    BY <2>1, <2>2 DEF SseInv, StreamTypeOK
  <2>4. QED
    BY <2>2, <2>3 DEF SseInv
<1>2. CASE WebviewReads
  <2>1. Read \in 0..6
    BY TypeFacts, Pieces DEF Read
  <2>2. Read < 6 \/ Read = 6
    BY <2>1
  <2>3. QED
    BY <1>2, <2>2, ReadInside, ReadBlank
<1>3. CASE FetchFails \/ StreamBreaks \/ StreamEnds \/ TimerFires \/ Dispose
  BY <1>3, CloseStep
<1>4. QED
  BY <1>1, <1>2, <1>3, PublishStep, ProxyStep, InjectStep, FetchStep, ReadBeat DEF StreamNext

----------------------------------------------------------------------------
\* The types of the state are kept, for any number of frames, heartbeats and
\* breaks, wherever the proxy's chunks end and whatever heartbeats they meet.
THEOREM SseTyped == StreamSpec => []StreamTypeOK
<1>1. SseInv => StreamTypeOK
  BY DEF SseInv
<1>2. QED
  BY <1>1, SseInit, SseNext, PTL DEF StreamSpec, StreamSafeSpec

\* While no heartbeat cut a frame, onEvent was given the frames after the last
\* one missed, whole, once and in order, whenever the stream broke; and a frame
\* that no heartbeat cut is never given in another form.
THEOREM ResumedOnce == StreamSpec => []ResumedExactlyOnce
<1>1. SseInv => ResumedExactlyOnce
  <2> SUFFICES ASSUME SseInv PROVE ResumedExactlyOnce
    OBVIOUS
  <2>1. DOMAIN received = 1..Len(received) /\ missed \in Nat /\ published \in Nat
        /\ Len(received) \in Nat
    BY TypeFacts
  <2>2. ASSUME cut = {}, NEW i \in DOMAIN received
        PROVE  missed + i <= published /\ received[i] = WholeFrame(missed + i)
    BY <2>1, <2>2 DEF SseInv, OrderInv, InOrder, Latest
  <2>3. ASSUME NEW i \in DOMAIN received, NEW n \in (1..published) \ cut,
               n \in {received[i].event, received[i].data}
        PROVE  received[i] = WholeFrame(n)
    BY <2>1, <2>3 DEF SseInv, ReceivedInv, Handed
  <2>4. QED
    BY <2>2, <2>3 DEF ResumedExactlyOnce
<1>2. QED
  BY <1>1, SseInit, SseNext, PTL DEF StreamSpec, StreamSafeSpec

(***************************************************************************)
(* The terminal sessions, for any number of sessions, descriptors,         *)
(* requests, subscribers and chunks: a stream is the whole kept output     *)
(* without a gap, it is open exactly as long as its session lives, and a   *)
(* read loop with output to read owns its descriptor.                      *)
(*                                                                         *)
(* FdInv: a descriptor refers to a pty only through that session's own     *)
(* masterFd, and a shell that runs holds its pty.  OutInv: the scrollback  *)
(* keeps a suffix of what was read, never an empty one.  ShownInv: what a  *)
(* stream got, and whether it is open.                                     *)
(***************************************************************************)

HIDE StreamAssumption

FdInv ==
  /\ \A f \in Fds : fdOwner[f] # None => masterFd[fdOwner[f]] = f
  /\ \A s \in 1..created :
       /\ masterFd[s] \in Fds
       /\ slaveOpen[s] \/ readCount[s] < written[s] => fdOwner[masterFd[s]] = s
  /\ \A s \in Sessions : shell[s] \in {"running", "dying"} => slaveOpen[s]

OutInv ==
  /\ \A s \in Sessions : /\ readCount[s] <= written[s] /\ dropped[s] <= readCount[s]
                         /\ readCount[s] > 0 => dropped[s] < readCount[s]
  /\ \A s \in Sessions \ 1..created :
       ~slaveOpen[s] /\ written[s] = 0 /\ masterFd[s] = None /\ ~alive[s]

Consecutive(got) == \A i \in 1..(Len(got) - 1) : got[i + 1] = got[i] + 1
UpToDate(got, read, old) ==
  IF got = <<>> THEN read = 0 ELSE got[Len(got)] = read /\ got[1] <= old + 1

ShownInv ==
  \A u \in Subscribers :
    LET s == stream[u].session IN
    /\ Consecutive(stream[u].got)
    /\ stream[u].open => s # None /\ UpToDate(stream[u].got, readCount[s], dropped[s])
    /\ s # None => (stream[u].open <=> alive[s]) /\ (stream[u].exit <=> ~alive[s])

PtyInv == PtyTypeOK /\ FdInv /\ OutInv /\ ShownInv

\* The invariant says what the three properties say.
LEMMA PtyInvSuffices ==
  PtyInv => FullReplayNoGap /\ NoSilentDeadTerminal /\ ReadLoopOwnsDescriptor
<1> SUFFICES ASSUME PtyInv PROVE FullReplayNoGap /\ NoSilentDeadTerminal /\ ReadLoopOwnsDescriptor
  OBVIOUS
<1>1. FullReplayNoGap
  BY DEF PtyInv, ShownInv, Consecutive, UpToDate, FullReplayNoGap
<1>2. NoSilentDeadTerminal
  BY DEF PtyInv, ShownInv, NoSilentDeadTerminal
<1>3. ReadLoopOwnsDescriptor
  BY DEF PtyInv, FdInv, ReadLoopOwnsDescriptor
<1>4. QED
  BY <1>1, <1>2, <1>3

LEMMA PtyInvInit == PtyInit => PtyInv
<1> SUFFICES ASSUME PtyInit PROVE PtyInv
  OBVIOUS
<1> USE PtyAssumption DEF None
<1>1. 1..created = {} /\ <<>> \in Seq(Nat) /\ Len(<<>>) = 0
  BY EmptySeqFacts DEF PtyInit
<1>2. PtyTypeOK
  BY <1>1 DEF PtyInit, PtyTypeOK, Sessions, Idle, NoStream
<1>3. FdInv /\ OutInv
  BY <1>1 DEF PtyInit, FdInv, OutInv, Sessions
<1>4. ShownInv
  BY <1>1 DEF PtyInit, ShownInv, NoStream, Consecutive
<1>5. QED
  BY <1>2, <1>3, <1>4 DEF PtyInv

\* Each of the three counts is a function.
LEMMA Counts ==
  ASSUME PtyInv
  PROVE  written \in [Sessions -> Nat] /\ readCount \in [Sessions -> Nat]
         /\ dropped \in [Sessions -> Nat]
  BY DEF PtyInv, PtyTypeOK

\* A stream is on a session that was created.
LEMMA StreamTyped ==
  ASSUME PtyInv, NEW u \in Subscribers
  PROVE  /\ stream[u] \in [session : 0..created, open : BOOLEAN, got : Seq(Nat), exit : BOOLEAN]
         /\ stream[u].session # None => /\ stream[u].session \in 1..created
                                       /\ stream[u].session \in Sessions
<1>1. stream[u] \in [session : 0..created, open : BOOLEAN, got : Seq(Nat), exit : BOOLEAN]
  BY DEF PtyInv, PtyTypeOK
<1>2. QED
  BY <1>1, PtyAssumption DEF PtyInv, PtyTypeOK, Sessions, None

\* Requests, timers and a deletion touch no pty and no stream.
LEMMA BookkeepingKeeps ==
  ASSUME PtyInv, UNCHANGED <<created, alive, ttyVars, masterFd, outVars, stream>>,
         listed' \subseteq listed,
         timers' \in [Sessions -> SUBSET {"kill", "prune"}],
         request' \in [Requests -> [kind : {"idle", "create", "input", "resize"},
                                    session : 0..created]]
  PROVE  PtyInv'
<1> USE DEF ttyVars, outVars
<1>1. PtyTypeOK'
  BY DEF PtyInv, PtyTypeOK
<1>2. FdInv' /\ OutInv' /\ ShownInv'
  BY DEF PtyInv, FdInv, OutInv, ShownInv
<1>3. QED
  BY <1>1, <1>2 DEF PtyInv

\* A session is created on a descriptor that is free.
LEMMA CreateSessionKeeps ==
  ASSUME NEW r \in Requests, PtyInv, CreateSession(r)
  PROVE  PtyInv'
<1> USE DEF outVars
<1> DEFINE s == created + 1
<1>1. PICK f \in Fds :
        /\ fdOwner[f] = None /\ created' = s /\ listed' = listed \cup {s}
        /\ alive' = [alive EXCEPT ![s] = TRUE]
        /\ shell' = [shell EXCEPT ![s] = "running"]
        /\ slaveOpen' = [slaveOpen EXCEPT ![s] = TRUE]
        /\ masterFd' = [masterFd EXCEPT ![s] = f]
        /\ fdOwner' = [fdOwner EXCEPT ![f] = s]
  BY DEF CreateSession
<1>2. /\ created \in Nat /\ s \in Sessions /\ s \notin 1..created /\ s # None
      /\ 1..created' = 1..created \cup {s} /\ 1..created \subseteq Sessions
      /\ \A t \in 0..created : t # s
  BY <1>1, PtyAssumption DEF CreateSession, PtyInv, PtyTypeOK, Sessions, None
<1>3. /\ request' = [request EXCEPT ![r] = Idle]
      /\ UNCHANGED <<written, outVars, timers, stream>>
  BY DEF CreateSession
<1>4. PtyTypeOK'
  BY <1>1, <1>2, <1>3 DEF PtyInv, PtyTypeOK, Idle, None, Sessions
<1>5. FdInv'
  <2>1. ASSUME NEW g \in Fds, fdOwner'[g] # None PROVE masterFd'[fdOwner'[g]] = g
    <3>1. CASE g = f
      BY <1>1, <1>2, <3>1 DEF PtyInv, PtyTypeOK
    <3>2. CASE g # f
      BY <1>1, <1>2, <2>1, <3>2 DEF PtyInv, PtyTypeOK, FdInv
    <3>3. QED
      BY <3>1, <3>2
  <2>2. ASSUME NEW t \in 1..created'
        PROVE  /\ masterFd'[t] \in Fds
               /\ slaveOpen'[t] \/ readCount'[t] < written'[t] => fdOwner'[masterFd'[t]] = t
    <3>1. CASE t = s
      BY <1>1, <1>2, <3>1 DEF PtyInv, PtyTypeOK
    <3>2. CASE t # s
      <4>1. /\ t \in 1..created /\ t # None /\ masterFd[t] \in Fds
            /\ masterFd'[t] = masterFd[t] /\ slaveOpen'[t] = slaveOpen[t]
        BY <1>1, <1>2, <2>2, <3>2 DEF PtyInv, PtyTypeOK, FdInv, None
      <4>2. slaveOpen[t] \/ readCount[t] < written[t] => masterFd[t] # f
        BY <1>1, <4>1 DEF PtyInv, FdInv
      <4>3. QED
        BY <1>1, <1>3, <4>1, <4>2 DEF PtyInv, PtyTypeOK, FdInv
    <3>3. QED
      BY <3>1, <3>2
  <2>3. \A t \in Sessions : shell'[t] \in {"running", "dying"} => slaveOpen'[t]
    BY <1>1, <1>2 DEF PtyInv, PtyTypeOK, FdInv
  <2>4. QED
    BY <2>1, <2>2, <2>3 DEF FdInv
<1>6. OutInv'
  BY <1>1, <1>2, <1>3 DEF PtyInv, PtyTypeOK, OutInv
<1>7. ShownInv'
  <2>1. \A u \in Subscribers : stream[u].session # None =>
          alive'[stream[u].session] = alive[stream[u].session]
    <3> SUFFICES ASSUME NEW u \in Subscribers, stream[u].session # None
                 PROVE alive'[stream[u].session] = alive[stream[u].session]
      OBVIOUS
    <3>1. stream[u].session \in Sessions /\ stream[u].session # s
      BY <1>2, StreamTyped
    <3>2. QED
      BY <1>1, <3>1 DEF PtyInv, PtyTypeOK
  <2>2. QED
    BY <1>3, <2>1 DEF PtyInv, ShownInv
<1>8. QED
  BY <1>4, <1>5, <1>6, <1>7 DEF PtyInv

\* The shell and its background job.
LEMMA ShellKeeps ==
  ASSUME NEW s \in Sessions, PtyInv, ShellWrites(s) \/ ShellExits(s) \/ JobExits(s)
  PROVE  PtyInv'
<1> USE DEF outVars
<1>1. /\ UNCHANGED <<created, listed, alive, fdOwner, masterFd, outVars, timers, request, stream>>
      /\ written' \in [Sessions -> Nat]
      /\ slaveOpen' \in [Sessions -> BOOLEAN]
      /\ shell' \in [Sessions -> {"none", "running", "dying", "exited"}]
  <2>1. CASE ShellWrites(s)
    <3>1. /\ written' = [written EXCEPT ![s] = @ + 1]
          /\ UNCHANGED <<created, listed, alive, slaveOpen, shell, fdOwner, masterFd, outVars,
                         timers, request, stream>>
      BY <2>1 DEF ShellWrites
    <3>2. written' \in [Sessions -> Nat]
      BY <3>1, Counts
    <3>3. QED
      BY <3>1, <3>2 DEF PtyInv, PtyTypeOK
  <2>2. CASE ShellExits(s)
    <3>1. PICK held \in BOOLEAN : slaveOpen' = [slaveOpen EXCEPT ![s] = held]
      BY <2>2 DEF ShellExits
    <3>2. QED
      BY <2>2, <3>1, Counts DEF ShellExits, PtyInv, PtyTypeOK
  <2>3. CASE JobExits(s)
    BY <2>3, Counts DEF JobExits, PtyInv, PtyTypeOK
  <2>4. QED
    BY <2>1, <2>2, <2>3
<1>2. PtyTypeOK'
  BY <1>1 DEF PtyInv, PtyTypeOK
<1>3. /\ \A t \in Sessions : written'[t] >= written[t]
      /\ \A t \in Sessions : written'[t] > written[t] => slaveOpen[t]
      /\ \A t \in Sessions : slaveOpen'[t] => slaveOpen[t]
      /\ \A t \in Sessions : shell'[t] \in {"running", "dying"} => slaveOpen'[t]
  <2>1. CASE ShellWrites(s)
    <3>1. /\ slaveOpen[s] /\ written' = [written EXCEPT ![s] = @ + 1]
          /\ UNCHANGED <<slaveOpen, shell>>
      BY <2>1 DEF ShellWrites
    <3>2. written'[s] = written[s] + 1 /\ \A t \in Sessions \ {s} : written'[t] = written[t]
      BY <3>1, Counts
    <3>3. \A t \in Sessions : written[t] \in Nat
      BY Counts
    <3>4. QED
      BY <3>1, <3>2, <3>3 DEF PtyInv, FdInv
  <2>2. CASE ShellExits(s)
    BY <2>2 DEF ShellExits, PtyInv, PtyTypeOK, FdInv
  <2>3. CASE JobExits(s)
    BY <2>3 DEF JobExits, PtyInv, PtyTypeOK, FdInv
  <2>4. QED
    BY <2>1, <2>2, <2>3
<1>4. 1..created \subseteq Sessions
  BY PtyAssumption DEF PtyInv, PtyTypeOK, Sessions
<1>5. FdInv'
  <2>1. ASSUME NEW t \in 1..created, slaveOpen'[t] \/ readCount[t] < written'[t]
        PROVE  slaveOpen[t] \/ readCount[t] < written[t]
    BY <1>1, <1>3, <1>4, <2>1 DEF PtyInv, PtyTypeOK
  <2>2. QED
    BY <1>1, <1>3, <2>1 DEF PtyInv, FdInv
<1>6. OutInv'
  <2>1. \A t \in Sessions : readCount[t] <= written'[t]
    BY <1>1, <1>3 DEF PtyInv, PtyTypeOK, OutInv
  <2>2. \A t \in Sessions \ 1..created : ~slaveOpen'[t] /\ written'[t] = 0
    BY <1>1, <1>3 DEF PtyInv, PtyTypeOK, OutInv
  <2>3. QED
    BY <1>1, <2>1, <2>2 DEF PtyInv, OutInv
<1>7. ShownInv'
  BY <1>1 DEF PtyInv, ShownInv
<1>8. QED
  BY <1>2, <1>5, <1>6, <1>7 DEF PtyInv

\* The exit is told to every stream that is attached.
LEMMA OnExitKeeps ==
  ASSUME NEW s \in Sessions, PtyInv, OnExit(s)
  PROVE  PtyInv'
<1> USE DEF ttyVars, outVars
<1>1. alive' = [alive EXCEPT ![s] = FALSE]
      /\ UNCHANGED <<created, listed, ttyVars, masterFd, outVars, timers, request>>
  BY DEF OnExit
<1>2. ASSUME NEW u \in Subscribers
      PROVE  /\ stream'[u].session = stream[u].session /\ stream'[u].got = stream[u].got
             /\ stream'[u].open = (stream[u].open /\ stream[u].session # s)
             /\ stream'[u].exit = (stream[u].exit \/ (stream[u].open /\ stream[u].session = s))
             /\ stream'[u] \in [session : 0..created, open : BOOLEAN,
                                got : Seq(Nat), exit : BOOLEAN]
  <2>1. stream[u] \in [session : 0..created, open : BOOLEAN, got : Seq(Nat), exit : BOOLEAN]
    BY DEF PtyInv, PtyTypeOK
  <2>2. CASE stream[u].open /\ stream[u].session = s
    <3>1. stream'[u] = [stream[u] EXCEPT !.open = FALSE, !.exit = TRUE]
      BY <2>2 DEF OnExit, Attached
    <3>2. QED
      BY <2>1, <2>2, <3>1
  <2>3. CASE ~(stream[u].open /\ stream[u].session = s)
    <3>1. stream'[u] = stream[u]
      BY <2>3 DEF OnExit, Attached
    <3>2. QED
      BY <2>1, <2>3, <3>1
  <2>4. QED
    BY <2>2, <2>3
<1>3. PtyTypeOK'
  <2>1. stream' \in [Subscribers -> [session : 0..created, open : BOOLEAN,
                                     got : Seq(Nat), exit : BOOLEAN]]
    BY <1>2 DEF OnExit
  <2>2. QED
    BY <1>1, <2>1 DEF PtyInv, PtyTypeOK
<1>4. FdInv' /\ OutInv'
  BY <1>1 DEF PtyInv, PtyTypeOK, FdInv, OutInv
<1>5. ShownInv'
  <2> SUFFICES ASSUME NEW u \in Subscribers
               PROVE LET t == stream'[u].session IN
                     /\ Consecutive(stream'[u].got)
                     /\ stream'[u].open =>
                          t # None /\ UpToDate(stream'[u].got, readCount'[t], dropped'[t])
                     /\ t # None => (stream'[u].open <=> alive'[t])
                                    /\ (stream'[u].exit <=> ~alive'[t])
    BY DEF ShownInv
  <2>1. stream[u].session \in 0..created /\ stream[u].open \in BOOLEAN
        /\ stream[u].exit \in BOOLEAN
    BY DEF PtyInv, PtyTypeOK
  <2>2. stream[u].session # None => stream[u].session \in Sessions
    BY <2>1, PtyAssumption DEF PtyInv, PtyTypeOK, Sessions, None
  <2>3. QED
    BY <1>1, <1>2, <2>1, <2>2 DEF PtyInv, PtyTypeOK, ShownInv
<1>6. QED
  BY <1>3, <1>4, <1>5 DEF PtyInv

\* A shell is killed: it is dying, and its pty still open.
LEMMA KillTimerKeeps ==
  ASSUME NEW s \in Sessions, PtyInv, KillTimer(s)
  PROVE  PtyInv'
<1> USE DEF outVars
<1>1. /\ UNCHANGED <<created, listed, alive, slaveOpen, fdOwner, written, masterFd, outVars,
                     request, stream>>
      /\ timers' = [timers EXCEPT ![s] = @ \ {"kill"}]
      /\ shell' = [shell EXCEPT ![s] =
                     IF s \in listed /\ alive[s] /\ @ = "running" THEN "dying" ELSE @]
  BY DEF KillTimer
<1>2. timers' \in [Sessions -> SUBSET {"kill", "prune"}]
      /\ shell' \in [Sessions -> {"none", "running", "dying", "exited"}]
  BY <1>1 DEF PtyInv, PtyTypeOK
<1>3. \A t \in Sessions : shell'[t] \in {"running", "dying"} => shell[t] \in {"running", "dying"}
  BY <1>1 DEF PtyInv, PtyTypeOK
<1>4. PtyTypeOK'
  BY <1>1, <1>2 DEF PtyInv, PtyTypeOK
<1>5. FdInv' /\ OutInv' /\ ShownInv'
  BY <1>1, <1>3 DEF PtyInv, FdInv, OutInv, ShownInv
<1>6. QED
  BY <1>4, <1>5 DEF PtyInv

\* A chunk that follows the last one keeps a stream consecutive and up to date.
LEMMA StillConsecutive ==
  ASSUME NEW got \in Seq(Nat), NEW read \in Nat, NEW old \in Nat, NEW new \in Nat,
         Consecutive(got), UpToDate(got, read, old),
         new >= old, read = 0 => new = 0
  PROVE  Consecutive(Append(got, read + 1)) /\ UpToDate(Append(got, read + 1), read + 1, new)
<1> DEFINE more == Append(got, read + 1)
<1>1. /\ more \in Seq(Nat) /\ more # <<>> /\ Len(more) = Len(got) + 1 /\ Len(got) \in Nat
      /\ more[Len(more)] = read + 1
      /\ \A i \in 1..Len(got) : more[i] = got[i]
  BY AppendFacts
<1>2. CASE got = <<>>
  <2>1. Len(got) = 0 /\ read = 0
    BY <1>2, EmptySeqFacts DEF UpToDate
  <2>2. QED
    BY <1>1, <2>1 DEF Consecutive, UpToDate
<1>3. CASE got # <<>>
  <2>1. Len(got) \in Nat \ {0} /\ got[Len(got)] = read /\ got[1] <= old + 1 /\ got[1] \in Nat
    BY <1>3, EmptySeqFacts DEF UpToDate
  <2>2. ASSUME NEW i \in 1..(Len(more) - 1) PROVE more[i + 1] = more[i] + 1
    <3>1. CASE i = Len(got)
      BY <1>1, <2>1, <3>1
    <3>2. CASE i # Len(got)
      BY <1>1, <2>1, <2>2, <3>2 DEF Consecutive
    <3>3. QED
      BY <3>1, <3>2
  <2>3. UpToDate(more, read + 1, new)
    BY <1>1, <2>1 DEF UpToDate
  <2>4. QED
    BY <2>2, <2>3 DEF Consecutive
<1>4. QED
  BY <1>2, <1>3

\* The read loop got a chunk.
LEMMA ReadChunkKeeps ==
  ASSUME NEW s \in Sessions, PtyInv, ReadChunk(s)
  PROVE  PtyInv'
<1> USE DEF ttyVars
<1> DEFINE n == readCount[s] + 1
<1>1. /\ masterFd[s] # None /\ fdOwner[masterFd[s]] = s /\ readCount[s] < written[s]
      /\ readCount' = [readCount EXCEPT ![s] = n]
      /\ dropped' = [dropped EXCEPT ![s] =
                       IF n - dropped[s] > ScrollbackCap THEN dropped[s] + 1 ELSE dropped[s]]
      /\ stream' = [u \in Subscribers |->
                      IF stream[u].open /\ stream[u].session = s
                      THEN [stream[u] EXCEPT !.got = Append(stream[u].got, n)] ELSE stream[u]]
      /\ UNCHANGED <<created, listed, alive, ttyVars, masterFd, timers, request>>
  BY Counts DEF ReadChunk, AppendScrollback, Broadcast, Attached
<1>2. /\ written[s] \in Nat /\ readCount[s] \in Nat /\ dropped[s] \in Nat
      /\ dropped[s] <= readCount[s] /\ n \in Nat
      /\ readCount[s] > 0 => dropped[s] < readCount[s]
  BY Counts DEF PtyInv, OutInv
<1>3. /\ readCount' \in [Sessions -> Nat] /\ dropped' \in [Sessions -> Nat]
      /\ readCount'[s] = n /\ dropped'[s] \in {dropped[s], dropped[s] + 1}
      /\ \A t \in Sessions \ {s} : readCount'[t] = readCount[t] /\ dropped'[t] = dropped[t]
  BY <1>1, <1>2, Counts
<1>4. dropped'[s] < n /\ dropped'[s] >= dropped[s] /\ (readCount[s] = 0 => dropped'[s] = 0)
  BY <1>1, <1>2, <1>3, Counts, PtyAssumption
<1>5. ASSUME NEW u \in Subscribers
      PROVE  /\ stream'[u] \in [session : 0..created, open : BOOLEAN,
                                got : Seq(Nat), exit : BOOLEAN]
             /\ stream'[u].session = stream[u].session /\ stream'[u].open = stream[u].open
             /\ stream'[u].exit = stream[u].exit
             /\ stream'[u].got = IF stream[u].open /\ stream[u].session = s
                                THEN Append(stream[u].got, n) ELSE stream[u].got
  <2>1. Append(stream[u].got, n) \in Seq(Nat)
    BY <1>2, StreamTyped
  <2>2. QED
    BY <1>1, <2>1, StreamTyped
<1>6. PtyTypeOK'
  <2>1. stream' \in [Subscribers -> [session : 0..created, open : BOOLEAN,
                                     got : Seq(Nat), exit : BOOLEAN]]
    BY <1>1, <1>5
  <2>2. QED
    BY <1>1, <1>3, <2>1, Counts DEF PtyInv, PtyTypeOK
<1>7. FdInv'
  <2>1. \A t \in 1..created : readCount'[t] < written[t] => readCount[t] < written[t]
    <3> SUFFICES ASSUME NEW t \in 1..created, readCount'[t] < written[t]
                 PROVE readCount[t] < written[t]
      OBVIOUS
    <3>1. t \in Sessions
      BY PtyAssumption DEF PtyInv, PtyTypeOK, Sessions
    <3>2. QED
      BY <1>1, <1>3, <3>1
  <2>2. QED
    BY <1>1, <2>1 DEF PtyInv, FdInv
<1>8. OutInv'
  <2>1. s \in 1..created
    BY <1>1 DEF PtyInv, OutInv
  <2>2. n <= written[s]
    BY <1>1, <1>2
  <2>3. ASSUME NEW t \in Sessions
        PROVE  /\ readCount'[t] <= written[t] /\ dropped'[t] <= readCount'[t]
               /\ readCount'[t] > 0 => dropped'[t] < readCount'[t]
    <3>1. CASE t = s
      BY <1>2, <1>3, <1>4, <2>2, <3>1
    <3>2. CASE t # s
      BY <1>3, <3>2 DEF PtyInv, OutInv
    <3>3. QED
      BY <3>1, <3>2
  <2>4. QED
    BY <1>1, <2>3 DEF PtyInv, OutInv
<1>9. ShownInv'
  <2> SUFFICES ASSUME NEW u \in Subscribers
               PROVE LET t == stream'[u].session IN
                     /\ Consecutive(stream'[u].got)
                     /\ stream'[u].open =>
                          t # None /\ UpToDate(stream'[u].got, readCount'[t], dropped'[t])
                     /\ t # None => (stream'[u].open <=> alive'[t])
                                    /\ (stream'[u].exit <=> ~alive'[t])
    BY DEF ShownInv
  <2> DEFINE got == stream[u].got
  <2>1. CASE stream[u].open /\ stream[u].session = s
    <3>1. /\ got \in Seq(Nat) /\ Consecutive(got) /\ UpToDate(got, readCount[s], dropped[s])
      BY <2>1, StreamTyped DEF PtyInv, ShownInv
    <3>2. Consecutive(Append(got, n)) /\ UpToDate(Append(got, n), n, dropped'[s])
      BY <1>2, <1>3, <1>4, <3>1, StillConsecutive
    <3>3. QED
      BY <1>1, <1>3, <1>5, <2>1, <3>2 DEF PtyInv, ShownInv
  <2>2. CASE ~(stream[u].open /\ stream[u].session = s)
    <3>1. stream[u].open => /\ stream[u].session \in Sessions \ {s}
                            /\ UpToDate(got, readCount[stream[u].session],
                                        dropped[stream[u].session])
      BY <2>2, StreamTyped DEF PtyInv, ShownInv
    <3>2. QED
      BY <1>1, <1>3, <1>5, <2>2, <3>1 DEF PtyInv, ShownInv
  <2>3. QED
    BY <2>1, <2>2
<1>10. QED
  BY <1>6, <1>7, <1>8, <1>9 DEF PtyInv

\* End of file: the loop has nothing left to read on the descriptor it closes.
LEMMA ReadEndKeeps ==
  ASSUME NEW s \in Sessions, PtyInv, ReadEnd(s)
  PROVE  PtyInv'
<1> USE DEF outVars
<1> DEFINE f == masterFd[s]
<1>1. /\ f # None /\ fdOwner[f] = s /\ ~slaveOpen[s] /\ readCount[s] = written[s]
      /\ fdOwner' = [fdOwner EXCEPT ![f] = None]
      /\ UNCHANGED <<created, listed, alive, shell, slaveOpen, written, masterFd, outVars, timers,
                     request, stream>>
  BY DEF ReadEnd
<1>2. f \in Fds /\ fdOwner \in [Fds -> 0..created] /\ created \in Nat
  BY <1>1 DEF PtyInv, PtyTypeOK
<1>3. fdOwner' \in [Fds -> 0..created]
  BY <1>1, <1>2 DEF None
<1>4. PtyTypeOK'
  BY <1>1, <1>3 DEF PtyInv, PtyTypeOK
<1>5. FdInv'
  <2>1. \A g \in Fds : fdOwner'[g] # None => g # f /\ fdOwner'[g] = fdOwner[g]
    BY <1>1, <1>2
  <2>2. ASSUME NEW t \in 1..created, slaveOpen[t] \/ readCount[t] < written[t]
        PROVE  fdOwner'[masterFd[t]] = t
    <3>1. fdOwner[masterFd[t]] = t /\ masterFd[t] \in Fds
      BY <2>2 DEF PtyInv, FdInv
    <3>2. t # s
      BY <1>1, <2>2, Counts
    <3>3. QED
      BY <1>1, <1>2, <3>1, <3>2
  <2>3. QED
    BY <1>1, <2>1, <2>2 DEF PtyInv, FdInv
<1>6. OutInv' /\ ShownInv'
  BY <1>1 DEF PtyInv, OutInv, ShownInv
<1>7. QED
  BY <1>4, <1>5, <1>6 DEF PtyInv

\* A stream is opened or cancelled.
LEMMA StreamChanges ==
  ASSUME NEW u \in Subscribers, NEW new, PtyInv,
         stream' = [stream EXCEPT ![u] = new],
         new \in [session : 0..created, open : BOOLEAN, got : Seq(Nat), exit : BOOLEAN],
         Consecutive(new.got),
         new.open => new.session # None
                     /\ UpToDate(new.got, readCount[new.session], dropped[new.session]),
         new.session # None => /\ new.open <=> alive[new.session]
                               /\ new.exit <=> ~alive[new.session],
         UNCHANGED <<created, listed, alive, ttyVars, masterFd, outVars, timers, request>>
  PROVE  PtyInv'
<1> USE DEF ttyVars, outVars
<1>1. stream'[u] = new /\ \A v \in Subscribers \ {u} : stream'[v] = stream[v]
  BY DEF PtyInv, PtyTypeOK
<1>2. PtyTypeOK'
  BY DEF PtyInv, PtyTypeOK
<1>3. FdInv' /\ OutInv'
  BY DEF PtyInv, FdInv, OutInv
<1>4. ShownInv'
  BY <1>1 DEF PtyInv, ShownInv
<1>5. QED
  BY <1>2, <1>3, <1>4 DEF PtyInv

\* What an attach replays is consecutive, up to date, and starts at the oldest
\* chunk kept.
LEMMA ReplayFacts ==
  ASSUME NEW read \in Nat, NEW old \in Nat, read - old \in Nat, read > 0 => old < read
  PROVE  LET replay == [i \in 1..(read - old) |-> old + i]
         IN  replay \in Seq(Nat) /\ Consecutive(replay) /\ UpToDate(replay, read, old)
<1> DEFINE kept == read - old
           replay == [i \in 1..kept |-> old + i]
<1>1. replay \in [1..kept -> Nat]
  <2>1. \A i \in 1..kept : old + i \in Nat
    OBVIOUS
  <2>2. QED
    BY <2>1
<1>2. replay \in Seq(Nat) /\ Len(replay) = kept
  <2> HIDE DEF replay
  <2>1. QED
    BY <1>1
<1>3. Consecutive(replay)
  BY <1>2 DEF Consecutive
<1>4. UpToDate(replay, read, old)
  <2>1. CASE kept = 0
    <3>1. replay = <<>> /\ read = 0
      BY <1>2, <2>1, EmptySeqFacts
    <3>2. QED
      BY <3>1 DEF UpToDate
  <2>2. CASE kept # 0
    <3>1. replay # <<>>
      BY <1>2, <2>2, EmptySeqFacts
    <3>2. 1 \in 1..kept /\ kept \in 1..kept
      BY <2>2
    <3>3. replay[1] = old + 1 /\ replay[kept] = read
      BY <3>2
    <3>4. QED
      BY <1>2, <3>1, <3>3 DEF UpToDate
  <2>3. QED
    BY <2>1, <2>2
<1>5. QED
  BY <1>2, <1>3, <1>4

LEMMA AttachKeeps ==
  ASSUME NEW u \in Subscribers, NEW s \in Sessions, PtyInv, Attach(u, s)
  PROVE  PtyInv'
<1> DEFINE kept == readCount[s] - dropped[s]
           replay == [i \in 1..kept |-> dropped[s] + i]
           new == [session |-> s, open |-> alive[s], exit |-> ~alive[s], got |-> replay]
<1>1. /\ stream' = [stream EXCEPT ![u] = new] /\ s \in listed
      /\ UNCHANGED <<created, listed, alive, ttyVars, masterFd, outVars, timers, request>>
  BY DEF Attach
<1>2. /\ readCount[s] \in Nat /\ dropped[s] \in Nat /\ kept \in Nat
      /\ readCount[s] > 0 => dropped[s] < readCount[s]
  BY Counts DEF PtyInv, OutInv
<1>3. /\ replay \in Seq(Nat) /\ Consecutive(replay)
      /\ UpToDate(replay, readCount[s], dropped[s])
  BY <1>2, ReplayFacts
<1>4. s \in 0..created /\ s # None /\ alive[s] \in BOOLEAN
  <2> HIDE DEF kept, replay, new
  <2>1. listed \subseteq 1..created /\ created \in Nat /\ alive \in [Sessions -> BOOLEAN]
    BY DEF PtyInv, PtyTypeOK
  <2>2. s \in 1..created
    BY <1>1, <2>1
  <2>3. QED
    BY <2>1, <2>2 DEF None
<1>5. /\ new \in [session : 0..created, open : BOOLEAN, got : Seq(Nat), exit : BOOLEAN]
      /\ new.session = s /\ new.open = alive[s] /\ new.exit = ~alive[s] /\ new.got = replay
  BY <1>3, <1>4
<1>6. QED
  BY <1>1, <1>3, <1>4, <1>5, StreamChanges

LEMMA CancelKeeps ==
  ASSUME NEW u \in Subscribers, PtyInv, Cancel(u)
  PROVE  PtyInv'
<1>1. <<>> \in Seq(Nat) /\ Len(<<>>) = 0
  BY EmptySeqFacts
<1>2. /\ NoStream \in [session : 0..created, open : BOOLEAN, got : Seq(Nat), exit : BOOLEAN]
      /\ NoStream.session = None /\ ~NoStream.open /\ Consecutive(NoStream.got)
  BY <1>1 DEF NoStream, None, Consecutive, PtyInv, PtyTypeOK
<1>3. QED
  BY <1>2, StreamChanges DEF Cancel

LEMMA PtyInvStep == PtyInv /\ [PtyNext]_ptyVars => PtyInv'
<1> SUFFICES ASSUME PtyInv, [PtyNext]_ptyVars PROVE PtyInv'
  OBVIOUS
<1>1. /\ timers \in [Sessions -> SUBSET {"kill", "prune"}] /\ created \in Nat
      /\ request \in [Requests -> [kind : {"idle", "create", "input", "resize"},
                                   session : 0..created]]
  BY DEF PtyInv, PtyTypeOK
<1>2. ASSUME NEW r \in Requests, NEW verb \in {"create", "input", "resize"},
             NEW s \in 0..created, Await(r, verb, s)
      PROVE  PtyInv'
  <2>1. request' = [request EXCEPT ![r] = [kind |-> verb, session |-> s]]
        /\ UNCHANGED <<created, listed, alive, ttyVars, masterFd, outVars, timers, stream>>
    BY <1>2 DEF Await
  <2>2. request' \in [Requests -> [kind : {"idle", "create", "input", "resize"},
                                  session : 0..created]]
    BY <1>1, <2>1
  <2>3. QED
    BY <1>1, <2>1, <2>2, BookkeepingKeeps
<1>3. ASSUME NEW r \in Requests, Finish(r) PROVE PtyInv'
  <2>1. request' = [request EXCEPT ![r] = Idle]
        /\ UNCHANGED <<created, listed, alive, ttyVars, masterFd, outVars, timers, stream>>
    BY <1>3 DEF Finish
  <2>2. request' \in [Requests -> [kind : {"idle", "create", "input", "resize"},
                                  session : 0..created]]
    BY <1>1, <2>1 DEF Idle, None
  <2>3. QED
    BY <1>1, <2>1, <2>2, BookkeepingKeeps
<1>4. ASSUME NEW r \in Requests,
             \/ CreateRequest(r) \/ CreateSession(r) \/ CreateFails(r)
             \/ WriteInput(r) \/ SetWinsize(r)
             \/ \E s \in Sessions : InputRequest(r, s) \/ ResizeRequest(r, s)
      PROVE  PtyInv'
  <2>1. CASE CreateRequest(r)
    BY <1>1, <1>2, <2>1 DEF CreateRequest, None
  <2>2. CASE CreateSession(r)
    BY <2>2, CreateSessionKeeps
  <2>3. CASE CreateFails(r) \/ WriteInput(r) \/ SetWinsize(r)
    BY <1>3, <2>3 DEF CreateFails, WriteInput, SetWinsize, Finish
  <2>4. ASSUME NEW s \in Sessions, InputRequest(r, s) \/ ResizeRequest(r, s) PROVE PtyInv'
    <3>1. s \in 0..created
      <4>1. s \in listed /\ listed \subseteq 1..created
        BY <2>4 DEF InputRequest, ResizeRequest, PtyInv, PtyTypeOK
      <4>2. QED
        BY <1>1, <4>1
    <3>2. QED
      BY <1>2, <2>4, <3>1 DEF InputRequest, ResizeRequest
  <2>5. QED
    BY <1>4, <2>1, <2>2, <2>3, <2>4
<1>5. ASSUME NEW s \in Sessions, ShellWrites(s) \/ ShellExits(s) \/ JobExits(s) PROVE PtyInv'
  BY <1>5, ShellKeeps
<1>6. ASSUME NEW s \in Sessions, OnExit(s) \/ ReadChunk(s) \/ ReadEnd(s) PROVE PtyInv'
  BY <1>6, OnExitKeeps, ReadChunkKeeps, ReadEndKeeps
<1>7. ASSUME NEW s \in Sessions, Delete(s) \/ PruneTimer(s) PROVE PtyInv'
  <2>1. UNCHANGED <<created, alive, ttyVars, masterFd, outVars, stream, request>>
        /\ listed' \subseteq listed
    BY <1>7 DEF Delete, PruneTimer
  <2>2. timers' \in [Sessions -> SUBSET {"kill", "prune"}]
    BY <1>1, <1>7 DEF Delete, PruneTimer
  <2>3. QED
    BY <1>1, <2>1, <2>2, BookkeepingKeeps
<1>8. ASSUME NEW s \in Sessions, KillTimer(s) PROVE PtyInv'
  BY <1>8, KillTimerKeeps
<1>9. ASSUME NEW u \in Subscribers, NEW s \in Sessions, Attach(u, s) PROVE PtyInv'
  BY <1>9, AttachKeeps
<1>10. ASSUME NEW u \in Subscribers, Cancel(u) PROVE PtyInv'
  BY <1>10, CancelKeeps
<1>11. CASE UNCHANGED ptyVars
  <2>1. UNCHANGED <<created, alive, ttyVars, masterFd, outVars, stream, listed, timers, request>>
    BY <1>11 DEF ptyVars
  <2>2. QED
    BY <1>1, <2>1, BookkeepingKeeps
<1>12. QED
  BY <1>4, <1>5, <1>6, <1>7, <1>8, <1>9, <1>10, <1>11 DEF PtyNext

\* In every reachable state descriptors, scrollbacks and streams are what FdInv,
\* OutInv and ShownInv say.
THEOREM PtyInvariant == PtySpec => []PtyInv
  BY PtyInvInit, PtyInvStep, PTL DEF PtySpec, PtySafeSpec

\* Every reachable state of the terminal sessions is well typed (pty.ts:44-58).
THEOREM PtyTyped == PtySpec => []PtyTypeOK
<1>1. PtyInv => PtyTypeOK
  BY DEF PtyInv
<1>2. QED
  BY <1>1, PtyInvariant, PTL

\* Every stream is the whole kept output and what follows it, without a gap or
\* a repetition, for any scrollback limit (pty.ts:383-385).
THEOREM ReplayedInFull == PtySpec => []FullReplayNoGap
  BY PtyInvSuffices, PtyInvariant, PTL

\* A stream is open exactly as long as its session lives, and tells its end
\* (ARCHITECTURE.md:151-152).
THEOREM ExitsAreTold == PtySpec => []NoSilentDeadTerminal
  BY PtyInvSuffices, PtyInvariant, PTL

\* A loop with output to read reads its own session's pty, however descriptors
\* are reused (pty.ts:289-295).
THEOREM LoopOwnsDescriptor == PtySpec => []ReadLoopOwnsDescriptor
  BY PtyInvSuffices, PtyInvariant, PTL
=============================================================================
