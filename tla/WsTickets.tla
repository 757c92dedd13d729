----------------------------- MODULE WsTickets ------------------------------
(***************************************************************************)
(* The ticket gate of src/bun/ws-bridge.ts: GET /app/ws-ticket issues a    *)
(* short-lived ticket, the /app/ws upgrade consumes one.  Tickets are      *)
(* numbered in the order they are issued (random UUIDs in the code), so    *)
(* the Map's iteration order is the order of the numbers.                  *)
(***************************************************************************)
EXTENDS Integers, FiniteSets

CONSTANTS MaxPendingTickets,  \* MAX_PENDING_TICKETS
          TicketTtl,          \* TICKET_TTL_MS, in clock ticks
          MaxTickets,         \* bound: tickets issued
          MaxTime             \* bound: last clock tick

ASSUME TicketAssumption ==
  /\ MaxPendingTickets \in Nat \ {0} /\ TicketTtl \in Nat \ {0}
  /\ MaxTickets \in Nat /\ MaxTime \in Nat

VARIABLES now,       \* Date.now()
          ready,     \* daemon.token # ""
          issued,    \* how many tickets were issued
          tickets,   \* the Map: live ticket -> expiry
          deadline,  \* issued ticket -> the expiry it was issued with (history)
          opened,    \* issued ticket -> sockets it opened (history)
          response   \* the last answer to an upgrade request

vars == <<now, ready, issued, tickets, deadline, opened, response>>

NoTicket == 0        \* a missing, empty or made-up ?ticket=
NoResponse == [ticket |-> NoTicket, status |-> 0]
Answer(ticket, status) == response' = [ticket |-> ticket, status |-> status]

Init == /\ now = 0 /\ ready = FALSE /\ issued = 0
        /\ tickets = <<>> /\ deadline = <<>> /\ opened = <<>>
        /\ response = NoResponse

----------------------------------------------------------------------------
PruneTicketsNewest(at) ==
  LET live == {t \in DOMAIN tickets : tickets[t] > at}
  IN  {t \in live : Cardinality({u \in live : u < t}) < MaxPendingTickets - 1}

\* The tickets pruneTickets keeps: the unexpired ones, the oldest evicted
\* while there is no room for one more.
PruneTickets(at) ==
  LET live == {t \in DOMAIN tickets : tickets[t] > at}
  IN  {t \in live : Cardinality({u \in live : u > t}) < MaxPendingTickets - 1}

Expiry(at) == at + TicketTtl

IssueTicket ==
  /\ issued < MaxTickets
  /\ LET ticket == issued + 1
         expiry == Expiry(now)
     IN  /\ issued' = ticket
         /\ tickets' = [t \in PruneTickets(now) \cup {ticket} |->
                          IF t = ticket THEN expiry ELSE tickets[t]]
         /\ deadline' = [t \in 1..ticket |-> IF t = ticket THEN expiry ELSE deadline[t]]
         /\ opened' = [t \in 1..ticket |-> IF t = ticket THEN 0 ELSE opened[t]]
  /\ UNCHANGED <<now, ready, response>>

TicketValid(ticket, at) == ticket \in DOMAIN tickets /\ tickets[ticket] > at

\* Seeded bug: a ticket that validates is kept.
RedeemTicketKeeps(ticket) == UNCHANGED tickets
RedeemTicket(ticket) ==
  tickets' = [t \in DOMAIN tickets \ {ticket} |-> tickets[t]]

\* handleUpgrade: checked without consuming, then consumed; the clock may
\* move between the two reads of it.  server.upgrade() fails on a request
\* that is no websocket handshake.
HandleUpgrade(ticket, later) ==
  /\ now' = later
  /\ \/ /\ ~TicketValid(ticket, now)
        /\ Answer(ticket, 403) /\ UNCHANGED <<tickets, opened>>
     \/ /\ TicketValid(ticket, now) /\ ~ready
        /\ Answer(ticket, 503) /\ UNCHANGED <<tickets, opened>>
     \/ /\ TicketValid(ticket, now) /\ ready
        /\ RedeemTicket(ticket)
        /\ \/ /\ ~TicketValid(ticket, later)
              /\ Answer(ticket, 403) /\ UNCHANGED opened
           \/ /\ TicketValid(ticket, later)
              /\ Answer(ticket, 101) /\ opened' = [opened EXCEPT ![ticket] = @ + 1]
           \/ /\ TicketValid(ticket, later)
              /\ Answer(ticket, 426) /\ UNCHANGED opened
  /\ UNCHANGED <<ready, issued, deadline>>

\* main() stores the adopted daemon's token in the handle, once.
DaemonAdopted == ~ready /\ ready' = TRUE
                 /\ UNCHANGED <<now, issued, tickets, deadline, opened, response>>

Tick == now < MaxTime /\ now' = now + 1
        /\ UNCHANGED <<ready, issued, tickets, deadline, opened, response>>

UpgradeRequest == \E ticket \in {NoTicket} \cup 1..issued, later \in now..(now + 1) :
                    later <= MaxTime /\ HandleUpgrade(ticket, later)

Next == IssueTicket \/ UpgradeRequest \/ DaemonAdopted \/ Tick

Spec == Init /\ [][Next]_vars

----------------------------------------------------------------------------
TypeOK ==
  /\ now \in Nat /\ ready \in BOOLEAN /\ issued \in Nat
  /\ DOMAIN tickets \subseteq 1..issued
  /\ tickets \in [DOMAIN tickets -> Nat]
  /\ deadline \in [1..issued -> Nat] /\ opened \in [1..issued -> Nat]
  /\ response \in [ticket : Nat, status : {0, 101, 403, 426, 503}]

\* Tickets are single-use (ws-bridge.ts:7-9, 111): however often a ticket is
\* presented, it opens at most one socket.
OneSocketPerTicket == \A t \in 1..issued : opened[t] <= 1

\* Outstanding tickets are capped (ws-bridge.ts:21-22).
OutstandingCapped == Cardinality(DOMAIN tickets) <= MaxPendingTickets

\* Eviction is oldest-first (ws-bridge.ts:21): a ticket that is unexpired and
\* was not presented to a ready bridge is still good while fewer than
\* MAX_PENDING_TICKETS tickets were issued after it.
FreshTicketSurvivesStep ==
  \A t \in DOMAIN tickets :
    \/ t \in DOMAIN tickets'
    \/ response' # response /\ response'.ticket = t
    \/ tickets[t] <= now
    \/ issued' - t >= MaxPendingTickets
FreshTicketSurvives == [][FreshTicketSurvivesStep]_vars

\* A 503 keeps the ticket "so the UI can retry the same ticket"
\* (ws-bridge.ts:229-231): only an answer of a ready bridge takes a ticket
\* out of the Map.
NotReadyKeepsTicket == [][~ready /\ issued' = issued => tickets' = tickets]_vars
=============================================================================
