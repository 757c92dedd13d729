------------------------------ MODULE WsClient ------------------------------
(***************************************************************************)
(* The call multiplexer of src/ui/lib/ws.ts: wsCall and wsSubscribe share  *)
(* one socket to /app/ws, opened on demand.  A call is connecting, waiting *)
(* out its one backoff, pending (sent, its promise unsettled) or settled.  *)
(*                                                                         *)
(* The webview runs one event-loop task at a time; the microtasks a task   *)
(* leaves (the continuation of every caller that awaits connect()) run     *)
(* before the next task, so they belong to the task's action.  A closing   *)
(* socket passes through CLOSING in a task of its own: its onclose comes   *)
(* later, and other tasks run in between.                                  *)
(***************************************************************************)
EXTENDS Naturals, FiniteSets

CONSTANTS Calls,       \* the invocations of wsCall
          Domains,     \* the event domains wsSubscribe is given
          MaxSockets   \* bound: sockets the client constructs

ASSUME ClientAssumption == IsFiniteSet(Calls) /\ MaxSockets \in Nat

Sockets == 1..MaxSockets
NoSocket == 0

VARIABLES readyState,   \* socket -> its readyState
          made,         \* how many sockets were constructed
          socket,       \* the module's `socket`
          state,        \* the module's `state`
          connecting,   \* `connectPromise`: "none", "ticket" or the socket awaited
          call,         \* call -> where it is
          carrier,      \* call -> the socket it was sent on
          attempts,     \* call -> connects it asked for
          subscribed,   \* subscribedDomains
          waiting,      \* domains wsSubscribe sends once connected
          daemonSubs    \* socket -> the domains the daemon was asked for on it

netVars == <<readyState, made, socket, state, connecting>>
callVars == <<call, carrier, attempts>>
subVars == <<subscribed, waiting, daemonSubs>>
clientVars == <<netVars, callVars, subVars>>

CallState == {"idle", "connecting", "backoff", "pending",
              "resolved", "failed", "unavailable", "closed", "timedOut"}

ClientInit ==
  /\ readyState = [s \in Sockets |-> "none"] /\ made = 0
  /\ socket = NoSocket /\ state = "idle" /\ connecting = "none"
  /\ call = [c \in Calls |-> "idle"] /\ carrier = [c \in Calls |-> NoSocket]
  /\ attempts = [c \in Calls |-> 0]
  /\ subscribed = {} /\ waiting = {} /\ daemonSubs = [s \in Sockets |-> {}]

----------------------------------------------------------------------------
In(where) == {c \in Calls : call[c] = where}

\* Seeded bug: an attempt under way is not shared.
StartConnectUnshared == connecting' = "ticket" /\ state' = "connecting"

\* connect() resolves at once on an open socket, else shares or starts an
\* attempt.
IsOpen(s) == s # NoSocket /\ readyState[s] = "OPEN"

StartConnect ==
  IF connecting = "none"
  THEN connecting' = "ticket" /\ state' = "connecting"
  ELSE UNCHANGED <<connecting, state>>

\* pending.set(id, ...) and ws.send of the calls in cs.
SendOn(s, cs) ==
  /\ call' = [c \in Calls |-> IF c \in cs THEN "pending" ELSE call[c]]
  /\ carrier' = [c \in Calls |-> IF c \in cs THEN s ELSE carrier[c]]

\* wsCall(c), or its second connect() after the backoff.
CallConnects(c) ==
  /\ attempts' = [attempts EXCEPT ![c] = @ + 1]
  /\ IF IsOpen(socket)
     THEN SendOn(socket, {c}) /\ UNCHANGED <<connecting, state>>
     ELSE /\ call' = [call EXCEPT ![c] = "connecting"]
          /\ StartConnect
          /\ UNCHANGED carrier
  /\ UNCHANGED <<readyState, made, socket, subVars>>

WsCall(c) == call[c] = "idle" /\ CallConnects(c)
BackoffOver(c) == call[c] = "backoff" /\ CallConnects(c)

\* wsSubscribe({d}, ...) connects, but sends only a domain not yet subscribed.
WsSubscribe(d) ==
  LET added == {d} \ subscribed
  IN  /\ subscribed' = subscribed \cup {d}
      /\ IF IsOpen(socket)
         THEN /\ daemonSubs' = [daemonSubs EXCEPT ![socket] = @ \cup added]
              /\ UNCHANGED <<waiting, connecting, state>>
         ELSE waiting' = waiting \cup added /\ StartConnect /\ UNCHANGED daemonSubs
      /\ UNCHANGED <<readyState, made, socket, callVars>>

NeverGivesUp(c) == IF call[c] = "connecting" /\ attempts[c] = 1 THEN "backoff" ELSE call[c]

\* A caller of a failed connect() backs off the first time and gives up the
\* second.
AfterFailedConnect(c) ==
  IF call[c] = "connecting"
  THEN IF attempts[c] = 1 THEN "backoff" ELSE "unavailable"
  ELSE call[c]

\* failAllPending: whatever socket it was sent on.
AfterFailAllPending(c) == IF call[c] = "pending" THEN "closed" ELSE AfterFailedConnect(c)

\* A failed connect(); a waiting subscription gives up silently.
FailConnect == connecting' = "none" /\ state' = "closed" /\ waiting' = {}

\* fetchTicket() came back and the socket is constructed (without a ticket
\* the bridge will refuse the upgrade), or the constructor throws.
TicketFetched ==
  /\ connecting = "ticket"
  /\ \/ /\ made < MaxSockets
        /\ made' = made + 1
        /\ readyState' = [readyState EXCEPT ![made + 1] = "CONNECTING"]
        /\ connecting' = "socket"
        /\ UNCHANGED <<socket, state, callVars, subVars>>
     \/ /\ FailConnect
        /\ call' = [c \in Calls |-> AfterFailedConnect(c)]
        /\ UNCHANGED <<readyState, made, socket, carrier, attempts, subscribed, daemonSubs>>

\* Seeded bug: only the new domains are sent on a new socket.
OnOpenUnarmed ==
  /\ connecting = "socket"
  /\ readyState' = [readyState EXCEPT ![made] = "OPEN"]
  /\ socket' = made /\ state' = "open" /\ connecting' = "none"
  /\ daemonSubs' = [daemonSubs EXCEPT ![made] = waiting]
  /\ waiting' = {}
  /\ SendOn(made, In("connecting"))
  /\ UNCHANGED <<made, attempts, subscribed>>

\* ws.onopen: adopt the socket, re-arm the subscriptions, resume the callers.
OnOpen ==
  /\ connecting = "socket"
  /\ readyState' = [readyState EXCEPT ![made] = "OPEN"]
  /\ socket' = made /\ state' = "open" /\ connecting' = "none"
  /\ daemonSubs' = [daemonSubs EXCEPT ![made] = subscribed]
  /\ waiting' = {}
  /\ SendOn(made, In("connecting"))
  /\ UNCHANGED <<made, attempts, subscribed>>

\* ws.onerror and ws.onclose of a socket that never opened.
OnConnectFailed ==
  /\ connecting = "socket"
  /\ readyState' = [readyState EXCEPT ![made] = "CLOSED"]
  /\ FailConnect
  /\ call' = [c \in Calls |-> AfterFailAllPending(c)]
  /\ UNCHANGED <<made, socket, carrier, attempts, subscribed, daemonSubs>>

\* The closing handshake starts; no handler runs.
StartsClosing(s) ==
  /\ readyState[s] = "OPEN"
  /\ readyState' = [readyState EXCEPT ![s] = "CLOSING"]
  /\ UNCHANGED <<made, socket, state, connecting, callVars, subVars>>

\* Seeded bug: the close of a superseded socket fails no call.
OnCloseCurrentOnly(s) ==
  /\ readyState[s] \in {"OPEN", "CLOSING"}
  /\ readyState' = [readyState EXCEPT ![s] = "CLOSED"]
  /\ socket' = IF socket = s THEN NoSocket ELSE socket
  /\ state' = "closed"
  /\ call' = [c \in Calls |->
                IF call[c] = "pending" /\ socket = s THEN "closed" ELSE call[c]]
  /\ UNCHANGED <<made, connecting, carrier, attempts, subVars>>

\* ws.onclose of a socket that was open.
OnClose(s) ==
  /\ readyState[s] \in {"OPEN", "CLOSING"}
  /\ readyState' = [readyState EXCEPT ![s] = "CLOSED"]
  /\ socket' = IF socket = s THEN NoSocket ELSE socket
  /\ state' = "closed"
  /\ call' = [c \in Calls |-> IF call[c] = "pending" THEN "closed" ELSE call[c]]
  /\ UNCHANGED <<made, connecting, carrier, attempts, subVars>>

\* handleMessage: a response settles its call, unless that is settled.
OnResponse(c) ==
  /\ IsOpen(carrier[c])
  /\ IF call[c] = "pending"
     THEN \E outcome \in {"resolved", "failed"} : call' = [call EXCEPT ![c] = outcome]
     ELSE UNCHANGED call
  /\ UNCHANGED <<netVars, carrier, attempts, subVars>>

\* The call's timer.
CallTimeout(c) ==
  /\ call[c] = "pending"
  /\ call' = [call EXCEPT ![c] = "timedOut"]
  /\ UNCHANGED <<netVars, carrier, attempts, subVars>>

ClientNext ==
  \/ TicketFetched \/ OnOpen \/ OnConnectFailed
  \/ \E c \in Calls : WsCall(c) \/ BackoffOver(c) \/ OnResponse(c) \/ CallTimeout(c)
  \/ \E s \in Sockets : StartsClosing(s) \/ OnClose(s)
  \/ \E d \in Domains : WsSubscribe(d)

(***************************************************************************)
(* Fairness: fetches, handshakes and timers end.  Nobody has to call,      *)
(* subscribe, answer or close.                                             *)
(***************************************************************************)
ClientFairness ==
  /\ WF_clientVars(TicketFetched)
  /\ WF_clientVars(OnOpen \/ OnConnectFailed)
  /\ \A c \in Calls : WF_clientVars(BackoffOver(c)) /\ WF_clientVars(CallTimeout(c))

ClientSafeSpec == ClientInit /\ [][ClientNext]_clientVars
ClientSpec == ClientSafeSpec /\ ClientFairness

----------------------------------------------------------------------------
Settled == {"resolved", "failed", "unavailable", "closed", "timedOut"}

ClientTypeOK ==
  /\ readyState \in [Sockets -> {"none", "CONNECTING", "OPEN", "CLOSING", "CLOSED"}]
  /\ made \in 0..MaxSockets /\ socket \in 0..made
  /\ state \in {"idle", "connecting", "open", "closed"}
  /\ connecting \in {"none", "ticket", "socket"}
  /\ call \in [Calls -> CallState] /\ carrier \in [Calls -> 0..made]
  /\ attempts \in [Calls -> 0..2]
  /\ subscribed \subseteq Domains /\ waiting \subseteq subscribed
  /\ daemonSubs \in [Sockets -> SUBSET Domains]

\* However many callers ask for a connection at once, and whatever is still
\* closing, at most one socket is connecting or open, and a connect() under
\* way means none is open (ws.ts:111-114, 160-163).
OneLiveSocket ==
  /\ \A s, t \in Sockets :
       {readyState[s], readyState[t]} \subseteq {"CONNECTING", "OPEN"} => s = t
  /\ connecting # "none" => \A s \in Sockets : readyState[s] # "OPEN"

\* No call is left on a dead socket to wait out its 30 seconds: every pending
\* call was sent on a socket whose onclose has yet to run (ws.ts:148-151).
PendingFailsFast ==
  \A c \in Calls : call[c] = "pending" => readyState[carrier[c]] \in {"OPEN", "CLOSING"}

\* "Re-arm domain subscriptions across reconnects" (ws.ts:134): the daemon
\* was asked, on the open socket, for exactly the domains subscribed so far,
\* in whatever order subscribing, connecting and closing happened.
SubscriptionsArmed == IsOpen(socket) => daemonSubs[socket] = subscribed

\* Every call settles, with at most one retry, even if nothing ever answers.
EveryCallSettles == \A c \in Calls : call[c] # "idle" ~> call[c] \in Settled

=============================================================================
