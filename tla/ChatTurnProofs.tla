--------------------------- MODULE ChatTurnProofs ---------------------------
(***************************************************************************)
(* Theorems about the chat view, for any number of chats, messages, frames *)
(* and failures: a message of the daemon is on screen at most once, and    *)
(* one that was on screen stays.                                           *)
(*                                                                         *)
(* A message is known by two ids, and by none while its send is under way, *)
(* so the invariant says which local message stands for which stored one.  *)
(* LogInv: the daemon gives an id once.  ListInv: the view's list is a     *)
(* start of the daemon's log, and never goes back.  ContentInv: a local    *)
(* message says what the message it stands for says.  OnceInv: no two      *)
(* stand for one.  EchoInv: the optimistic message of the send under way.  *)
(* WireInv: a frame on its way tells of a stored message for which no      *)
(* local one stands yet.                                                   *)
(***************************************************************************)
EXTENDS ChatTurn, SeqFacts, FiniteSetTheorems

Turns == [of : Ids, said : BOOLEAN]
Views == [chat : Chats \cup {No}, state : TurnStates, error : BOOLEAN, live : Seq(Ids),
          local : Seq(Local), pending : Ids \cup Echoes, metrics : Ids]
Sends == [step : {"idle", "creating", "posting", "stored", "refreshing"},
          chat : Chats \cup {No}, says : Says, steer : BOOLEAN, down : BOOLEAN, id : Ids]
Stops == [step : {"idle", "asked", "cancelled", "no turn", "mismatch"},
          chat : Chats \cup {No}, of : Ids]
Readings == [step : {"idle", "asked", "read"}, got : Seq(Message), data : BOOLEAN]

\* The full types: those TypeOK names, and those its steps rely on.
DaemonTyped ==
  /\ made \subseteq Chats /\ given \in Nat
  /\ log \in [Chats -> Seq(Message)] /\ queue \in [Chats -> Seq(Ids)]
  /\ turn \in [Chats -> Turns]
ListTyped == cache \in [Chats -> Seq(Message)] /\ read \in [Chats -> Readings]
ViewTyped ==
  /\ conn \in {"off", "connecting", "live", "reconnecting"} /\ wire \in Seq(Event)
  /\ view \in Views /\ view.chat \in made \cup {No} /\ (view.chat = No <=> conn = "off")
CallsTyped ==
  /\ sends \in 0..MaxSends
  /\ send \in Sends /\ (send.step # "idle" => sends > 0)
  /\ send.step \in {"posting", "stored", "refreshing"} => send.chat \in Chats
  /\ stop \in Stops /\ (stop.step # "idle" => stop.chat \in Chats)
Typed == DaemonTyped /\ ListTyped /\ ViewTyped /\ CallsTyped

\* One sequence is the start of another.
Opens(s, t) == Len(s) <= Len(t) /\ \A k \in 1..Len(s) : s[k] = t[k]

\* An id is given once.
LogInv ==
  \A c \in Chats : \A j \in 1..Len(log[c]) :
    /\ log[c][j].id \in 1..given
    /\ \A d \in Chats : \A k \in 1..Len(log[d]) : log[c][j].id = log[d][k].id => c = d /\ j = k

\* What was read is the start of what is stored, and the list never goes back.
ListInv ==
  \A c \in Chats : /\ Opens(cache[c], log[c]) /\ Opens(read[c].got, log[c])
                   /\ read[c].step = "read" => Opens(cache[c], read[c].got)

\* Local message k stands for message n of the daemon.
Stands(k, n) == n > 0 /\ StandsFor(view.local[k], n)

Known(c, n, role, says) ==
  \E j \in 1..Len(log[c]) : log[c][j].id = n /\ log[c][j].role = role /\ log[c][j].says = says

\* A local message says what the message it stands for says.
ContentInv == \A k \in 1..Len(view.local) : \A n \in Nat : Stands(k, n) =>
  Known(view.local[k].chat, n, view.local[k].role, view.local[k].says)

\* No two local messages stand for one.
OnceInv == \A j, k \in 1..Len(view.local) : \A n \in Nat : Stands(j, n) /\ Stands(k, n) => j = k

\* The optimistic message of the send under way.
EchoOK(k) ==
  LET m == view.local[k] IN
  /\ m.id >= -sends /\ m.id # 0
  /\ send.step = "creating" => m.id # Echo
  /\ m.id = Echo => \A j \in 1..Len(view.local) : view.local[j].id = Echo => j = k
  /\ m.id = Echo /\ send.step \in {"posting", "stored"} =>
       m.chat = send.chat /\ m.role = "user" /\ m.for = 0
  /\ m.id = Echo /\ send.step = "posting" => m.says = send.says
SendOK ==
  /\ send.step = "stored" => send.id \in 1..given
  /\ send.step \in {"creating", "posting"} => send.id = 0
EchoInv == SendOK /\ \A k \in 1..Len(view.local) : EchoOK(k)

\* A frame on its way tells of a message of the chat on screen, and no local
\* message stands for that yet.
FrameOK(i) ==
  /\ wire[i].type = "completed" => wire[i].id # 0
  /\ wire[i].id # 0 =>
       /\ Known(view.chat, wire[i].id, "assistant", <<wire[i].turn, wire[i].cut>>)
       /\ \A k \in 1..Len(view.local) : ~Stands(k, wire[i].id)
       /\ \A j \in 1..Len(wire) : wire[j].id = wire[i].id => i = j
WireInv == (wire # <<>> => conn = "live") /\ \A i \in 1..Len(wire) : FrameOK(i)

Inv == LogInv /\ ListInv /\ ContentInv /\ OnceInv /\ EchoInv /\ WireInv

-----------------------------------------------------------------------------
(***************************************************************************)
(* Types                                                                   *)
(***************************************************************************)
USE ChatAssumption

\* Settling changes the state and what is pending, and nothing else.
LEMMA SettledFacts ==
  ASSUME NEW v \in Views, NEW list
  PROVE  /\ Settled(v, list) \in Views
         /\ Settled(v, list).chat = v.chat /\ Settled(v, list).local = v.local
         /\ Settled(v, list).live = v.live /\ Settled(v, list).error = v.error
<1>1. CASE LastIsReply(v, list) \/ Replied(v, list)
  BY <1>1 DEF Settled, Views, TurnStates, Ids
<1>2. CASE ~(LastIsReply(v, list) \/ Replied(v, list))
  BY <1>2 DEF Settled
<1>3. QED
  BY <1>1, <1>2

LEMMA BecomesFacts ==
  ASSUME NEW v \in Views, Becomes(v)
  PROVE  /\ view' \in Views /\ view'.chat = v.chat /\ view'.local = v.local
         /\ view'.live = v.live /\ view'.error = v.error
  BY SettledFacts DEF Becomes

\* The reads that are asked for are reads.
LEMMA ReadFacts ==
  ASSUME ListTyped
  PROVE  /\ Unread \in Readings /\ [Unread EXCEPT !.step = "asked"] \in Readings
         /\ [Unread EXCEPT !.data = TRUE] \in Readings
         /\ \A c \in Chats : ReadAgain(c) \in [Chats -> Readings]
         /\ \A c \in Chats : Invalidated(c) \in [Chats -> Readings]
<1>1. <<>> \in Seq(Message)
  BY EmptySeqFacts
<1>2. /\ Unread \in Readings /\ [Unread EXCEPT !.step = "asked"] \in Readings
      /\ [Unread EXCEPT !.data = TRUE] \in Readings
  BY <1>1 DEF Readings, Unread
<1>3. ASSUME NEW c \in Chats PROVE ReadAgain(c) \in [Chats -> Readings]
  BY <1>1 DEF ListTyped, Readings, ReadAgain
<1>4. QED
  BY <1>2, <1>3 DEF ListTyped, Invalidated

LEMMA OpenStreamFacts ==
  ASSUME ListTyped, NEW c \in Chats, OpenStream(c)
  PROVE  read' \in [Chats -> Readings] /\ wire' = <<>> /\ conn' = "connecting"
  BY ReadFacts DEF OpenStream, ListTyped

\* What turns leave is messages and frames.
LEMMA ReplyFacts ==
  ASSUME DaemonTyped, NEW c \in Chats, NEW id \in Ids, NEW cut \in BOOLEAN,
         NEW type \in {"started", "delta", "completed", "cancelled", "error"}
  PROVE  Reply(c, id, cut) \in Message /\ Ended(c, type, id) \in Event
  BY DEF DaemonTyped, Reply, Ended, Message, Event, Says, Ids, Turns

LEMMA ReplySays ==
  ASSUME NEW c, NEW id
  PROVE  /\ Reply(c, id, TRUE).says = <<turn[c].of, TRUE>>
         /\ Reply(c, id, FALSE).says = <<turn[c].of, FALSE>>
  BY Zenon DEF Reply

LEMMA PartialFacts ==
  ASSUME DaemonTyped, NEW c \in Chats
  PROVE  /\ Partial(c) \in Seq(Message) /\ Cancelled(c) \in Event /\ Len(Partial(c)) \in 0..1
         /\ turn[c].said => Partial(c) = <<Reply(c, NextId, TRUE)>> /\ Len(Partial(c)) = 1
         /\ ~turn[c].said => Partial(c) = <<>> /\ Len(Partial(c)) = 0
<1>1. NextId \in Ids /\ 0 \in Ids
  BY DEF NextId, DaemonTyped, Ids
<1>2. Reply(c, NextId, TRUE) \in Message
  BY <1>1, ReplyFacts
<1>3. Cancelled(c) \in Event
  BY <1>1, ReplyFacts DEF Cancelled
<1>4. CASE turn[c].said
  <2>1. Partial(c) = <<Reply(c, NextId, TRUE)>>
    BY <1>4 DEF Partial
  <2>2. \A x \in Message : <<x>> \in Seq(Message) /\ Len(<<x>>) = 1
    OBVIOUS
  <2>3. <<Reply(c, NextId, TRUE)>> \in Seq(Message) /\ Len(<<Reply(c, NextId, TRUE)>>) = 1
    BY <1>2, <2>2
  <2>4. Partial(c) \in Seq(Message) /\ Len(Partial(c)) = 1
    BY <2>1, <2>3
  <2>5. Len(Partial(c)) \in 0..1
    BY <2>4
  <2>6. QED
    BY <1>3, <1>4, <2>1, <2>4, <2>5, Zenon
<1>5. CASE ~turn[c].said
  <2>1. Partial(c) = <<>>
    BY <1>5 DEF Partial
  <2>2. QED
    BY <1>3, <1>5, <2>1, EmptySeqFacts
<1>6. QED
  BY <1>4, <1>5

\* A frame joins the others if the stream of its chat is open.
LEMMA EmitFacts ==
  ASSUME wire \in Seq(Event), NEW c, NEW e \in Event
  PROVE  /\ Emit(c, <<e>>) => /\ wire' \in Seq(Event)
                              /\ wire' = IF Hears(c) THEN Append(wire, e) ELSE wire
         /\ Emit(c, <<>>) => wire' = wire
<1>1. wire \o <<e>> = Append(wire, e) /\ wire \o <<>> = wire
  OBVIOUS
<1>2. QED
  BY <1>1, AppendFacts DEF Emit

LEMMA InitTyped == Init => Typed
<1> SUFFICES ASSUME Init PROVE Typed
  OBVIOUS
<1>1. DaemonTyped
  BY EmptySeqFacts DEF Init, DaemonTyped, Quiet, Turns, Ids
<1>2. ListTyped
  <2>1. Unread \in Readings /\ [Unread EXCEPT !.step = "asked"] \in Readings
    BY EmptySeqFacts DEF Unread, Readings
  <2>2. QED
    BY <2>1, EmptySeqFacts DEF Init, ListTyped
<1>3. view \in Views
  BY EmptySeqFacts DEF Init, Views, TurnStates, Ids
<1>4. ViewTyped
  BY <1>3, EmptySeqFacts DEF Init, ViewTyped
<1>5. NoSend \in Sends /\ NoStop \in Stops
  BY DEF NoSend, NoStop, Sends, Stops, Says, Ids
<1>6. CallsTyped
  BY <1>5 DEF Init, CallsTyped, NoSend, NoStop
<1>7. QED
  BY <1>1, <1>2, <1>4, <1>6 DEF Typed

LEMMA UnchangedTyped ==
  ASSUME Typed
  PROVE  /\ UNCHANGED daemonVars => DaemonTyped'
         /\ UNCHANGED listVars => ListTyped'
         /\ UNCHANGED <<made, conn, wire, view>> => ViewTyped'
         /\ UNCHANGED <<send, stop, sends>> => CallsTyped'
  BY DEF Typed, DaemonTyped, ListTyped, ViewTyped, CallsTyped, daemonVars, listVars

\* What most steps of the view leave of ViewTyped.
LEMMA ViewKept ==
  ASSUME Typed, view' \in Views, view'.chat = view.chat, made' = made, wire' \in Seq(Event),
         conn' = conn \/ (conn # "off" /\ conn' \in {"live", "reconnecting"})
  PROVE  ViewTyped'
  BY DEF Typed, ViewTyped

LEMMA TurnsTyped ==
  ASSUME Typed, Daemon
  PROVE  Typed'
<1> USE DEF Typed
<1>0. NextId \in Ids /\ 0 \in Ids /\ Quiet \in Turns
  BY DEF DaemonTyped, NextId, Ids, Quiet, Turns
<1>1. ASSUME NEW c \in Chats, Begins(c) PROVE Typed'
  <2>1. Head(queue[c]) \in Ids /\ Tail(queue[c]) \in Seq(Ids)
    BY <1>1, TailFacts DEF Begins, DaemonTyped
  <2>2. DaemonTyped'
    BY <1>1, <2>1 DEF Begins, DaemonTyped, Turns
  <2>3. wire' \in Seq(Event)
    <3>1. [type |-> "started", turn |-> Head(queue[c]), id |-> 0, cut |-> FALSE] \in Event
      BY <2>1 DEF Event, Ids
    <3>2. QED
      BY <1>1, <3>1, EmitFacts DEF Begins, ViewTyped
  <2>4. QED
    BY <1>1, <2>2, <2>3, UnchangedTyped, ViewKept DEF Begins, ViewTyped, listVars, bounds
<1>2. ASSUME NEW c \in Chats, Talks(c) PROVE Typed'
  <2>1. DaemonTyped'
    BY <1>2 DEF Talks, DaemonTyped, Turns
  <2>2. wire' \in Seq(Event)
    <3>1. [type |-> "delta", turn |-> turn[c].of, id |-> 0, cut |-> FALSE] \in Event
      BY DEF Event, Ids, DaemonTyped, Turns
    <3>2. QED
      BY <1>2, <3>1, EmitFacts DEF Talks, ViewTyped
  <2>3. QED
    BY <1>2, <2>1, <2>2, UnchangedTyped, ViewKept DEF Talks, ViewTyped, listVars, bounds
<1>3. ASSUME NEW c \in Chats, Completes(c) PROVE Typed'
  <2>1. Reply(c, NextId, FALSE) \in Message /\ Ended(c, "completed", NextId) \in Event
    BY <1>0, ReplyFacts
  <2>2. DaemonTyped'
    BY <1>0, <1>3, <2>1, AppendFacts DEF Completes, DaemonTyped, Ids
  <2>3. wire' \in Seq(Event)
    BY <1>3, <2>1, EmitFacts DEF Completes, ViewTyped
  <2>4. QED
    BY <1>3, <2>2, <2>3, UnchangedTyped, ViewKept DEF Completes, ViewTyped, listVars, bounds
<1>4. ASSUME NEW c \in Chats, Breaks(c) PROVE Typed'
  <2>1. Ended(c, "error", 0) \in Event
    BY <1>0, ReplyFacts
  <2>2. DaemonTyped'
    BY <1>0, <1>4 DEF Breaks, DaemonTyped
  <2>3. wire' \in Seq(Event)
    BY <1>4, <2>1, EmitFacts DEF Breaks, ViewTyped
  <2>4. QED
    BY <1>4, <2>2, <2>3, UnchangedTyped, ViewKept DEF Breaks, ViewTyped, listVars, bounds
<1>5. CASE Cancels
  <2> DEFINE c == stop.chat
  <2>1. c \in Chats
    BY <1>5 DEF Cancels, CallsTyped
  <2>2. Partial(c) \in Seq(Message) /\ Cancelled(c) \in Event
    BY <2>1, PartialFacts
  <2>3. stop' \in Stops /\ stop'.chat \in Chats
    BY <1>5, <2>1 DEF Cancels, CallsTyped, Stops
  <2>4. CallsTyped'
    BY <1>5, <2>3 DEF Cancels, CallsTyped, bounds
  <2>5. DaemonTyped' /\ wire' \in Seq(Event)
    <3>1. CASE turn[c].of # 0 /\ stop.of \in {0, turn[c].of}
      <4>1. DaemonTyped'
        <5>1. log[c] \o Partial(c) \in Seq(Message) /\ Len(Partial(c)) \in Nat
          BY <2>1, <2>2, ConcatFacts DEF DaemonTyped
        <5>2. /\ log' = [log EXCEPT ![c] = log[c] \o Partial(c)] /\ given' = given + Len(Partial(c))
              /\ turn' = [turn EXCEPT ![c] = Quiet] /\ UNCHANGED <<queue, made>>
          BY <1>5, <3>1 DEF Cancels
        <5>3. QED
          BY <1>0, <2>1, <5>1, <5>2 DEF DaemonTyped
      <4>2. QED
        BY <1>5, <2>2, <3>1, <4>1, EmitFacts DEF Cancels, ViewTyped, Typed
    <3>2. CASE ~(turn[c].of # 0 /\ stop.of \in {0, turn[c].of})
      BY <1>5, <3>2 DEF Cancels, DaemonTyped, ViewTyped
    <3>3. QED
      BY <3>1, <3>2
  <2>6. QED
    BY <1>5, <2>4, <2>5, UnchangedTyped, ViewKept DEF Cancels, ViewTyped, listVars
<1>6. CASE Stores
  <2> DEFINE c == send.chat
             cut == send.steer /\ turn[c].of # 0
             before == IF cut THEN Partial(c) ELSE <<>>
             id == NextId + Len(before)
             m == [id |-> id, role |-> "user", says |-> send.says, to |-> 0]
  <2>1. c \in Chats
    BY <1>6 DEF Stores, CallsTyped
  <2>2. before \in Seq(Message) /\ Cancelled(c) \in Event
    BY <2>1, PartialFacts, EmptySeqFacts
  <2> HIDE DEF before
  <2>3. id \in Ids
    BY <1>0, <2>2 DEF Ids
  <2> HIDE DEF id
  <2>4. m \in Message
    BY <1>0, <2>3 DEF Message, CallsTyped, Sends
  <2>5. /\ log' = [log EXCEPT ![c] = @ \o Append(before, m)] /\ given' = id
        /\ queue' = [queue EXCEPT ![c] = IF send.steer THEN <<id>> \o @ ELSE Append(@, id)]
        /\ turn' = (IF cut THEN [turn EXCEPT ![c] = Quiet] ELSE turn)
        /\ Emit(c, IF cut THEN <<Cancelled(c)>> ELSE <<>>)
        /\ send' = [NoSend EXCEPT !.step = "stored", !.chat = c, !.id = id]
        /\ UNCHANGED <<made, conn, view, stop, listVars, bounds>>
    BY <1>6 DEF Stores, before, id
  <2>6. log' \in [Chats -> Seq(Message)]
    <3>1. Append(before, m) \in Seq(Message)
      BY <2>2, <2>4, AppendFacts
    <3> HIDE DEF m
    <3>2. log[c] \o Append(before, m) \in Seq(Message)
      BY <2>1, <3>1, ConcatFacts DEF DaemonTyped
    <3>3. QED
      BY <2>5, <3>2 DEF DaemonTyped
  <2>7. queue' \in [Chats -> Seq(Ids)]
    BY <2>1, <2>3, <2>5, ConsFacts, AppendFacts DEF DaemonTyped
  <2>8. DaemonTyped'
    BY <1>0, <2>3, <2>5, <2>6, <2>7 DEF DaemonTyped, Ids
  <2>9. wire' \in Seq(Event)
    <3>1. CASE cut
      BY <2>2, <2>5, <3>1, EmitFacts DEF ViewTyped
    <3>2. CASE ~cut
      BY <2>2, <2>5, <3>2, EmitFacts DEF ViewTyped
    <3>3. QED
      BY <3>1, <3>2
  <2>10. CallsTyped'
    <3>1. NoSend \in Sends
      BY <1>0 DEF NoSend, Sends, Says
    <3>2. send' \in Sends /\ send'.step = "stored" /\ send'.chat = c
      BY <2>1, <2>3, <2>5, <3>1 DEF Sends
    <3>3. QED
      BY <1>6, <2>1, <2>5, <3>2 DEF Stores, CallsTyped, bounds
  <2>11. QED
    BY <2>5, <2>8, <2>9, <2>10, UnchangedTyped, ViewKept DEF ViewTyped, listVars
<1>7. QED
  BY <1>1, <1>2, <1>3, <1>4, <1>5, <1>6 DEF Daemon

\* The optimistic message of send number n.
EchoOf(n, s) == [id |-> LocalId(n), chat |-> s.chat, role |-> "user",
                 says |-> s.says, state |-> "local", for |-> 0]

LEMMA EchoFacts ==
  ASSUME NEW v \in Views, NEW s \in Sends, s.chat \in Chats, sends' \in 1..MaxSends
  PROVE  /\ EchoOf(sends', s) \in Local
         /\ WithEcho(v, s) \in Views
         /\ WithEcho(v, s).local = Append(v.local, EchoOf(sends', s))
         /\ WithEcho(v, s).chat = v.chat
<1>1. LocalId(sends') \in Echoes
  BY DEF Echoes
<1>2. EchoOf(sends', s) \in Local
  BY <1>1 DEF EchoOf, Local, Sends, Ids
<1>3. Append(v.local, EchoOf(sends', s)) \in Seq(Local)
  BY <1>2, AppendFacts DEF Views
<1>4. Submitted(s.down) \in TurnStates
  BY DEF Submitted, TurnStates, Active
<1>5. QED
  BY <1>1, <1>2, <1>3, <1>4, EmptySeqFacts DEF WithEcho, EchoOf, Views

\* The text of a turn's end, as a local message.
ReplyOf(e, chat, state) == [id |-> e.id, chat |-> chat, role |-> "assistant",
                            says |-> <<e.turn, e.cut>>, state |-> state, for |-> e.id]

LEMMA WithReplyFacts ==
  ASSUME NEW v \in Views, v.chat \in Chats, NEW e \in Event, NEW state \in {"sent", "cancelled"}
  PROVE  /\ ReplyOf(e, v.chat, state) \in Local
         /\ WithReply(v, e, state) \in Views
         /\ WithReply(v, e, state).local = Append(v.local, ReplyOf(e, v.chat, state))
         /\ WithReply(v, e, state).chat = v.chat
<1>1. ReplyOf(e, v.chat, state) \in Local
  BY DEF ReplyOf, Local, Event, Says
<1>2. Append(v.local, ReplyOf(e, v.chat, state)) \in Seq(Local)
  BY <1>1, AppendFacts DEF Views
<1>3. QED
  BY <1>1, <1>2, EmptySeqFacts DEF WithReply, ReplyOf, Views, Ids

\* The optimistic message, and no other, changes.
LEMMA EchoBecomesFacts ==
  ASSUME ViewTyped, CallsTyped, NEW id \in Ids \cup Echoes, NEW state \in {"sent", "failed"}
  PROVE  /\ EchoBecomes(id, state) \in Seq(Local)
         /\ Len(EchoBecomes(id, state)) = Len(view.local)
         /\ \A k \in 1..Len(view.local) :
              /\ view.local[k].id # Echo => EchoBecomes(id, state)[k] = view.local[k]
              /\ view.local[k].id = Echo =>
                   EchoBecomes(id, state)[k] = [view.local[k] EXCEPT !.id = id, !.state = state, !.for = send.id]
<1> DEFINE f(k) == IF view.local[k].id = Echo
                   THEN [view.local[k] EXCEPT !.id = id, !.state = state, !.for = send.id]
                   ELSE view.local[k]
<1>1. view.local \in Seq(Local) /\ send.id \in Ids
  BY DEF ViewTyped, Views, CallsTyped, Sends
<1>2. DOMAIN view.local = 1..Len(view.local)
  BY <1>1
<1>3. ASSUME NEW k \in 1..Len(view.local) PROVE f(k) \in Local
  <2>1. view.local[k] \in Local
    BY <1>1
  <2>2. [view.local[k] EXCEPT !.id = id, !.state = state, !.for = send.id] \in Local
    BY <1>1, <2>1 DEF Local
  <2>3. QED
    BY <2>1, <2>2
<1>4. EchoBecomes(id, state) = [k \in 1..Len(view.local) |-> f(k)]
  BY <1>2 DEF EchoBecomes
<1> HIDE DEF f
<1>5. EchoBecomes(id, state) \in Seq(Local) /\ Len(EchoBecomes(id, state)) = Len(view.local)
  BY <1>1, <1>3, <1>4
<1>6. QED
  BY <1>4, <1>5 DEF f

LEMMA OpenedFacts ==
  ASSUME NEW v \in Views, NEW c \in Chats
  PROVE  Opened(v, c) \in Views /\ Opened(v, c).chat = c /\ Opened(v, c).local = v.local
  BY EmptySeqFacts DEF Opened, Views

\* A new chat is on screen.
LEMMA OpenViewTyped ==
  ASSUME Typed, NEW c \in Chats, c \in made', OpenStream(c), view' \in Views, view'.chat = c
  PROVE  ViewTyped'
  BY OpenStreamFacts, EmptySeqFacts DEF ViewTyped, Typed, ListTyped

LEMMA SendsTyped ==
  ASSUME Typed
  PROVE  /\ \A x \in 1..sends + 1, steer \in BOOLEAN : Send(x, steer) => Typed'
         /\ \A c \in Chats : Created(c) => Typed'
         /\ Posted \/ SendFails \/ SendEnds => Typed'
<1> USE DEF Typed
<1>0. 0 \in Ids /\ NoSend \in Sends /\ sends \in Nat
  <2>1. 0 \in Ids /\ NoSend \in Sends
    BY DEF NoSend, Sends, Says, Ids
  <2>2. QED
    BY <2>1 DEF CallsTyped
<1>1. ASSUME NEW x \in 1..sends + 1, NEW steer \in BOOLEAN, Send(x, steer) PROVE Typed'
  <2> DEFINE down == conn = "reconnecting" \/ view.state = "reconnecting"
             s == [NoSend EXCEPT !.step = IF view.chat = No THEN "creating" ELSE "posting",
                                 !.chat = view.chat, !.says = <<x, FALSE>>, !.steer = steer, !.down = down]
             v == [view EXCEPT !.error = down]
  <2>1. v \in Views /\ v.chat = view.chat /\ view.chat \in Chats \cup {No}
    BY DEF ViewTyped, Views
  <2>2. s \in Sends /\ s.chat = view.chat
        /\ s.step = (IF view.chat = No THEN "creating" ELSE "posting")
    <3>1. x \in Ids
      BY <1>0 DEF Ids
    <3>2. <<x, FALSE>> \in Says
      BY <3>1 DEF Says
    <3>3. QED
      BY <1>0, <2>1, <3>2 DEF Sends
  <2>3. sends' = sends + 1 /\ sends' \in 1..MaxSends
    BY <1>0, <1>1 DEF Send, CallsTyped
  <2>4. /\ send' = (IF view.chat = No THEN s ELSE [s EXCEPT !.down = FALSE])
        /\ Becomes(IF view.chat = No
                   THEN [v EXCEPT !.state = IF down THEN "sending while reconnecting" ELSE "sending"]
                   ELSE WithEcho(v, s))
        /\ UNCHANGED <<daemonVars, streamVars, stop, listVars>>
    BY <1>1 DEF Send
  <2> HIDE DEF s, v
  <2>5. CallsTyped'
    <3>1. send' \in Sends /\ send'.chat = view.chat
      BY <2>2, <2>4 DEF Sends
    <3>2. send'.step = IF view.chat = No THEN "creating" ELSE "posting"
      BY <2>2, <2>4 DEF Sends
    <3>3. send'.step \in {"posting", "stored", "refreshing"} => send'.chat \in Chats
      BY <2>1, <3>1, <3>2
    <3>4. stop' \in Stops /\ (stop'.step # "idle" => stop'.chat \in Chats)
      BY <2>4 DEF CallsTyped
    <3>5. sends' > 0 /\ sends' \in 0..MaxSends
      BY <2>3
    <3>6. QED
      BY <3>1, <3>3, <3>4, <3>5 DEF CallsTyped
  <2>6. view' \in Views /\ view'.chat = view.chat
    <3>1. CASE view.chat = No
      <4>1. [v EXCEPT !.state = IF down THEN "sending while reconnecting" ELSE "sending"] \in Views
        BY <2>1 DEF Views, TurnStates, Active
      <4>2. [v EXCEPT !.state = IF down THEN "sending while reconnecting" ELSE "sending"].chat = v.chat
        BY <2>1 DEF Views
      <4>3. QED
        BY <2>1, <2>4, <3>1, <4>1, <4>2, BecomesFacts
    <3>2. CASE view.chat # No
      <4>1. WithEcho(v, s) \in Views /\ WithEcho(v, s).chat = v.chat
        BY <2>1, <2>2, <2>3, <3>2, EchoFacts
      <4>2. QED
        BY <2>1, <2>4, <3>2, <4>1, BecomesFacts
    <3>3. QED
      BY <3>1, <3>2
  <2>7. QED
    BY <2>4, <2>5, <2>6, UnchangedTyped, ViewKept DEF daemonVars, streamVars, ViewTyped
<1>2. ASSUME NEW c \in Chats, Created(c) PROVE Typed'
  <2> DEFINE s == [send EXCEPT !.step = "posting", !.chat = c]
  <2>1. s \in Sends /\ s.chat = c /\ s.step = "posting"
    BY DEF CallsTyped, Sends
  <2>2. Opened(view, c) \in Views /\ Opened(view, c).chat = c
    BY OpenedFacts DEF ViewTyped
  <2>3. /\ send.step = "creating" /\ made' = made \cup {c} /\ send' = [s EXCEPT !.down = FALSE]
        /\ sends' = sends /\ Becomes(WithEcho(Opened(view, c), s)) /\ OpenStream(c)
        /\ UNCHANGED <<log, queue, turn, given, stop, cache>>
    BY <1>2 DEF Created
  <2> HIDE DEF s
  <2>4. sends' \in 1..MaxSends
    BY <2>3 DEF CallsTyped
  <2>5. WithEcho(Opened(view, c), s) \in Views /\ WithEcho(Opened(view, c), s).chat = c
    BY <2>1, <2>2, <2>4, EchoFacts
  <2>6. view' \in Views /\ view'.chat = c
    BY <2>3, <2>5, BecomesFacts
  <2>7. ViewTyped'
    BY <2>3, <2>6, OpenViewTyped
  <2>8. CallsTyped'
    BY <2>1, <2>3, <2>4 DEF CallsTyped, Sends
  <2>9. DaemonTyped' /\ ListTyped'
    BY <2>3, OpenStreamFacts DEF DaemonTyped, ListTyped
  <2>10. QED
    BY <2>7, <2>8, <2>9
<1>3. CASE Posted
  <2>1. /\ send.step = "stored" /\ send' = [NoSend EXCEPT !.step = "refreshing", !.chat = send.chat]
        /\ Becomes([view EXCEPT !.local = Delivered, !.pending = send.id])
        /\ read' = Invalidated(send.chat)
        /\ UNCHANGED <<daemonVars, streamVars, stop, cache, bounds>>
    BY <1>3 DEF Posted
  <2>2. send.chat \in Chats /\ send.id \in Ids
    BY <2>1 DEF CallsTyped, Sends
  <2>3. Delivered \in Seq(Local)
    BY <2>2, EchoBecomesFacts DEF Delivered
  <2>4. /\ [view EXCEPT !.local = Delivered, !.pending = send.id] \in Views
        /\ [view EXCEPT !.local = Delivered, !.pending = send.id].chat = view.chat
    BY <2>2, <2>3 DEF ViewTyped, Views
  <2>5. view' \in Views /\ view'.chat = view.chat
    BY <2>1, <2>4, BecomesFacts
  <2>6. send' \in Sends /\ send'.step = "refreshing" /\ send'.chat \in Chats
    BY <1>0, <2>1, <2>2 DEF Sends
  <2>7. CallsTyped'
    BY <2>1, <2>6 DEF CallsTyped, bounds
  <2>8. ListTyped'
    BY <2>1, <2>2, ReadFacts DEF ListTyped
  <2>9. QED
    BY <2>1, <2>5, <2>7, <2>8, UnchangedTyped, ViewKept DEF daemonVars, streamVars, ViewTyped
<1>4. CASE SendFails
  <2> DEFINE v == [view EXCEPT !.local = IF send.step = "creating" THEN @ ELSE EchoBecomes(Echo, "failed"),
                               !.state = "send failed", !.error = TRUE]
  <2>1. /\ send.step # "idle" /\ send' = NoSend /\ Becomes(v)
        /\ UNCHANGED <<daemonVars, streamVars, stop, listVars, sends>>
    BY <1>4 DEF SendFails
  <2>2. Echo \in Echoes
    BY <1>0, <2>1 DEF Echo, Echoes, CallsTyped
  <2>3. EchoBecomes(Echo, "failed") \in Seq(Local)
    BY <2>2, EchoBecomesFacts
  <2>4. v \in Views /\ v.chat = view.chat
    BY <2>3 DEF ViewTyped, Views, TurnStates
  <2>5. view' \in Views /\ view'.chat = view.chat
    BY <2>1, <2>4, BecomesFacts
  <2>6. CallsTyped'
    BY <1>0, <2>1 DEF CallsTyped, NoSend
  <2>7. QED
    BY <2>1, <2>5, <2>6, UnchangedTyped, ViewKept DEF daemonVars, streamVars, ViewTyped
<1>5. CASE SendEnds
  <2>1. CallsTyped'
    BY <1>0, <1>5 DEF SendEnds, CallsTyped, NoSend, bounds
  <2>2. QED
    BY <1>5, <2>1, UnchangedTyped DEF SendEnds, daemonVars, streamVars
<1>6. QED
  BY <1>1, <1>2, <1>3, <1>4, <1>5

LEMMA StopsTyped ==
  ASSUME Typed
  PROVE  /\ Stop \/ StopAnswered \/ StopFails \/ NewChat => Typed'
         /\ \A c \in Chats : Select(c) => Typed'
<1> USE DEF Typed
<1>0. NoStop \in Stops /\ NoStop.step = "idle"
  BY DEF NoStop, Stops, Ids
<1>1. view.chat # No => /\ Asked(view) \in Stops /\ Asked(view).chat \in Chats
  BY DEF Asked, ViewTyped, Views, CallsTyped, Stops
<1>2. CASE Stop
  <2>1. CallsTyped'
    BY <1>1, <1>2 DEF Stop, CallsTyped
  <2>2. /\ [view EXCEPT !.state = "stopping", !.error = FALSE] \in Views
        /\ [view EXCEPT !.state = "stopping", !.error = FALSE].chat = view.chat
    BY DEF ViewTyped, Views, TurnStates, Active
  <2>3. view' \in Views /\ view'.chat = view.chat
    BY <1>2, <2>2, BecomesFacts DEF Stop
  <2>4. QED
    BY <1>2, <2>1, <2>3, UnchangedTyped, ViewKept DEF Stop, daemonVars, streamVars, ViewTyped
<1>3. CASE StopAnswered
  <2>1. CallsTyped'
    BY <1>0, <1>3 DEF StopAnswered, CallsTyped, bounds
  <2>2. view' \in Views /\ view'.chat = view.chat
    <3>1. CASE stop.step = "cancelled"
      BY <1>3, <3>1 DEF StopAnswered, ViewTyped
    <3>2. CASE stop.step = "no turn"
      <4>1. /\ [view EXCEPT !.state = IF @ = "stopping" THEN "idle" ELSE @] \in Views
            /\ [view EXCEPT !.state = IF @ = "stopping" THEN "idle" ELSE @].chat = view.chat
        BY DEF ViewTyped, Views, TurnStates
      <4>2. Becomes([view EXCEPT !.state = IF @ = "stopping" THEN "idle" ELSE @])
        BY <1>3, <3>2 DEF StopAnswered
      <4>3. QED
        BY <4>1, <4>2, BecomesFacts
    <3>3. CASE stop.step = "mismatch"
      <4>1. /\ [view EXCEPT !.state = "error", !.error = TRUE] \in Views
            /\ [view EXCEPT !.state = "error", !.error = TRUE].chat = view.chat
        BY DEF ViewTyped, Views, TurnStates
      <4>2. Becomes([view EXCEPT !.state = "error", !.error = TRUE])
        BY <1>3, <3>3 DEF StopAnswered
      <4>3. QED
        BY <4>1, <4>2, BecomesFacts
    <3>4. QED
      BY <1>3, <3>1, <3>2, <3>3 DEF StopAnswered
  <2>3. ListTyped'
    <3>1. stop.chat \in Chats
      BY <1>3 DEF StopAnswered, CallsTyped
    <3>2. read' = read \/ read' = Invalidated(stop.chat)
      BY <1>3 DEF StopAnswered
    <3>3. QED
      BY <1>3, <3>1, <3>2, ReadFacts DEF StopAnswered, ListTyped
  <2>4. QED
    BY <1>3, <2>1, <2>2, <2>3, UnchangedTyped, ViewKept DEF StopAnswered, daemonVars, streamVars, ViewTyped
<1>4. CASE StopFails
  <2>1. CallsTyped'
    BY <1>0, <1>4 DEF StopFails, CallsTyped, bounds
  <2>2. /\ [view EXCEPT !.state = "error", !.error = TRUE] \in Views
        /\ [view EXCEPT !.state = "error", !.error = TRUE].chat = view.chat
    BY DEF ViewTyped, Views, TurnStates
  <2>3. view' \in Views /\ view'.chat = view.chat
    BY <1>4, <2>2, BecomesFacts DEF StopFails
  <2>4. QED
    BY <1>4, <2>1, <2>3, UnchangedTyped, ViewKept DEF StopFails, daemonVars, streamVars, ViewTyped
<1>5. CASE NewChat
  <2>1. CallsTyped'
    BY <1>1, <1>5 DEF NewChat, CallsTyped
  <2>2. view' \in Views /\ view'.chat = No
    BY <1>5, EmptySeqFacts DEF NewChat, ViewTyped, Views, TurnStates
  <2>3. ViewTyped'
    BY <1>5, <2>2, EmptySeqFacts DEF NewChat, ViewTyped
  <2>4. QED
    BY <1>5, <2>1, <2>3, UnchangedTyped DEF NewChat
<1>6. ASSUME NEW c \in Chats, Select(c) PROVE Typed'
  <2>1. Opened(view, c) \in Views /\ Opened(view, c).chat = c
    BY OpenedFacts DEF ViewTyped
  <2>2. view' \in Views /\ view'.chat = c
    BY <1>6, <2>1, BecomesFacts DEF Select
  <2>3. ViewTyped'
    BY <1>6, <2>2, OpenViewTyped DEF Select, daemonVars
  <2>4. ListTyped'
    BY <1>6, OpenStreamFacts DEF Select, ListTyped
  <2>5. QED
    BY <1>6, <2>3, <2>4, UnchangedTyped DEF Select
<1>7. QED
  BY <1>2, <1>3, <1>4, <1>5, <1>6

LEMMA HearingTyped ==
  ASSUME Typed, Ready \/ Drop \/ Hear \/ RetryStream
  PROVE  Typed'
<1> USE DEF Typed
<1>1. CASE Ready
  <2>1. /\ [view EXCEPT !.state = "syncing"] \in Views
        /\ [view EXCEPT !.state = "syncing"].chat = view.chat
    BY DEF ViewTyped, Views, TurnStates
  <2>2. view' \in Views /\ view'.chat = view.chat
    <3>1. Becomes([view EXCEPT !.state = "syncing"]) \/ Becomes(view)
      BY <1>1 DEF Ready, ReadyFrom
    <3>2. QED
      BY <2>1, <3>1, BecomesFacts DEF ViewTyped
  <2>3. conn # "off" /\ conn' = "live" /\ wire' = wire
    BY <1>1 DEF Ready, ReadyFrom
  <2>4. read' = read \/ read' = Invalidated(view.chat)
    BY <1>1 DEF Ready, ReadyFrom
  <2>5. view.chat \in Chats
    BY <2>3 DEF ViewTyped, Views
  <2>6. ListTyped'
    BY <1>1, <2>4, <2>5, ReadFacts DEF Ready, ReadyFrom, ListTyped
  <2>7. QED
    BY <1>1, <2>2, <2>3, <2>6, UnchangedTyped, ViewKept
       DEF Ready, ReadyFrom, daemonVars, bounds, ViewTyped
<1>2. CASE Drop
  <2>1. /\ [view EXCEPT !.state = IF @ \in Active THEN "reconnecting" ELSE @] \in Views
        /\ [view EXCEPT !.state = IF @ \in Active THEN "reconnecting" ELSE @].chat = view.chat
    BY DEF ViewTyped, Views, TurnStates, Active
  <2>2. view' \in Views /\ view'.chat = view.chat
    BY <1>2, <2>1, BecomesFacts DEF Drop
  <2>3. QED
    BY <1>2, <2>2, UnchangedTyped, ViewKept, EmptySeqFacts DEF Drop, daemonVars
<1>3. CASE Hear
  <2> DEFINE e == Head(wire)
  <2>1. e \in Event /\ wire' \in Seq(Event) /\ conn = "live" /\ conn' = conn
    BY <1>3, TailFacts DEF Hear, ViewTyped
  <2>2. view.chat \in Chats /\ view \in Views
    BY <2>1 DEF ViewTyped, Views
  <2>3. e.turn \in Ids /\ e.type \in {"started", "delta", "completed", "cancelled", "error"}
    BY <2>1 DEF Event
  <2>4. view' \in Views /\ view'.chat = view.chat
    <3>1. CASE e.type = "started"
      <4>1. /\ [view EXCEPT !.state = "running", !.metrics = e.turn] \in Views
            /\ [view EXCEPT !.state = "running", !.metrics = e.turn].chat = view.chat
        BY <2>2, <2>3 DEF Views, TurnStates, Active
      <4>2. Becomes([view EXCEPT !.state = "running", !.metrics = e.turn])
        BY <1>3, <3>1 DEF Hear
      <4>3. QED
        BY <4>1, <4>2, BecomesFacts
    <3>2. CASE e.type = "delta"
      <4>1. Append(view.live, e.turn) \in Seq(Ids)
        BY <2>2, <2>3, AppendFacts DEF Views
      <4>2. /\ [view EXCEPT !.live = Append(@, e.turn), !.state = "streaming", !.metrics = e.turn] \in Views
            /\ [view EXCEPT !.live = Append(@, e.turn), !.state = "streaming",
                            !.metrics = e.turn].chat = view.chat
        BY <2>2, <2>3, <4>1 DEF Views, TurnStates, Active
      <4>3. Becomes([view EXCEPT !.live = Append(@, e.turn), !.state = "streaming", !.metrics = e.turn])
        BY <1>3, <3>2 DEF Hear
      <4>4. QED
        BY <4>2, <4>3, BecomesFacts
    <3>3. CASE e.type = "completed"
      <4>1. WithReply(view, e, "sent") \in Views /\ WithReply(view, e, "sent").chat = view.chat
        BY <2>1, <2>2, WithReplyFacts
      <4>2. /\ [WithReply(view, e, "sent") EXCEPT !.state = "completed"] \in Views
            /\ [WithReply(view, e, "sent") EXCEPT !.state = "completed"].chat = view.chat
        BY <4>1 DEF Views, TurnStates
      <4>3. Becomes([WithReply(view, e, "sent") EXCEPT !.state = "completed"])
        BY <1>3, <3>3 DEF Hear
      <4>4. QED
        BY <4>2, <4>3, BecomesFacts
    <3>4. CASE e.type = "cancelled"
      <4> DEFINE v == IF e.id = 0 THEN [view EXCEPT !.live = <<>>, !.pending = 0]
                                  ELSE WithReply(view, e, "cancelled")
      <4>1. v \in Views /\ v.chat = view.chat
        <5>1. /\ [view EXCEPT !.live = <<>>, !.pending = 0] \in Views
              /\ [view EXCEPT !.live = <<>>, !.pending = 0].chat = view.chat
          BY <2>2, EmptySeqFacts DEF Views, Ids
        <5>2. QED
          BY <2>1, <2>2, <5>1, WithReplyFacts
      <4>2. Becomes([v EXCEPT !.state = "cancelled"])
        BY <1>3, <3>4 DEF Hear
      <4> HIDE DEF v
      <4>3. [v EXCEPT !.state = "cancelled"] \in Views /\ [v EXCEPT !.state = "cancelled"].chat = view.chat
        BY <4>1 DEF Views, TurnStates
      <4>4. QED
        BY <4>2, <4>3, BecomesFacts
    <3>5. CASE e.type = "error"
      <4>1. /\ [view EXCEPT !.state = "error", !.error = TRUE] \in Views
            /\ [view EXCEPT !.state = "error", !.error = TRUE].chat = view.chat
        BY <2>2 DEF Views, TurnStates
      <4>2. Becomes([view EXCEPT !.state = "error", !.error = TRUE])
        BY <1>3, <3>5 DEF Hear
      <4>3. QED
        BY <4>1, <4>2, BecomesFacts
    <3>6. QED
      BY <2>3, <3>1, <3>2, <3>3, <3>4, <3>5
  <2>5. ListTyped'
    <3>1. read' = read \/ read' = Invalidated(view.chat)
      BY <1>3, <2>3 DEF Hear
    <3>2. QED
      BY <1>3, <2>2, <3>1, ReadFacts DEF Hear, ListTyped
  <2>6. QED
    BY <1>3, <2>1, <2>4, <2>5, UnchangedTyped, ViewKept DEF Hear, daemonVars, bounds
<1>4. CASE RetryStream
  <2>1. /\ [view EXCEPT !.live = <<>>, !.error = FALSE] \in Views
        /\ [view EXCEPT !.live = <<>>, !.error = FALSE].chat = view.chat
    BY EmptySeqFacts DEF ViewTyped, Views
  <2>2. view' \in Views /\ view'.chat = view.chat
    BY <1>4, <2>1, BecomesFacts DEF RetryStream
  <2>3. QED
    BY <1>4, <2>2, UnchangedTyped, ViewKept DEF RetryStream, daemonVars, bounds, listVars, ViewTyped
<1>5. QED
  BY <1>1, <1>2, <1>3, <1>4

LEMMA ReadsTyped ==
  ASSUME Typed, Reads
  PROVE  Typed'
<1> USE DEF Typed
<1>1. CASE Poll
  <2>1. view.chat \in Chats
    BY <1>1 DEF Poll, ViewTyped, Views
  <2>2. ListTyped'
    BY <1>1, <2>1, ReadFacts DEF Poll, ListTyped
  <2>3. QED
    BY <1>1, <2>2, UnchangedTyped DEF Poll, daemonVars, streamVars, bounds
<1>2. ASSUME NEW c \in Chats, ReadServed(c) PROVE Typed'
  <2>1. log[c] \in Seq(Message)
    BY DEF DaemonTyped
  <2>2. ListTyped'
    BY <1>2, <2>1 DEF ReadServed, ListTyped, Readings
  <2>3. QED
    BY <1>2, <2>2, UnchangedTyped DEF ReadServed, daemonVars, streamVars, bounds
<1>3. ASSUME NEW c \in Chats, ReadArrives(c) PROVE Typed'
  <2>1. read[c].got \in Seq(Message)
    BY DEF ListTyped, Readings
  <2>2. ListTyped'
    BY <1>3, <2>1, ReadFacts DEF ReadArrives, ListTyped
  <2>3. view' \in Views /\ view'.chat = view.chat
    BY <1>3, SettledFacts DEF ReadArrives, ViewTyped
  <2>4. QED
    BY <1>3, <2>2, <2>3, UnchangedTyped, ViewKept DEF ReadArrives, daemonVars, streamVars, bounds, ViewTyped
<1>4. QED
  BY <1>1, <1>2, <1>3 DEF Reads

LEMMA StepTyped ==
  ASSUME Typed, [Next]_vars
  PROVE  Typed'
<1>1. CASE UNCHANGED vars
  BY <1>1, UnchangedTyped DEF vars, Typed, daemonVars, streamVars, listVars, bounds
<1>2. CASE Daemon
  BY <1>2, TurnsTyped
<1>3. CASE Answers
  BY <1>3, SendsTyped, StopsTyped DEF Answers
<1>4. CASE Ready \/ Hear \/ Drop \/ RetryStream
  BY <1>4, HearingTyped
<1>5. CASE Reads
  BY <1>5, ReadsTyped
<1>6. CASE SendFails \/ \E x \in 1..sends + 1, steer \in BOOLEAN : Send(x, steer)
  BY <1>6, SendsTyped
<1>7. CASE Stop \/ NewChat \/ StopFails \/ \E c \in Chats : Select(c)
  BY <1>7, StopsTyped
<1>8. QED
  BY <1>1, <1>2, <1>3, <1>4, <1>5, <1>6, <1>7 DEF Next

LEMMA TypedImplies == Typed => TypeOK
<1> SUFFICES ASSUME Typed PROVE TypeOK
  OBVIOUS
<1> USE DEF Typed
<1>1. \A c \in Chats : /\ log[c] \in Seq(Message) /\ cache[c] \in Seq(Message)
                       /\ queue[c] \in Seq(Ids) /\ turn[c] \in [of : Ids, said : BOOLEAN]
                       /\ read[c].step \in {"idle", "asked", "read"} /\ read[c].data \in BOOLEAN
  BY DEF DaemonTyped, ListTyped, Readings, Turns
<1>2. /\ view.state \in TurnStates /\ view.error \in BOOLEAN /\ view.local \in Seq(Local)
      /\ view.pending \in Ids \cup Echoes /\ view.live \in Seq(Ids)
  BY DEF ViewTyped, Views
<1>3. send.step \in {"idle", "creating", "posting", "stored", "refreshing"}
      /\ stop.step \in {"idle", "asked", "cancelled", "no turn", "mismatch"}
  BY DEF CallsTyped, Sends, Stops
<1>4. QED
  BY <1>1, <1>2, <1>3 DEF TypeOK, DaemonTyped, ViewTyped

\* The state of the view, its calls and the daemon keeps its shape.
THEOREM ChatTyped == Spec => []TypeOK
<1>1. Spec => []Typed
  BY InitTyped, StepTyped, PTL DEF Spec
<1>2. QED
  BY <1>1, TypedImplies, PTL

-----------------------------------------------------------------------------
(***************************************************************************)
(* The messages of the daemon, and the lists read                          *)
(***************************************************************************)
LogGrows == given' >= given /\ \A c \in Chats : Opens(log[c], log'[c])

\* What a turn or a send adds to a chat.
Adds(c, ms) ==
  /\ log' = [log EXCEPT ![c] = @ \o ms] /\ given' = given + Len(ms)
  /\ \A i \in 1..Len(ms) : ms[i].id = given + i

LEMMA OpensFacts ==
  ASSUME NEW s \in Seq(Message)
  PROVE  /\ Opens(s, s) /\ Opens(<<>>, s)
         /\ \A t \in Seq(Message) : Opens(s, s \o t)
         /\ \A t, u \in Seq(Message) : Opens(s, t) /\ Opens(t, u) => Opens(s, u)
  BY DEF Opens

LEMMA AddsFacts ==
  ASSUME Typed, LogInv, NEW c \in Chats, NEW ms \in Seq(Message), Adds(c, ms)
  PROVE  LogInv' /\ LogGrows
<1> USE DEF Typed, DaemonTyped
<1>1. /\ log'[c] = log[c] \o ms /\ given' = given + Len(ms) /\ given \in Nat /\ Len(ms) \in Nat
      /\ \A d \in Chats : log[d] \in Seq(Message)
      /\ \A d \in Chats \ {c} : log'[d] = log[d]
  BY DEF Adds
<1>2. LogGrows
  <2>1. ASSUME NEW d \in Chats PROVE Opens(log[d], log'[d])
    <3>1. CASE d = c
      BY <1>1, <3>1, OpensFacts
    <3>2. CASE d # c
      BY <1>1, <3>2, OpensFacts
    <3>3. QED
      BY <3>1, <3>2
  <2>2. QED
    BY <1>1, <2>1 DEF LogGrows
<1> DEFINE Old(d, j) == j \in 1..Len(log[d]) /\ log'[d][j] = log[d][j]
           New(d, j) == /\ d = c /\ log'[d][j].id = given + (j - Len(log[c]))
                        /\ j > Len(log[c]) /\ j <= Len(log[c]) + Len(ms)
<1>3. ASSUME NEW d \in Chats, NEW j \in 1..Len(log'[d])
      PROVE  Old(d, j) \/ New(d, j)
  <2>1. CASE d # c
    BY <1>1, <2>1
  <2>2. CASE d = c
    <3>1. /\ Len(log'[c]) = Len(log[c]) + Len(ms)
          /\ \A i \in 1..Len(log[c]) : log'[c][i] = log[c][i]
          /\ \A i \in 1..Len(ms) : log'[c][Len(log[c]) + i] = ms[i]
      BY <1>1, ConcatFacts
    <3>2. CASE j <= Len(log[c])
      BY <1>1, <2>2, <3>1, <3>2
    <3>3. CASE j > Len(log[c])
      <4>1. PICK i \in 1..Len(ms) : j = Len(log[c]) + i
        <5>1. j - Len(log[c]) \in 1..Len(ms) /\ j = Len(log[c]) + (j - Len(log[c]))
          BY <1>1, <2>2, <3>1, <3>3
        <5>2. QED
          BY <5>1
      <4>2. log'[c][j] = ms[i] /\ ms[i].id = given + i
        BY <3>1, <4>1 DEF Adds
      <4>3. QED
        BY <1>1, <2>2, <4>1, <4>2
    <3>4. QED
      BY <1>1, <2>2, <3>1, <3>2, <3>3
  <2>3. QED
    BY <2>1, <2>2
<1>4. ASSUME NEW d \in Chats, NEW j \in 1..Len(log'[d])
      PROVE  log'[d][j].id \in 1..given'
  <2>1. CASE Old(d, j)
    <3>1. log[d][j].id \in 1..given
      BY <2>1 DEF LogInv
    <3>2. QED
      BY <1>1, <2>1, <3>1
  <2>2. CASE New(d, j)
    <3>1. Len(log[c]) \in Nat
      BY <1>1
    <3>2. QED
      BY <1>1, <2>2, <3>1
  <2>3. QED
    BY <1>3, <2>1, <2>2
<1>5. ASSUME NEW d \in Chats, NEW j \in 1..Len(log'[d]), NEW e \in Chats, NEW k \in 1..Len(log'[e]),
             log'[d][j].id = log'[e][k].id
      PROVE  d = e /\ j = k
  <2>0. Len(log[c]) \in Nat
    BY <1>1
  <2>1. CASE Old(d, j) /\ Old(e, k)
    BY <1>5, <2>1 DEF LogInv
  <2>2. CASE Old(d, j) /\ New(e, k)
    <3>1. log[d][j].id \in 1..given
      BY <2>2 DEF LogInv
    <3>2. QED
      BY <1>1, <1>5, <2>0, <2>2, <3>1
  <2>3. CASE New(d, j) /\ Old(e, k)
    <3>1. log[e][k].id \in 1..given
      BY <2>3 DEF LogInv
    <3>2. QED
      BY <1>1, <1>5, <2>0, <2>3, <3>1
  <2>4. CASE New(d, j) /\ New(e, k)
    BY <1>1, <1>5, <2>0, <2>4
  <2>5. QED
    BY <1>3, <2>1, <2>2, <2>3, <2>4
<1>6. LogInv'
  BY <1>4, <1>5 DEF LogInv
<1>7. QED
  BY <1>2, <1>6

\* What the three steps that store add.
LEMMA CompletesAdds ==
  ASSUME Typed, NEW c \in Chats, Completes(c)
  PROVE  /\ <<Reply(c, NextId, FALSE)>> \in Seq(Message)
         /\ Adds(c, <<Reply(c, NextId, FALSE)>>)
<1>1. NextId \in Ids /\ NextId = given + 1 /\ Reply(c, NextId, FALSE).id = NextId
  BY DEF NextId, Typed, DaemonTyped, Ids, Reply
<1>2. Reply(c, NextId, FALSE) \in Message /\ log[c] \in Seq(Message)
  BY <1>1, ReplyFacts DEF Typed, DaemonTyped
<1>3. \A m \in Message : /\ <<m>> \in Seq(Message) /\ Len(<<m>>) = 1 /\ <<m>>[1] = m
                         /\ Append(log[c], m) = log[c] \o <<m>>
  BY <1>2
<1>4. log' = [log EXCEPT ![c] = Append(log[c], Reply(c, NextId, FALSE))] /\ given' = NextId
  BY DEF Completes
<1>5. log' = [log EXCEPT ![c] = log[c] \o <<Reply(c, NextId, FALSE)>>]
  BY <1>2, <1>3, <1>4
<1>6. ASSUME NEW i \in 1..Len(<<Reply(c, NextId, FALSE)>>)
      PROVE  <<Reply(c, NextId, FALSE)>>[i].id = given + i
  <2>1. i = 1
    BY <1>2, <1>3
  <2>2. QED
    BY <1>1, <1>2, <1>3, <2>1
<1>7. QED
  BY <1>1, <1>2, <1>3, <1>4, <1>5, <1>6 DEF Adds

LEMMA PartialAdds ==
  ASSUME Typed, NEW c \in Chats
  PROVE  \A i \in 1..Len(Partial(c)) : Partial(c)[i].id = given + i
<1> SUFFICES ASSUME NEW i \in 1..Len(Partial(c)) PROVE Partial(c)[i].id = given + i
  OBVIOUS
<1>1. DaemonTyped
  BY DEF Typed
<1>2. turn[c].said
  <2>1. ~turn[c].said => Len(Partial(c)) = 0
    BY <1>1, PartialFacts
  <2>2. CASE ~turn[c].said
    BY <2>1, <2>2
  <2>3. QED
    BY <2>2
<1>3. Partial(c) = <<Reply(c, NextId, TRUE)>> /\ Len(Partial(c)) = 1
  BY <1>1, <1>2, PartialFacts
<1>4. i = 1 /\ Partial(c)[1] = Reply(c, NextId, TRUE)
  BY <1>3
<1>5. Reply(c, NextId, TRUE).id = given + 1
  BY DEF Reply, NextId
<1>6. QED
  BY <1>4, <1>5

\* What Stores puts in the chat of the send.
Stored(c) == LET before == IF send.steer /\ turn[c].of # 0 THEN Partial(c) ELSE <<>> IN
  Append(before, [id |-> given', role |-> "user", says |-> send.says, to |-> 0])

LEMMA StoresAdds ==
  ASSUME Typed, Stores
  PROVE  /\ send.chat \in Chats /\ Stored(send.chat) \in Seq(Message) /\ Adds(send.chat, Stored(send.chat))
         /\ Len(Stored(send.chat)) \in 1..2 /\ given' = given + Len(Stored(send.chat))
         /\ Stored(send.chat)[Len(Stored(send.chat))] =
              [id |-> given', role |-> "user", says |-> send.says, to |-> 0]
<1> DEFINE c == send.chat
           cut == send.steer /\ turn[c].of # 0
           before == IF cut THEN Partial(c) ELSE <<>>
           m == [id |-> given', role |-> "user", says |-> send.says, to |-> 0]
<1>0. c \in Chats
  BY DEF Typed, CallsTyped, Stores
<1>1. before \in Seq(Message) /\ Len(before) \in 0..1 /\ \A i \in 1..Len(before) : before[i].id = given + i
  <2>1. CASE cut
    <3>1. Partial(c) \in Seq(Message) /\ Len(Partial(c)) \in 0..1
      BY <1>0, PartialFacts DEF Typed
    <3>2. QED
      BY <1>0, <2>1, <3>1, PartialAdds
  <2>2. CASE ~cut
    BY <2>2, EmptySeqFacts
  <2>3. QED
    BY <2>1, <2>2
<1> HIDE DEF before
<1>2. given' = given + 1 + Len(before) /\ log' = [log EXCEPT ![c] = @ \o Append(before, m)]
  BY DEF Stores, before, NextId
<1>3. m \in Message
  BY <1>1, <1>2 DEF Message, Typed, DaemonTyped, CallsTyped, Sends, Ids
<1> HIDE DEF m
<1>4. Stored(c) = Append(before, m)
  BY DEF Stored, before, m
<1>5. /\ Append(before, m) \in Seq(Message) /\ Len(Append(before, m)) = Len(before) + 1
      /\ \A i \in 1..Len(before) : Append(before, m)[i] = before[i]
      /\ Append(before, m)[Len(before) + 1] = m
  BY <1>1, <1>3, AppendFacts
<1>6. ASSUME NEW i \in 1..(Len(before) + 1) PROVE Append(before, m)[i].id = given + i
  <2>1. CASE i \in 1..Len(before)
    BY <1>1, <1>5, <2>1
  <2>2. CASE i = Len(before) + 1
    BY <1>1, <1>2, <1>5, <2>2 DEF m, Typed, DaemonTyped
  <2>3. QED
    BY <1>1, <2>1, <2>2
<1>7. given \in Nat /\ Len(before) \in Nat /\ Len(before) + 1 \in 1..2
      /\ given' = given + (Len(before) + 1)
  BY <1>1, <1>2 DEF Typed, DaemonTyped
<1>8. Adds(c, Append(before, m))
  BY <1>2, <1>5, <1>6, <1>7 DEF Adds
<1>9. m = [id |-> given', role |-> "user", says |-> send.says, to |-> 0]
  BY DEF m
<1>10. QED
  BY <1>0, <1>4, <1>5, <1>7, <1>8, <1>9

\* Only a turn's end and a send that arrives store messages.
LEMMA WhatStores ==
  ASSUME [Next]_vars
  PROVE  UNCHANGED <<log, given>> \/ Stores \/ Cancels \/ \E c \in Chats : Completes(c)
<1>1. CASE Daemon
  BY <1>1 DEF Daemon, Begins, Talks, Breaks
<1>2. CASE Answers \/ SendFails
  BY <1>2 DEF Answers, Posted, SendEnds, StopAnswered, Created, SendFails, daemonVars
<1>3. CASE Ready \/ Hear \/ Drop \/ RetryStream
  BY <1>3 DEF Ready, ReadyFrom, Hear, Drop, RetryStream, daemonVars
<1>4. CASE Reads
  BY <1>4 DEF Reads, Poll, ReadServed, ReadArrives, daemonVars
<1>5. CASE \E x \in 1..sends + 1, steer \in BOOLEAN : Send(x, steer)
  BY <1>5 DEF Send, daemonVars
<1>6. CASE Stop \/ NewChat \/ StopFails \/ \E c \in Chats : Select(c)
  BY <1>6 DEF Stop, NewChat, StopFails, Select, daemonVars
<1>7. CASE UNCHANGED vars
  BY <1>7 DEF vars, daemonVars
<1>8. QED
  BY <1>1, <1>2, <1>3, <1>4, <1>5, <1>6, <1>7 DEF Next

LEMMA LogStep ==
  ASSUME Typed, LogInv, [Next]_vars
  PROVE  LogInv' /\ LogGrows
<1>1. CASE UNCHANGED <<log, given>>
  <2>1. \A c \in Chats : Opens(log[c], log[c])
    BY OpensFacts DEF Typed, DaemonTyped
  <2>2. QED
    BY <1>1, <2>1 DEF LogInv, LogGrows, Typed, DaemonTyped
<1>2. CASE Stores
  BY <1>2, StoresAdds, AddsFacts
<1>3. CASE Cancels
  <2>1. stop.chat \in Chats
    BY <1>3 DEF Cancels, Typed, CallsTyped
  <2>2. CASE turn[stop.chat].of # 0 /\ stop.of \in {0, turn[stop.chat].of}
    <3>1. Adds(stop.chat, Partial(stop.chat))
      BY <1>3, <2>1, <2>2, PartialAdds DEF Cancels, Adds
    <3>2. QED
      BY <2>1, <3>1, PartialFacts, AddsFacts DEF Typed
  <2>3. CASE ~(turn[stop.chat].of # 0 /\ stop.of \in {0, turn[stop.chat].of})
    BY <1>1, <1>3, <2>3 DEF Cancels
  <2>4. QED
    BY <2>2, <2>3
<1>4. CASE \E c \in Chats : Completes(c)
  BY <1>4, CompletesAdds, AddsFacts
<1>5. QED
  BY <1>1, <1>2, <1>3, <1>4, WhatStores

\* What is stored stays as it is.
LEMMA KnownStays ==
  ASSUME Typed, Typed', LogGrows, NEW c \in Chats, NEW n, NEW role, NEW says, Known(c, n, role, says)
  PROVE  Known(c, n, role, says)'
<1>1. Len(log[c]) \in Nat /\ Len(log'[c]) \in Nat
  BY DEF Typed, DaemonTyped
<1>2. Opens(log[c], log'[c])
  BY DEF LogGrows
<1>3. QED
  BY <1>1, <1>2 DEF Opens, Known

\* Its id is one that was given.
LEMMA KnownId ==
  ASSUME LogInv, NEW c \in Chats, NEW n, NEW role, NEW says, Known(c, n, role, says)
  PROVE  n \in 1..given
  BY DEF LogInv, Known

\* No read comes, though some may start over.
ReadsAgain == /\ cache' = cache
              /\ \A c \in Chats :
                   read'[c] = read[c] \/ (read'[c].step = "asked" /\ read'[c].got = <<>>)

LEMMA InvalidatedAgain ==
  ASSUME Typed, NEW c \in Chats, cache' = cache, read' = read \/ read' = Invalidated(c)
  PROVE  ReadsAgain
  BY DEF ReadsAgain, Invalidated, ReadAgain, Typed, ListTyped, Readings

LEMMA OpenStreamAgain ==
  ASSUME Typed, NEW c \in Chats, cache' = cache, OpenStream(c)
  PROVE  ReadsAgain
  BY DEF ReadsAgain, OpenStream, ReadAgain, Typed, ListTyped, Readings

LEMMA WhatReads ==
  ASSUME Typed, [Next]_vars
  PROVE  ReadsAgain \/ \E c \in Chats : ReadServed(c) \/ ReadArrives(c)
<1>0. UNCHANGED listVars => ReadsAgain
  BY DEF listVars, ReadsAgain
<1>1. CASE Daemon
  BY <1>0, <1>1 DEF Daemon, Begins, Talks, Breaks, Completes, Cancels, Stores
<1>2. CASE Answers \/ SendFails
  <2>1. CASE Posted
    <3>1. send.chat \in Chats
      BY <2>1 DEF Posted, Typed, CallsTyped
    <3>2. QED
      BY <2>1, <3>1, InvalidatedAgain DEF Posted
  <2>2. CASE StopAnswered
    <3>1. stop.chat \in Chats /\ cache' = cache
      BY <2>2 DEF StopAnswered, Typed, CallsTyped
    <3>2. read' = read \/ read' = Invalidated(stop.chat)
      BY <2>2 DEF StopAnswered
    <3>3. QED
      BY <3>1, <3>2, InvalidatedAgain
  <2>3. ASSUME NEW c \in Chats, Created(c) PROVE ReadsAgain
    BY <2>3, OpenStreamAgain DEF Created
  <2>4. CASE SendEnds \/ SendFails
    BY <1>0, <2>4 DEF SendEnds, SendFails
  <2>5. QED
    BY <1>2, <2>1, <2>2, <2>3, <2>4 DEF Answers
<1>3. CASE Ready \/ Hear
  <2>1. conn # "off" /\ view.chat \in Chats
    BY <1>3 DEF Ready, ReadyFrom, Hear, Typed, ViewTyped, Views
  <2>2. cache' = cache
    BY <1>3 DEF Ready, ReadyFrom, Hear
  <2>3. CASE Ready
    <3>1. read' = read \/ read' = Invalidated(view.chat)
      BY <2>3 DEF Ready, ReadyFrom
    <3>2. QED
      BY <2>1, <2>2, <3>1, InvalidatedAgain
  <2>4. CASE Hear
    <3>0. Head(wire) \in Event
      BY <2>4, TailFacts DEF Hear, Typed, ViewTyped
    <3>1. Head(wire).type \in {"started", "delta", "completed", "cancelled", "error"}
      BY <3>0 DEF Event
    <3>2. read' = read \/ read' = Invalidated(view.chat)
      BY <2>4, <3>1 DEF Hear
    <3>3. QED
      BY <2>1, <2>2, <3>2, InvalidatedAgain
  <2>5. QED
    BY <1>3, <2>3, <2>4
<1>4. CASE Poll
  <2>1. view.chat \in Chats
    BY <1>4 DEF Poll, Typed, ViewTyped, Views
  <2>2. QED
    BY <1>4, <2>1, InvalidatedAgain DEF Poll
<1>5. CASE \E x \in 1..sends + 1, steer \in BOOLEAN : Send(x, steer)
  BY <1>0, <1>5 DEF Send
<1>6. CASE Stop \/ NewChat \/ StopFails \/ Drop \/ RetryStream
  BY <1>0, <1>6 DEF Stop, NewChat, StopFails, Drop, RetryStream
<1>7. ASSUME NEW c \in Chats, Select(c) PROVE ReadsAgain
  BY <1>7, OpenStreamAgain DEF Select
<1>8. CASE UNCHANGED vars
  BY <1>0, <1>8 DEF vars
<1>9. QED
  BY <1>1, <1>2, <1>3, <1>4, <1>5, <1>6, <1>7, <1>8 DEF Next, Reads

LEMMA ListStep ==
  ASSUME Typed, Typed', LogInv, ListInv, [Next]_vars
  PROVE  ListInv'
<1>0. /\ \A c \in Chats : /\ log[c] \in Seq(Message) /\ log'[c] \in Seq(Message)
                          /\ cache[c] \in Seq(Message) /\ read[c].got \in Seq(Message)
                          /\ Opens(log[c], log'[c])
  BY LogStep DEF Typed, DaemonTyped, ListTyped, Readings, LogGrows
<1>1. \A c \in Chats : Opens(cache[c], log'[c]) /\ Opens(read[c].got, log'[c])
  <2> SUFFICES ASSUME NEW c \in Chats PROVE Opens(cache[c], log'[c]) /\ Opens(read[c].got, log'[c])
    OBVIOUS
  <2>1. Opens(cache[c], log[c]) /\ Opens(read[c].got, log[c])
    BY DEF ListInv
  <2>2. QED
    BY <1>0, <2>1, OpensFacts
<1>2. CASE ReadsAgain
  <2> SUFFICES ASSUME NEW c \in Chats
               PROVE  /\ Opens(cache'[c], log'[c]) /\ Opens(read'[c].got, log'[c])
                      /\ read'[c].step = "read" => Opens(cache'[c], read'[c].got)
    BY DEF ListInv
  <2>1. CASE read'[c] = read[c]
    BY <1>1, <1>2, <2>1 DEF ReadsAgain, ListInv
  <2>2. CASE read'[c].step = "asked" /\ read'[c].got = <<>>
    BY <1>0, <1>1, <1>2, <2>2, OpensFacts DEF ReadsAgain
  <2>3. QED
    BY <1>2, <2>1, <2>2 DEF ReadsAgain
<1>3. ASSUME NEW d \in Chats, ReadServed(d) PROVE ListInv'
  <2> SUFFICES ASSUME NEW c \in Chats
               PROVE  /\ Opens(cache'[c], log'[c]) /\ Opens(read'[c].got, log'[c])
                      /\ read'[c].step = "read" => Opens(cache'[c], read'[c].got)
    BY DEF ListInv
  <2>1. cache' = cache /\ log' = log /\ read' = [read EXCEPT ![d].step = "read", ![d].got = log[d]]
    BY <1>3 DEF ReadServed, daemonVars
  <2>2. CASE c = d
    <3>1. read'[c].got = log[c]
      BY <2>1, <2>2 DEF Typed, ListTyped, Readings
    <3>2. QED
      BY <1>0, <1>1, <2>1, <3>1, OpensFacts
  <2>3. CASE c # d
    <3>1. read'[c] = read[c]
      BY <2>1, <2>3 DEF Typed, ListTyped
    <3>2. QED
      BY <2>1, <3>1 DEF ListInv
  <2>4. QED
    BY <2>2, <2>3
<1>4. ASSUME NEW d \in Chats, ReadArrives(d) PROVE ListInv'
  <2> SUFFICES ASSUME NEW c \in Chats
               PROVE  /\ Opens(cache'[c], log'[c]) /\ Opens(read'[c].got, log'[c])
                      /\ read'[c].step = "read" => Opens(cache'[c], read'[c].got)
    BY DEF ListInv
  <2>1. /\ cache' = [cache EXCEPT ![d] = read[d].got] /\ log' = log
        /\ read' = [read EXCEPT ![d] = [Unread EXCEPT !.data = TRUE]] /\ read[d].step = "read"
    BY <1>4 DEF ReadArrives, daemonVars
  <2>2. CASE c = d
    <3>1. cache'[c] = read[c].got /\ read'[c] = [Unread EXCEPT !.data = TRUE]
      BY <2>1, <2>2 DEF Typed, ListTyped
    <3>2. read'[c].got = <<>> /\ read'[c].step = "idle"
      BY <3>1 DEF Unread
    <3>3. QED
      BY <1>0, <1>1, <3>1, <3>2, OpensFacts
  <2>3. CASE c # d
    <3>1. read'[c] = read[c] /\ cache'[c] = cache[c]
      BY <2>1, <2>3 DEF Typed, ListTyped
    <3>2. QED
      BY <2>1, <3>1 DEF ListInv
  <2>4. QED
    BY <2>2, <2>3
<1>5. QED
  BY <1>2, <1>3, <1>4, WhatReads

-----------------------------------------------------------------------------
(***************************************************************************)
(* What is on screen                                                       *)
(***************************************************************************)
\* Local message k was there before, and says the same.
Kept(k) ==
  /\ k \in 1..Len(view.local)
  /\ view'.local[k].chat = view.local[k].chat /\ view'.local[k].role = view.local[k].role
  /\ view'.local[k].says = view.local[k].says

\* No local message goes.
Stays == \A k \in 1..Len(view.local) : k \in 1..Len(view'.local) /\ Kept(k)

ShownInv == ContentInv /\ OnceInv /\ EchoInv /\ WireInv

LEMMA LocalFacts ==
  ASSUME Typed
  PROVE  /\ view.local \in Seq(Local) /\ Len(view.local) \in Nat
         /\ \A k \in 1..Len(view.local) :
              /\ view.local[k] \in Local /\ view.local[k].chat \in Chats
              /\ view.local[k].id \in Int /\ view.local[k].for \in Nat
         /\ sends \in Nat /\ send.id \in Nat /\ Echo = -sends
<1>1. view.local \in Seq(Local) /\ sends \in Nat /\ send.id \in Nat
  BY DEF Typed, ViewTyped, Views, CallsTyped, Sends, Ids
<1>2. \A k \in 1..Len(view.local) : view.local[k] \in Local
  BY <1>1
<1>3. \A m \in Local : m.id \in Int /\ m.for \in Nat /\ m.chat \in Chats
  BY DEF Local, Ids, Echoes, LocalId
<1>4. QED
  BY <1>1, <1>2, <1>3 DEF Echo, LocalId

LEMMA SameStays ==
  ASSUME view'.local = view.local
  PROVE  Stays
  BY DEF Stays, Kept

LEMMA JoinStays ==
  ASSUME Typed, NEW m \in Local, view'.local = Append(view.local, m)
  PROVE  Stays
<1>1. /\ Len(view'.local) = Len(view.local) + 1 /\ Len(view.local) \in Nat
      /\ \A k \in 1..Len(view.local) : view'.local[k] = view.local[k]
  BY LocalFacts, AppendFacts
<1>2. QED
  BY <1>1 DEF Stays, Kept

\* Whoever stands for a message stands for one that was given.
LEMMA StandsGiven ==
  ASSUME Typed, LogInv, ContentInv, NEW k \in 1..Len(view.local), NEW n \in Nat, Stands(k, n)
  PROVE  n \in 1..given
  BY LocalFacts, KnownId DEF ContentInv

\* As long as nobody stands for anything new, contents and names are as they were.
LEMMA LocalsKept ==
  ASSUME Typed, Typed', LogGrows, ContentInv, OnceInv,
         \A k \in 1..Len(view'.local), n \in Nat : Stands(k, n)' => Kept(k) /\ Stands(k, n)
  PROVE  ContentInv' /\ OnceInv'
<1>1. ContentInv'
  <2> SUFFICES ASSUME NEW k \in 1..Len(view'.local), NEW n \in Nat, Stands(k, n)'
               PROVE  Known(view.local[k].chat, n, view.local[k].role, view.local[k].says)'
    BY DEF ContentInv
  <2>1. Kept(k) /\ Stands(k, n)
    OBVIOUS
  <2>2. PICK c, role, says :
          c \in Chats /\ c = view.local[k].chat /\ role = view.local[k].role /\ says = view.local[k].says
    BY <2>1, LocalFacts DEF Kept
  <2>3. Known(c, n, role, says)
    BY <2>1, <2>2 DEF ContentInv, Kept
  <2>4. Known(c, n, role, says)'
    BY <2>2, <2>3, KnownStays
  <2>5. QED
    BY <2>1, <2>2, <2>4 DEF Kept, Known
<1>2. OnceInv'
  BY DEF OnceInv, Kept
<1>3. QED
  BY <1>1, <1>2

\* No local message stands for what a frame tells.
Free(n) == \A k \in 1..Len(view.local) : ~Stands(k, n)

LEMMA FrameFacts ==
  ASSUME Typed, LogInv, WireInv, NEW i \in 1..Len(wire)
  PROVE  /\ wire[i] \in Event /\ view.chat \in Chats
         /\ wire[i].id \in Nat
         /\ wire[i].id # 0 => wire[i].id \in 1..given
<1>1. wire[i] \in Event /\ wire # <<>>
  BY EmptySeqFacts DEF Typed, ViewTyped
<1>2. view.chat \in Chats
  BY <1>1 DEF WireInv, Typed, ViewTyped, Views
<1>3. wire[i].id \in Nat
  BY <1>1 DEF Event, Ids
<1>4. ASSUME wire[i].id # 0 PROVE wire[i].id \in 1..given
  <2>1. Known(view.chat, wire[i].id, "assistant", <<wire[i].turn, wire[i].cut>>)
    BY <1>4 DEF WireInv, FrameOK
  <2>2. QED
    BY <1>2, <2>1, KnownId
<1>5. QED
  BY <1>1, <1>2, <1>3, <1>4

\* What a frame tells stays stored.
LEMMA FrameStays ==
  ASSUME Typed, Typed', LogInv, LogGrows, WireInv, NEW i \in 1..Len(wire), wire[i].id # 0,
         NEW j \in 1..Len(wire'), wire'[j] = wire[i], view'.chat = view.chat
  PROVE  Known(view.chat, wire[j].id, "assistant", <<wire[j].turn, wire[j].cut>>)'
<1>1. PICK c, n, says :
        c \in Chats /\ c = view.chat /\ n = wire[i].id /\ says = <<wire[i].turn, wire[i].cut>>
  BY FrameFacts
<1>2. Known(c, n, "assistant", says)
  BY <1>1 DEF WireInv, FrameOK
<1>3. Known(c, n, "assistant", says)'
  BY <1>1, <1>2, KnownStays
<1>4. QED
  BY <1>1, <1>3 DEF Known

\* The frames left are those that were there, the first of them gone or not.
LEMMA FramesKept ==
  ASSUME Typed, Typed', LogInv, LogGrows, WireInv, view'.chat = view.chat,
         wire' = wire \/ (wire # <<>> /\ wire' = Tail(wire)), wire' # <<>> => conn' = "live",
         \A i \in 1..Len(wire') : wire'[i].id # 0 => Free(wire[i].id)'
  PROVE  WireInv'
<1>1. PICK d \in {0, 1} : /\ Len(wire') + d = Len(wire)
                          /\ \A i \in 1..Len(wire') : wire'[i] = wire[i + d]
  <2>1. CASE wire' = wire
    <3>1. wire \in Seq(Event) /\ Len(wire) \in Nat
      BY DEF Typed, ViewTyped
    <3>2. Len(wire') + 0 = Len(wire) /\ \A i \in 1..Len(wire') : wire'[i] = wire[i + 0]
      BY <2>1, <3>1
    <3>3. QED
      BY <3>2
  <2>2. CASE wire # <<>> /\ wire' = Tail(wire)
    <3>1. wire \in Seq(Event) /\ Len(wire) \in Nat \ {0}
      BY <2>2, TailFacts DEF Typed, ViewTyped
    <3>2. Len(wire') + 1 = Len(wire) /\ \A i \in 1..Len(wire') : wire'[i] = wire[i + 1]
      BY <2>2, <3>1, TailFacts
    <3>3. QED
      BY <3>2
  <2>3. QED
    BY <2>1, <2>2
<1>2. Len(wire) \in Nat /\ Len(wire') \in Nat
  BY DEF Typed, ViewTyped
<1>3. ASSUME NEW i \in 1..Len(wire') PROVE FrameOK(i)'
  <2>1. i + d \in 1..Len(wire) /\ wire'[i] = wire[i + d]
    BY <1>1, <1>2
  <2>2. FrameOK(i + d)
    BY <2>1 DEF WireInv
  <2>3. wire'[i].type = "completed" => wire'[i].id # 0
    BY <2>1, <2>2 DEF FrameOK
  <2>4. ASSUME wire'[i].id # 0
        PROVE  /\ Known(view.chat, wire[i].id, "assistant", <<wire[i].turn, wire[i].cut>>)'
               /\ Free(wire[i].id)'
               /\ \A j \in 1..Len(wire') : wire'[j].id = wire'[i].id => i = j
    <3>1. Known(view.chat, wire[i].id, "assistant", <<wire[i].turn, wire[i].cut>>)'
      BY <2>1, <2>4, FrameStays
    <3>2. ASSUME NEW j \in 1..Len(wire'), wire'[j].id = wire'[i].id PROVE i = j
      <4>1. j + d \in 1..Len(wire) /\ wire[j + d].id = wire[i + d].id
        BY <1>1, <1>2, <2>1, <3>2
      <4>2. i + d = j + d
        BY <2>1, <2>2, <2>4, <4>1 DEF FrameOK
      <4>3. QED
        BY <4>2
    <3>3. QED
      BY <2>4, <3>1, <3>2
  <2>5. QED
    BY <2>3, <2>4 DEF FrameOK, Free
<1>4. QED
  BY <1>3 DEF WireInv

LEMMA NoFrames ==
  ASSUME wire' = <<>>
  PROVE  WireInv'
  BY EmptySeqFacts DEF WireInv

\* A step that leaves the local messages and the send alone.
Aside == view'.local = view.local /\ send' = send /\ sends' = sends

LEMMA AsideFacts ==
  ASSUME Typed, Typed', LogInv, LogGrows, ShownInv, Aside
  PROVE  /\ ContentInv' /\ OnceInv' /\ EchoInv'
         /\ \A k, n : Stands(k, n)' <=> Stands(k, n)
<1>1. \A k, n : Stands(k, n)' <=> Stands(k, n)
  BY DEF Stands, StandsFor, Aside, Echo
<1>2. ContentInv' /\ OnceInv'
  BY <1>1, LocalsKept DEF ShownInv, Aside, Kept
<1>3. given' >= given /\ given \in Nat /\ given' \in Nat
  BY DEF LogGrows, Typed, DaemonTyped
<1>4. SendOK'
  BY <1>3 DEF ShownInv, EchoInv, SendOK, Aside
<1>5. ASSUME NEW k \in 1..Len(view'.local) PROVE EchoOK(k)'
  BY DEF ShownInv, EchoInv, EchoOK, Echo, Aside
<1>6. QED
  BY <1>1, <1>2, <1>4, <1>5 DEF EchoInv

LEMMA AsideShown ==
  ASSUME Typed, Typed', LogInv, LogGrows, ShownInv, Aside,
         \/ wire' = <<>>
         \/ /\ view'.chat = view.chat /\ (wire' # <<>> => conn' = "live")
            /\ wire' = wire \/ (wire # <<>> /\ wire' = Tail(wire))
  PROVE  ShownInv'
<1>1. CASE wire' = <<>>
  BY <1>1, AsideFacts, NoFrames DEF ShownInv
<1>2. CASE wire' # <<>>
  <2>1. ASSUME NEW i \in 1..Len(wire'), wire'[i].id # 0 PROVE Free(wire[i].id)'
    <3>1. Len(wire) \in Nat /\ wire \in Seq(Event)
      BY DEF Typed, ViewTyped
    <3>2. PICK j \in 1..Len(wire) : wire'[i] = wire[j]
      <4>1. CASE wire' = wire
        BY <4>1
      <4>2. CASE wire # <<>> /\ wire' = Tail(wire)
        <5>1. i + 1 \in 1..Len(wire) /\ wire'[i] = wire[i + 1]
          BY <3>1, <4>2, TailFacts
        <5>2. QED
          BY <5>1
      <4>3. QED
        BY <1>2, <4>1, <4>2
    <3>3. \A k \in 1..Len(view.local) : ~Stands(k, wire[j].id)
      BY <2>1, <3>2 DEF ShownInv, WireInv, FrameOK
    <3>4. PICK n : n = wire[j].id
      OBVIOUS
    <3>5. \A k \in 1..Len(view.local) : ~Stands(k, n)'
      BY <3>3, <3>4, AsideFacts
    <3>6. QED
      BY <3>2, <3>4, <3>5 DEF Free, Aside, Stands, StandsFor
  <2>2. /\ WireInv /\ view'.chat = view.chat /\ (wire' # <<>> => conn' = "live")
        /\ wire' = wire \/ (wire # <<>> /\ wire' = Tail(wire))
    BY <1>2 DEF ShownInv
  <2>3. \A i \in 1..Len(wire') : wire'[i].id # 0 => Free(wire[i].id)'
    BY <2>1
  <2>4. WireInv'
    BY <2>2, <2>3, FramesKept
  <2>5. QED
    BY <2>4, AsideFacts DEF ShownInv
<1>3. QED
  BY <1>1, <1>2

\* What may be said of a frame when it is sent.
News(c, e) ==
  /\ e.type = "completed" => e.id # 0
  /\ e.id # 0 => /\ e.id > given
                 /\ Known(c, e.id, "assistant", <<e.turn, e.cut>>)'
                 /\ Free(e.id)'

LEMMA FrameJoins ==
  ASSUME Typed, Typed', LogInv, LogGrows, WireInv, view'.chat = view.chat, conn' = conn,
         NEW c \in Chats, NEW e \in Event, Emit(c, <<e>>), News(c, e),
         \A n \in 1..given : Free(n) => Free(n)'
  PROVE  WireInv'
<1>0. wire \in Seq(Event) /\ Len(wire) \in Nat /\ given \in Nat
  BY DEF Typed, ViewTyped, DaemonTyped
<1>1. wire' = IF Hears(c) THEN Append(wire, e) ELSE wire
  BY <1>0, EmitFacts
<1>2. \A i \in 1..Len(wire) : wire[i].id # 0 => Free(wire[i].id)
  BY DEF WireInv, FrameOK, Free
<1>3. ASSUME NEW i \in 1..Len(wire), NEW j \in 1..Len(wire'), wire'[j] = wire[i], wire[i].id # 0
      PROVE  Free(wire[j].id)'
  <2>1. PICK n : n = wire[i].id
    OBVIOUS
  <2>2. n \in 1..given /\ Free(n)
    BY <1>2, <1>3, <2>1, FrameFacts
  <2>3. Free(n)'
    BY <2>2
  <2>4. QED
    BY <1>3, <2>1, <2>3 DEF Free, Stands, StandsFor
<1>4. CASE ~Hears(c)
  <2>1. wire' = wire
    BY <1>1, <1>4
  <2>2. \A i \in 1..Len(wire') : wire'[i].id # 0 => Free(wire[i].id)'
    BY <1>3, <2>1
  <2>3. wire' # <<>> => conn' = "live"
    BY <2>1 DEF WireInv
  <2>4. QED
    BY <2>1, <2>2, <2>3, FramesKept
<1>5. CASE Hears(c)
  <2>1. /\ Len(wire') = Len(wire) + 1 /\ wire'[Len(wire) + 1] = e
        /\ \A i \in 1..Len(wire) : wire'[i] = wire[i]
    BY <1>0, <1>1, <1>5, AppendFacts
  <2>2. conn' = "live" /\ view.chat = c
    BY <1>5 DEF Hears
  <2>3. e.id \in Nat
    BY DEF Event, Ids
  <2>4. ASSUME NEW i \in 1..Len(wire), wire[i].id # 0
        PROVE  /\ wire[i].id # e.id
               /\ \A j \in 1..Len(wire') : wire'[j].id = wire[i].id => i = j
    <3>1. wire[i].id \in 1..given
      BY <2>4, FrameFacts
    <3>2. wire[i].id # e.id
      BY <1>0, <2>3, <2>4, <3>1 DEF News
    <3>3. ASSUME NEW j \in 1..Len(wire'), wire'[j].id = wire[i].id PROVE i = j
      <4>1. j # Len(wire) + 1
        BY <2>1, <3>2, <3>3
      <4>2. j \in 1..Len(wire)
        BY <1>0, <2>1, <4>1
      <4>3. QED
        BY <2>1, <2>4, <3>3, <4>2 DEF WireInv, FrameOK
    <3>4. QED
      BY <3>2, <3>3
  <2>5. ASSUME NEW i \in 1..Len(wire) PROVE FrameOK(i)'
    <3>1. wire'[i].type = "completed" => wire'[i].id # 0
      BY <2>1 DEF WireInv, FrameOK
    <3>2. i \in 1..Len(wire')
      BY <1>0, <2>1
    <3>3. ASSUME wire'[i].id # 0
          PROVE  /\ Known(view.chat, wire[i].id, "assistant", <<wire[i].turn, wire[i].cut>>)'
                 /\ Free(wire[i].id)'
                 /\ \A j \in 1..Len(wire') : wire'[j].id = wire'[i].id => i = j
      <4>1. wire'[i] = wire[i] /\ wire[i].id # 0
        BY <2>1, <3>3
      <4>2. QED
        BY <1>3, <2>4, <3>2, <4>1, FrameStays
    <3>4. QED
      BY <3>1, <3>3 DEF FrameOK, Free
  <2>6. ASSUME NEW i \in 1..Len(wire'), i = Len(wire) + 1 PROVE FrameOK(i)'
    <3>1. wire'[i] = e
      BY <2>1, <2>6
    <3>2. ASSUME e.id # 0, NEW j \in 1..Len(wire'), wire'[j].id = e.id PROVE i = j
      <4>1. CASE j \in 1..Len(wire)
        BY <2>1, <2>4, <3>2, <4>1
      <4>2. CASE j \notin 1..Len(wire)
        BY <1>0, <2>1, <2>6, <4>2
      <4>3. QED
        BY <4>1, <4>2
    <3>3. e.id # 0 => Known(view.chat, wire[i].id, "assistant", <<wire[i].turn, wire[i].cut>>)'
      BY <2>2, <3>1 DEF News, Known
    <3>4. QED
      BY <3>1, <3>2, <3>3 DEF FrameOK, News, Free, Stands, StandsFor
  <2>7. ASSUME NEW i \in 1..Len(wire') PROVE i \in 1..Len(wire) \/ i = Len(wire) + 1
    BY <1>0, <2>1
  <2>8. QED
    BY <2>2, <2>5, <2>6, <2>7 DEF WireInv
<1>6. QED
  BY <1>4, <1>5

LEMMA AsideEmits ==
  ASSUME Typed, Typed', LogInv, LogGrows, ShownInv, Aside, view' = view, conn' = conn,
         NEW c \in Chats, NEW e \in Event, Emit(c, <<e>>), e.type = "completed" => e.id # 0,
         e.id # 0 => e.id > given /\ Known(c, e.id, "assistant", <<e.turn, e.cut>>)'
  PROVE  ShownInv'
<1>1. \A n : Free(n) => Free(n)'
  BY AsideFacts DEF Free, Aside
<1>2. ASSUME e.id # 0 PROVE Free(e.id)'
  <2>1. e.id \in Nat /\ given \in Nat /\ e.id \notin 1..given
    BY <1>2 DEF Event, Ids, Typed, DaemonTyped
  <2>2. Free(e.id)
    BY <2>1, StandsGiven DEF Free, ShownInv
  <2>3. QED
    BY <1>1, <2>2
<1>3. News(c, e)
  BY <1>2 DEF News
<1>4. WireInv'
  BY <1>1, <1>3, FrameJoins DEF ShownInv
<1>5. QED
  BY <1>4, AsideFacts DEF ShownInv

LEMMA AddsKnown ==
  ASSUME Typed, NEW c \in Chats, NEW ms \in Seq(Message), Adds(c, ms), NEW i \in 1..Len(ms)
  PROVE  Known(c, ms[i].id, ms[i].role, ms[i].says)'
<1>1. /\ log'[c] = log[c] \o ms /\ log[c] \in Seq(Message)
  BY DEF Adds, Typed, DaemonTyped
<1>2. /\ Len(log'[c]) = Len(log[c]) + Len(ms) /\ log'[c][Len(log[c]) + i] = ms[i]
  BY <1>1, ConcatFacts
<1>3. Len(log[c]) + i \in 1..Len(log'[c])
  BY <1>1, <1>2
<1>4. QED
  BY <1>2, <1>3 DEF Known

\* The frame of a cancelled turn tells of what the turn leaves.
LEMMA CancelledFacts ==
  ASSUME Typed, NEW c \in Chats, NEW ms \in Seq(Message), Adds(c, ms),
         turn[c].said => Len(ms) >= 1 /\ ms[1] = Reply(c, NextId, TRUE)
  PROVE  \E e \in Event :
           /\ e = Cancelled(c) /\ e.type = "cancelled"
           /\ turn[c].said => e.id = given + 1
           /\ ~turn[c].said => e.id = 0
           /\ e.id # 0 => e.id > given /\ Known(c, e.id, "assistant", <<e.turn, e.cut>>)'
<1>1. PICK e \in Event : e = Cancelled(c)
  BY PartialFacts DEF Typed
<1>2. /\ e.type = "cancelled" /\ e.turn = turn[c].of /\ e.cut = TRUE
      /\ turn[c].said => e.id = given + 1
      /\ ~turn[c].said => e.id = 0
  BY <1>1 DEF Cancelled, Ended, NextId
<1>3. ASSUME e.id # 0
      PROVE  e.id > given /\ Known(c, e.id, "assistant", <<e.turn, e.cut>>)'
  <2>1. turn[c].said /\ e.id = given + 1 /\ given \in Nat
    BY <1>2, <1>3 DEF Typed, DaemonTyped
  <2>2. ms[1] = Reply(c, NextId, TRUE) /\ Len(ms) >= 1
    BY <2>1
  <2>3. /\ ms[1].id = e.id /\ ms[1].role = "assistant" /\ ms[1].says = <<e.turn, e.cut>>
        /\ 1 \in 1..Len(ms)
    <3>1. 1 \in 1..Len(ms)
      BY <2>2
    <3>2. ms[1].id = NextId /\ ms[1].role = "assistant"
      BY <2>2 DEF Reply
    <3>3. ms[1].says = <<turn[c].of, TRUE>>
      BY <2>2, ReplySays, Zenon
    <3>4. <<turn[c].of, TRUE>> = <<e.turn, e.cut>>
      BY <1>2, Zenon
    <3>5. ms[1].says = <<e.turn, e.cut>>
      BY <3>3, <3>4, Zenon
    <3>6. QED
      BY <2>1, <3>1, <3>2, <3>5 DEF NextId
  <2>4. Known(c, ms[1].id, ms[1].role, ms[1].says)'
    BY <2>3, AddsKnown
  <2>5. QED
    BY <2>1, <2>3, <2>4
<1>4. QED
  BY <1>1, <1>2, <1>3

\* Nothing the daemon does touches the view.
LEMMA TurnsStay ==
  ASSUME Daemon
  PROVE  Stays
  BY SameStays DEF Daemon, Begins, Talks, Completes, Breaks, Cancels, Stores

LEMMA TurnsShown ==
  ASSUME Typed, Typed', LogInv, LogGrows, ShownInv, Daemon, ~Stores
  PROVE  ShownInv'
<1>0. 0 \in Ids /\ NextId \in Ids /\ NextId = given + 1 /\ given \in Nat
  BY DEF Typed, DaemonTyped, NextId, Ids
<1>1. ASSUME NEW c \in Chats, Begins(c) PROVE ShownInv'
  <2> DEFINE e == [type |-> "started", turn |-> Head(queue[c]), id |-> 0, cut |-> FALSE]
  <2>1. e \in Event
    BY <1>0, <1>1, TailFacts DEF Begins, Typed, DaemonTyped, Event
  <2>2. Emit(c, <<e>>) /\ Aside /\ view' = view /\ conn' = conn
    BY <1>1 DEF Begins, Aside, bounds
  <2>3. e.id = 0 /\ e.type = "started"
    OBVIOUS
  <2> HIDE DEF e
  <2>4. QED
    BY <2>1, <2>2, <2>3, AsideEmits
<1>2. ASSUME NEW c \in Chats, Talks(c) PROVE ShownInv'
  <2> DEFINE e == [type |-> "delta", turn |-> turn[c].of, id |-> 0, cut |-> FALSE]
  <2>1. e \in Event
    BY <1>0 DEF Typed, DaemonTyped, Turns, Event
  <2>2. Emit(c, <<e>>) /\ Aside /\ view' = view /\ conn' = conn
    BY <1>2 DEF Talks, Aside, bounds
  <2>3. e.id = 0 /\ e.type = "delta"
    OBVIOUS
  <2> HIDE DEF e
  <2>4. QED
    BY <2>1, <2>2, <2>3, AsideEmits
<1>3. ASSUME NEW c \in Chats, Completes(c) PROVE ShownInv'
  <2>1. PICK e \in Event : e = Ended(c, "completed", NextId)
    BY <1>0, ReplyFacts DEF Typed
  <2>2. PICK ms \in Seq(Message) : ms = <<Reply(c, NextId, FALSE)>> /\ Adds(c, ms)
    BY <1>3, CompletesAdds
  <2>3. Emit(c, <<e>>) /\ Aside /\ view' = view /\ conn' = conn
    BY <1>3, <2>1 DEF Completes, Aside, bounds
  <2>4. e.id = given + 1 /\ e.turn = turn[c].of /\ e.cut = FALSE /\ e.type = "completed"
    BY <1>0, <2>1 DEF Ended
  <2>5. /\ ms[1].id = e.id /\ ms[1].role = "assistant" /\ ms[1].says = <<e.turn, e.cut>>
        /\ 1 \in 1..Len(ms)
    <3>1. Len(ms) = 1 /\ ms[1] = Reply(c, NextId, FALSE)
      BY <2>2
    <3>2. ms[1].id = NextId /\ ms[1].role = "assistant"
      BY <3>1 DEF Reply
    <3>3. ms[1].says = <<turn[c].of, FALSE>>
      BY <3>1, ReplySays, Zenon
    <3>4. <<turn[c].of, FALSE>> = <<e.turn, e.cut>>
      BY <2>4, Zenon
    <3>5. ms[1].says = <<e.turn, e.cut>>
      BY <3>3, <3>4, Zenon
    <3>6. 1 \in 1..Len(ms) /\ e.id = NextId
      BY <1>0, <2>4, <3>1
    <3>7. QED
      BY <3>2, <3>5, <3>6
  <2>6. Known(c, ms[1].id, ms[1].role, ms[1].says)'
    BY <2>2, <2>5, AddsKnown
  <2>7. e.id > given /\ e.id # 0 /\ Known(c, e.id, "assistant", <<e.turn, e.cut>>)'
    BY <1>0, <2>4, <2>5, <2>6
  <2>8. QED
    BY <2>3, <2>7, AsideEmits
<1>4. ASSUME NEW c \in Chats, Breaks(c) PROVE ShownInv'
  <2> DEFINE e == Ended(c, "error", 0)
  <2>1. e \in Event
    BY <1>0, ReplyFacts DEF Typed
  <2>2. Emit(c, <<e>>) /\ Aside /\ view' = view /\ conn' = conn
    BY <1>4 DEF Breaks, Aside, bounds
  <2>3. e.id = 0 /\ e.type = "error"
    BY DEF Ended
  <2> HIDE DEF e
  <2>4. QED
    BY <2>1, <2>2, <2>3, AsideEmits
<1>5. CASE Cancels
  <2> DEFINE c == stop.chat
  <2>1. c \in Chats /\ Aside /\ view' = view /\ conn' = conn
    BY <1>5 DEF Cancels, Aside, bounds, Typed, CallsTyped
  <2>2. CASE turn[c].of # 0 /\ stop.of \in {0, turn[c].of}
    <3>1. Emit(c, <<Cancelled(c)>>) /\ Adds(c, Partial(c))
      BY <1>5, <2>1, <2>2, PartialAdds DEF Cancels, Adds
    <3>2. Partial(c) \in Seq(Message)
      BY <2>1, PartialFacts DEF Typed
    <3>3. PICK d \in Chats : d = c
      BY <2>1
    <3>4. ASSUME turn[d].said PROVE Len(Partial(d)) >= 1 /\ Partial(d)[1] = Reply(d, NextId, TRUE)
      <4>1. Partial(d) = <<Reply(d, NextId, TRUE)>> /\ Len(Partial(d)) = 1
        BY <3>4, PartialFacts DEF Typed
      <4>2. QED
        BY <4>1
    <3>5. PICK ms \in Seq(Message) : ms = Partial(d)
      BY <3>2, <3>3
    <3>6. PICK e \in Event : /\ e = Cancelled(d) /\ e.type = "cancelled"
                             /\ e.id # 0 => /\ e.id > given
                                            /\ Known(d, e.id, "assistant", <<e.turn, e.cut>>)'
      BY <3>1, <3>3, <3>4, <3>5, CancelledFacts
    <3>7. QED
      BY <2>1, <3>1, <3>3, <3>6, AsideEmits
  <2>3. CASE ~(turn[c].of # 0 /\ stop.of \in {0, turn[c].of})
    <3>1. wire' = wire
      BY <1>5, <2>3 DEF Cancels
    <3>2. QED
      BY <2>1, <3>1, AsideShown DEF ShownInv, WireInv
  <2>4. QED
    BY <2>2, <2>3
<1>6. QED
  BY <1>1, <1>2, <1>3, <1>4, <1>5 DEF Daemon

\* A steered message ends the running turn: what that said comes before it.
LEMMA StoresCut ==
  ASSUME Typed, NEW c \in Chats, c = send.chat, Stores, send.steer, turn[c].of # 0, turn[c].said
  PROVE  Len(Stored(c)) = 2 /\ Stored(c)[1] = Reply(c, NextId, TRUE)
<1>1. Partial(c) = <<Reply(c, NextId, TRUE)>> /\ Partial(c) \in Seq(Message) /\ Len(Partial(c)) = 1
  BY PartialFacts DEF Typed
<1>2. Partial(c)[1] = Reply(c, NextId, TRUE)
  BY <1>1
<1>3. PICK m : m = [id |-> given', role |-> "user", says |-> send.says, to |-> 0]
  OBVIOUS
<1>4. Stored(c) = Append(Partial(c), m)
  BY <1>3 DEF Stored
<1>5. Len(Append(Partial(c), m)) = 2 /\ Append(Partial(c), m)[1] = Partial(c)[1]
  BY <1>1
<1>6. QED
  BY <1>2, <1>4, <1>5

LEMMA StoresShown ==
  ASSUME Typed, Typed', LogInv, LogGrows, ShownInv, Stores
  PROVE  ShownInv'
<1>1. PICK c, ms, says :
        /\ c \in Chats /\ ms \in Seq(Message) /\ c = send.chat /\ ms = Stored(c) /\ says = send.says
        /\ Adds(c, ms) /\ Len(ms) \in 1..2
        /\ ms[Len(ms)] = [id |-> given', role |-> "user", says |-> says, to |-> 0]
  BY StoresAdds
<1>2. PICK id \in Nat : id = given' /\ id = given + Len(ms) /\ id > given /\ given \in Nat
  <2>1. given \in Nat /\ Len(ms) \in 1..2 /\ given' = given + Len(ms)
    BY <1>1 DEF Adds, Typed, DaemonTyped
  <2>2. PICK l \in 1..2 : l = Len(ms)
    BY <2>1
  <2>3. given + l \in Nat /\ given + l > given
    BY <2>1
  <2>4. QED
    BY <2>1, <2>2, <2>3
<1>3. /\ view' = view /\ conn' = conn /\ sends' = sends /\ Echo' = Echo
      /\ send.step = "posting" /\ send'.step = "stored" /\ send'.chat = c /\ send'.id = id
  BY <1>1, <1>2 DEF Stores, NoSend, Echo, bounds
<1>4. Known(c, id, "user", says)'
  <2>1. Len(ms) \in 1..Len(ms) /\ ms[Len(ms)].id = id /\ ms[Len(ms)].role = "user" /\ ms[Len(ms)].says = says
    BY <1>1, <1>2
  <2>2. Known(c, ms[Len(ms)].id, ms[Len(ms)].role, ms[Len(ms)].says)'
    BY <1>1, <2>1, AddsKnown
  <2>3. QED
    BY <2>1, <2>2
<1>5. \A k, n : Stands(k, n)' <=> Stands(k, n) \/ (n > 0 /\ n = id /\ view.local[k].id = Echo)
  BY <1>3 DEF Stands, StandsFor
<1>6. ContentInv'
  <2> SUFFICES ASSUME NEW k \in 1..Len(view'.local), NEW n \in Nat, Stands(k, n)'
               PROVE  Known(view.local[k].chat, n, view.local[k].role, view.local[k].says)'
    BY DEF ContentInv
  <2>1. k \in 1..Len(view.local)
    BY <1>3
  <2>2. PICK d, role, said :
          d \in Chats /\ d = view.local[k].chat /\ role = view.local[k].role /\ said = view.local[k].says
    BY <2>1, LocalFacts
  <2>3. CASE Stands(k, n)
    <3>1. Known(d, n, role, said)
      BY <2>1, <2>2, <2>3 DEF ShownInv, ContentInv
    <3>2. Known(d, n, role, said)'
      BY <2>2, <3>1, KnownStays
    <3>3. QED
      BY <1>3, <2>2, <3>2 DEF Known
  <2>4. CASE n = id /\ view.local[k].id = Echo
    <3>1. d = c /\ role = "user" /\ said = says
      BY <1>1, <1>3, <2>1, <2>2, <2>4 DEF ShownInv, EchoInv, EchoOK
    <3>2. QED
      BY <1>3, <1>4, <2>2, <2>4, <3>1 DEF Known
  <2>5. QED
    BY <1>5, <2>3, <2>4
<1>7. OnceInv'
  <2> SUFFICES ASSUME NEW j \in 1..Len(view'.local), NEW k \in 1..Len(view'.local), NEW n \in Nat,
                      Stands(j, n)', Stands(k, n)'
               PROVE  j = k
    BY DEF OnceInv
  <2>1. j \in 1..Len(view.local) /\ k \in 1..Len(view.local)
    BY <1>3
  <2>2. CASE Stands(j, n) \/ Stands(k, n)
    <3>1. n # id
      BY <1>2, <2>1, <2>2, StandsGiven DEF ShownInv
    <3>2. QED
      BY <1>5, <2>1, <3>1 DEF ShownInv, OnceInv
  <2>3. CASE view.local[j].id = Echo /\ view.local[k].id = Echo
    BY <2>1, <2>3 DEF ShownInv, EchoInv, EchoOK
  <2>4. QED
    BY <1>5, <2>2, <2>3
<1>8. EchoInv'
  <2>1. SendOK'
    BY <1>2, <1>3 DEF SendOK
  <2>2. ASSUME NEW k \in 1..Len(view'.local) PROVE EchoOK(k)'
    BY <1>1, <1>3 DEF ShownInv, EchoInv, EchoOK
  <2>3. QED
    BY <2>1, <2>2 DEF EchoInv
<1>9. WireInv'
  <2>1. \A n \in 1..given : Free(n) => Free(n)'
    BY <1>2, <1>3, <1>5 DEF Free
  <2>2. CASE send.steer /\ turn[c].of # 0
    <3>1. ASSUME turn[c].said PROVE Len(ms) >= 1 /\ ms[1] = Reply(c, NextId, TRUE) /\ id = given + 2
      <4>1. Len(Stored(c)) = 2 /\ Stored(c)[1] = Reply(c, NextId, TRUE)
        BY <1>1, <2>2, <3>1, StoresCut
      <4>2. QED
        BY <1>1, <1>2, <4>1
    <3>2. PICK e \in Event : /\ e = Cancelled(c) /\ e.type = "cancelled"
                             /\ turn[c].said => e.id = given + 1
                             /\ ~turn[c].said => e.id = 0
                             /\ e.id # 0 => /\ e.id > given
                                            /\ Known(c, e.id, "assistant", <<e.turn, e.cut>>)'
      BY <1>1, <3>1, CancelledFacts
    <3>3. ASSUME e.id # 0 PROVE Free(e.id)'
      <4>1. turn[c].said
        BY <3>2, <3>3
      <4>2. e.id \in Nat /\ e.id \notin 1..given /\ e.id # id
        BY <1>2, <3>1, <3>2, <4>1
      <4>3. Free(e.id)
        BY <4>2, StandsGiven DEF Free, ShownInv
      <4>4. QED
        BY <1>3, <1>5, <4>2, <4>3 DEF Free
    <3>4. Emit(c, <<e>>)
      BY <1>1, <2>2, <3>2 DEF Stores
    <3>5. News(c, e)
      BY <3>2, <3>3 DEF News
    <3>6. QED
      BY <1>1, <1>3, <2>1, <3>4, <3>5, FrameJoins DEF ShownInv
  <2>3. CASE ~(send.steer /\ turn[c].of # 0)
    <3>1. wire' = wire
      <4>1. Emit(c, <<>>)
        BY <1>1, <2>3 DEF Stores
      <4>2. QED
        BY <4>1 DEF Emit, Typed, ViewTyped
    <3>2. ASSUME NEW i \in 1..Len(wire'), wire'[i].id # 0 PROVE Free(wire[i].id)'
      <4>1. PICK n : n = wire[i].id
        OBVIOUS
      <4>2. i \in 1..Len(wire) /\ wire[i].id # 0
        BY <3>1, <3>2
      <4>3. n \in 1..given /\ Free(n)
        BY <4>1, <4>2, FrameFacts DEF ShownInv, WireInv, FrameOK, Free
      <4>4. Free(n)'
        BY <2>1, <4>3
      <4>5. QED
        BY <3>1, <4>1, <4>4 DEF Free, Stands, StandsFor
    <3>3. wire' # <<>> => conn' = "live"
      BY <1>3, <3>1 DEF ShownInv, WireInv
    <3>4. \A i \in 1..Len(wire') : wire'[i].id # 0 => Free(wire[i].id)'
      BY <3>2
    <3>5. QED
      BY <1>3, <3>1, <3>3, <3>4, FramesKept DEF ShownInv
  <2>4. QED
    BY <2>2, <2>3
<1>10. QED
  BY <1>6, <1>7, <1>8, <1>9 DEF ShownInv

\* Nobody stands for anything new.
NoNewNames == \A k \in 1..Len(view'.local), n \in Nat : Stands(k, n)' => Kept(k) /\ Stands(k, n)

LEMMA NoNewShown ==
  ASSUME Typed, Typed', LogInv, LogGrows, ShownInv, NoNewNames, EchoInv',
         wire' = <<>> \/ (view'.chat = view.chat /\ wire' = wire /\ conn' = conn)
  PROVE  ShownInv'
<1>1. ContentInv' /\ OnceInv'
  BY LocalsKept DEF NoNewNames, ShownInv
<1>2. WireInv'
  <2>1. CASE wire' = <<>>
    BY <2>1, NoFrames
  <2>2. CASE view'.chat = view.chat /\ wire' = wire /\ conn' = conn
    <3>1. ASSUME NEW i \in 1..Len(wire'), wire'[i].id # 0 PROVE Free(wire[i].id)'
      <4>1. i \in 1..Len(wire) /\ wire[i].id # 0
        BY <2>2, <3>1
      <4>2. PICK n \in Nat : n = wire[i].id
        BY <4>1, FrameFacts DEF ShownInv
      <4>3. \A k \in 1..Len(view.local) : ~Stands(k, n)
        BY <4>1, <4>2 DEF ShownInv, WireInv, FrameOK
      <4>4. Free(n)'
        BY <4>3 DEF Free, NoNewNames, Kept
      <4>5. QED
        BY <2>2, <4>2, <4>4 DEF Free, Stands, StandsFor
    <3>2. \A i \in 1..Len(wire') : wire'[i].id # 0 => Free(wire[i].id)'
      BY <3>1
    <3>3. wire' # <<>> => conn' = "live"
      BY <2>2 DEF ShownInv, WireInv
    <3>4. QED
      BY <2>2, <3>2, <3>3, FramesKept DEF ShownInv
  <2>3. QED
    BY <2>1, <2>2
<1>3. QED
  BY <1>1, <1>2 DEF ShownInv

\* A message joins the local ones: the others are as they were.
LEMMA Joins ==
  ASSUME Typed, NEW m \in Local, view'.local = Append(view.local, m), NEW k \in 1..Len(view'.local)
  PROVE  /\ Len(view'.local) = Len(view.local) + 1 /\ Len(view.local) \in Nat
         /\ \/ k \in 1..Len(view.local) /\ view'.local[k] = view.local[k]
            \/ k = Len(view.local) + 1 /\ view'.local[k] = m
<1>1. view.local \in Seq(Local) /\ Len(view.local) \in Nat
  BY LocalFacts
<1>2. /\ Len(view'.local) = Len(view.local) + 1
      /\ \A i \in 1..Len(view.local) : view'.local[i] = view.local[i]
      /\ view'.local[Len(view.local) + 1] = m
  BY <1>1, AppendFacts
<1>3. QED
  BY <1>1, <1>2

\* The optimistic message of a send whose call starts.
LEMMA EchoJoins ==
  ASSUME Typed, Typed', ShownInv, NEW m \in Local, view'.local = Append(view.local, m),
         m.id = Echo', m.for = 0, m.role = "user", m.chat = send'.chat, m.says = send'.says,
         send'.step = "posting", send'.id = 0, send.step # "stored", sends' > 0,
         \A k \in 1..Len(view.local) : view.local[k].id > Echo'
  PROVE  NoNewNames /\ EchoInv'
<1>1. Echo' = -sends' /\ sends' \in Nat /\ Len(view.local) \in Nat
  BY LocalFacts DEF Echo, LocalId, Typed, CallsTyped
<1>2. ASSUME NEW k \in 1..Len(view'.local), NEW n \in Nat, Stands(k, n)' PROVE Kept(k) /\ Stands(k, n)
  <2>1. n > 0 /\ n \in {view'.local[k].id, view'.local[k].for}
    BY <1>2 DEF Stands, StandsFor
  <2>2. view'.local[k] # m
    BY <1>1, <2>1
  <2>3. k \in 1..Len(view.local) /\ view'.local[k] = view.local[k]
    BY <2>2, Joins
  <2>4. QED
    BY <2>1, <2>3 DEF Kept, Stands, StandsFor
<1>3. ASSUME NEW k \in 1..Len(view'.local) PROVE EchoOK(k)'
  <2>1. CASE k \in 1..Len(view.local) /\ view'.local[k] = view.local[k]
    <3>1. view'.local[k].id > Echo' /\ view'.local[k].id # 0 /\ view'.local[k].id \in Int
      BY <2>1, LocalFacts DEF ShownInv, EchoInv, EchoOK
    <3>2. QED
      BY <1>1, <3>1 DEF EchoOK
  <2>2. CASE k = Len(view.local) + 1 /\ view'.local[k] = m
    <3>1. ASSUME NEW j \in 1..Len(view'.local), view'.local[j].id = Echo' PROVE j = k
      <4>1. j \notin 1..Len(view.local) \/ view'.local[j] # view.local[j]
        BY <1>1, <3>1, LocalFacts
      <4>2. QED
        BY <2>2, <4>1, Joins
    <3>2. QED
      BY <1>1, <2>2, <3>1 DEF EchoOK
  <2>3. QED
    BY <2>1, <2>2, Joins
<1>4. QED
  BY <1>2, <1>3 DEF NoNewNames, EchoInv, SendOK

LEMMA SendShown ==
  ASSUME Typed, Typed', LogInv, LogGrows, ShownInv, NEW x \in 1..sends + 1, NEW steer \in BOOLEAN,
         Send(x, steer)
  PROVE  ShownInv' /\ Stays
<1> DEFINE down == conn = "reconnecting" \/ view.state = "reconnecting"
           s == [NoSend EXCEPT !.step = IF view.chat = No THEN "creating" ELSE "posting",
                               !.chat = view.chat, !.says = <<x, FALSE>>, !.steer = steer, !.down = down]
           v == [view EXCEPT !.error = down]
<1>1. /\ v \in Views /\ v.chat = view.chat /\ v.local = view.local
      /\ view.chat \in Chats \cup {No} /\ x \in Ids
  <2>1. x \in Ids
    BY DEF Typed, CallsTyped, Ids
  <2>2. QED
    BY <2>1 DEF Typed, ViewTyped, Views
<1>2. s \in Sends /\ s.chat = view.chat /\ s.id = 0
      /\ s.step = (IF view.chat = No THEN "creating" ELSE "posting")
  <2>1. NoSend \in Sends /\ NoSend.id = 0
    BY DEF NoSend, Sends, Says, Ids
  <2>2. <<x, FALSE>> \in Says
    BY <1>1 DEF Says
  <2>3. QED
    BY <1>1, <2>1, <2>2 DEF Sends
<1>3. /\ sends' = sends + 1 /\ sends' \in 1..MaxSends /\ sends \in Nat /\ send.step = "idle"
      /\ send' = (IF view.chat = No THEN s ELSE [s EXCEPT !.down = FALSE])
      /\ Becomes(IF view.chat = No
                 THEN [v EXCEPT !.state = IF down THEN "sending while reconnecting" ELSE "sending"]
                 ELSE WithEcho(v, s))
      /\ wire' = wire /\ conn' = conn
  BY DEF Send, streamVars, Typed, CallsTyped
<1> HIDE DEF s, v
<1>4. Echo' = -(sends + 1) /\ \A k \in 1..Len(view.local) : view.local[k].id > Echo'
  <2>1. Echo' = -(sends + 1) /\ sends \in Nat
    BY <1>3 DEF Echo, LocalId
  <2>2. ASSUME NEW k \in 1..Len(view.local) PROVE view.local[k].id > Echo'
    <3>1. view.local[k].id \in Int /\ view.local[k].id >= -sends
      BY LocalFacts DEF ShownInv, EchoInv, EchoOK
    <3>2. QED
      BY <2>1, <3>1
  <2>3. QED
    BY <2>1, <2>2
<1>5. CASE view.chat = No
  <2>1. /\ [v EXCEPT !.state = IF down THEN "sending while reconnecting" ELSE "sending"] \in Views
        /\ [v EXCEPT !.state = IF down THEN "sending while reconnecting" ELSE "sending"].local = view.local
        /\ [v EXCEPT !.state = IF down THEN "sending while reconnecting" ELSE "sending"].chat = view.chat
    BY <1>1 DEF Views, TurnStates, Active
  <2>2. Becomes([v EXCEPT !.state = IF down THEN "sending while reconnecting" ELSE "sending"])
    BY <1>3, <1>5
  <2>3. view'.local = view.local /\ view'.chat = view.chat
    BY <2>1, <2>2, BecomesFacts
  <2>4. send'.step = "creating" /\ send'.id = 0
    BY <1>2, <1>3, <1>5
  <2>5. NoNewNames
    BY <1>3, <2>3, <2>4 DEF NoNewNames, Kept, Stands, StandsFor
  <2>6. EchoInv'
    <3>1. ASSUME NEW k \in 1..Len(view'.local) PROVE EchoOK(k)'
      <4>1. view.local[k].id > Echo' /\ view.local[k].id # 0 /\ view.local[k].id \in Int
        BY <1>4, <2>3, LocalFacts DEF ShownInv, EchoInv, EchoOK
      <4>2. sends' = sends + 1 /\ sends \in Nat /\ Echo' = -(sends + 1)
        BY <1>3, <1>4
      <4>3. view'.local[k].id >= -sends' /\ view'.local[k].id # 0 /\ view'.local[k].id # Echo'
        BY <2>3, <4>1, <4>2
      <4>4. QED
        BY <2>4, <4>3 DEF EchoOK
    <3>2. QED
      BY <2>4, <3>1 DEF EchoInv, SendOK
  <2>7. QED
    BY <1>3, <2>3, <2>5, <2>6, NoNewShown, SameStays
<1>6. CASE view.chat # No
  <2>1. view.chat \in Chats /\ send' = [s EXCEPT !.down = FALSE] /\ Becomes(WithEcho(v, s))
    BY <1>1, <1>3, <1>6
  <2>2. /\ WithEcho(v, s) \in Views /\ EchoOf(sends', s) \in Local
        /\ WithEcho(v, s).local = Append(view.local, EchoOf(sends', s))
        /\ WithEcho(v, s).chat = view.chat
    BY <1>1, <1>2, <1>3, <2>1, EchoFacts
  <2>3. view'.local = Append(view.local, EchoOf(sends', s)) /\ view'.chat = view.chat
    BY <2>1, <2>2, BecomesFacts
  <2>4. send'.step = "posting" /\ send'.id = 0 /\ send'.chat = s.chat /\ send'.says = s.says
    BY <1>2, <1>6, <2>1 DEF Sends
  <2>5. PICK m \in Local : m = EchoOf(sends', s)
    BY <2>2
  <2>6. m.id = Echo' /\ m.for = 0 /\ m.role = "user" /\ m.chat = s.chat /\ m.says = s.says
    BY <2>5 DEF EchoOf, Echo
  <2>7. NoNewNames /\ EchoInv'
    <3>0. send.step # "stored" /\ sends' > 0
      <4>1. send.step = "idle"
        BY <1>3
      <4>2. sends' \in 1..MaxSends /\ MaxSends \in Nat
        BY <1>3
      <4>3. QED
        BY <4>1, <4>2
    <3>1. view'.local = Append(view.local, m)
      BY <2>3, <2>5
    <3>2. m.chat = send'.chat /\ m.says = send'.says
      BY <2>4, <2>6
    <3>3. \A k \in 1..Len(view.local) : view.local[k].id > Echo'
      BY <1>4
    <3>4. QED
      BY <2>4, <2>6, <3>0, <3>1, <3>2, <3>3, EchoJoins
  <2>8. QED
    BY <1>3, <2>3, <2>5, <2>7, NoNewShown, JoinStays
<1>7. QED
  BY <1>5, <1>6

LEMMA CreatedShown ==
  ASSUME Typed, Typed', LogInv, LogGrows, ShownInv, NEW c \in Chats, Created(c)
  PROVE  ShownInv' /\ Stays
<1> DEFINE s == [send EXCEPT !.step = "posting", !.chat = c]
<1>1. s \in Sends /\ s.chat = c /\ s.says = send.says /\ s.id = send.id
  BY DEF Typed, CallsTyped, Sends
<1>2. /\ send.step = "creating" /\ send' = [s EXCEPT !.down = FALSE] /\ sends' = sends
      /\ Becomes(WithEcho(Opened(view, c), s)) /\ wire' = <<>>
  BY DEF Created, OpenStream
<1>3. sends' \in 1..MaxSends
  BY <1>2 DEF Typed, CallsTyped
<1> HIDE DEF s
<1>4. Opened(view, c) \in Views /\ Opened(view, c).local = view.local
  BY OpenedFacts DEF Typed, ViewTyped
<1>5. /\ WithEcho(Opened(view, c), s) \in Views /\ EchoOf(sends', s) \in Local
      /\ WithEcho(Opened(view, c), s).local = Append(view.local, EchoOf(sends', s))
  BY <1>1, <1>3, <1>4, EchoFacts
<1>6. view'.local = Append(view.local, EchoOf(sends', s))
  BY <1>2, <1>5, BecomesFacts
<1>7. send'.step = "posting" /\ send'.id = 0 /\ send'.chat = s.chat /\ send'.says = s.says
  <2>1. send.id = 0
    BY <1>2 DEF ShownInv, EchoInv, SendOK
  <2>2. s.step = "posting"
    BY DEF s, Typed, CallsTyped, Sends
  <2>3. QED
    BY <1>1, <1>2, <2>1, <2>2 DEF Sends
<1>8. Echo' = -sends /\ sends \in Nat /\ \A k \in 1..Len(view.local) : view.local[k].id > Echo'
  <2>1. Echo' = -sends /\ Echo = -sends
    BY <1>2 DEF Echo, LocalId
  <2>2. QED
    BY <1>2, <2>1, LocalFacts DEF ShownInv, EchoInv, EchoOK
<1>9. PICK m \in Local : m = EchoOf(sends', s)
  BY <1>5
<1>10. m.id = Echo' /\ m.for = 0 /\ m.role = "user" /\ m.chat = s.chat /\ m.says = s.says
  BY <1>9 DEF EchoOf, Echo
<1>11. NoNewNames /\ EchoInv'
  BY <1>2, <1>3, <1>6, <1>7, <1>8, <1>9, <1>10, EchoJoins
<1>12. QED
  BY <1>2, <1>6, <1>9, <1>11, NoNewShown, JoinStays

\* A message that is being stored has a new name only for its optimistic one.
LEMMA PostedShown ==
  ASSUME Typed, Typed', LogInv, LogGrows, ShownInv, Posted
  PROVE  ShownInv' /\ Stays
<1>1. /\ send.step = "stored" /\ send' = [NoSend EXCEPT !.step = "refreshing", !.chat = send.chat]
      /\ Becomes([view EXCEPT !.local = Delivered, !.pending = send.id])
      /\ sends' = sends /\ wire' = wire /\ conn' = conn
  BY DEF Posted, streamVars, bounds
<1>2. send.id \in Ids /\ send.id > 0 /\ send.id \in Nat
  BY <1>1, LocalFacts DEF ShownInv, EchoInv, SendOK, Typed, DaemonTyped, Ids
<1>3. /\ Delivered \in Seq(Local) /\ Len(Delivered) = Len(view.local)
      /\ \A k \in 1..Len(view.local) :
           /\ view.local[k].id # Echo => Delivered[k] = view.local[k]
           /\ view.local[k].id = Echo =>
                Delivered[k] = [view.local[k] EXCEPT !.id = send.id, !.state = "sent", !.for = send.id]
  BY <1>2, EchoBecomesFacts DEF Delivered, Typed
<1>4. view'.local = Delivered /\ view'.chat = view.chat
  <2>1. /\ [view EXCEPT !.local = Delivered, !.pending = send.id] \in Views
        /\ [view EXCEPT !.local = Delivered, !.pending = send.id].local = Delivered
        /\ [view EXCEPT !.local = Delivered, !.pending = send.id].chat = view.chat
    BY <1>2, <1>3 DEF Typed, ViewTyped, Views
  <2>2. QED
    BY <1>1, <2>1, BecomesFacts
<1>5. Echo' = Echo /\ Echo = -sends /\ sends \in Nat /\ send'.step = "refreshing"
  BY <1>1, LocalFacts DEF Echo, LocalId, NoSend
<1>6. ASSUME NEW k \in 1..Len(view'.local)
      PROVE  /\ k \in 1..Len(view.local) /\ Kept(k)
             /\ \/ view.local[k].id # Echo /\ view'.local[k] = view.local[k]
                \/ view.local[k].id = Echo /\ view'.local[k].id = send.id /\ view'.local[k].for = send.id
  <2>1. k \in 1..Len(view.local) /\ view.local[k] \in Local
    BY <1>3, <1>4, LocalFacts
  <2>2. QED
    BY <1>3, <1>4, <2>1 DEF Kept, Local
<1>7. NoNewNames
  <2> SUFFICES ASSUME NEW k \in 1..Len(view'.local), NEW n \in Nat, Stands(k, n)' PROVE Stands(k, n)
    BY <1>6 DEF NoNewNames
  <2>1. n > 0 /\ n \in {view'.local[k].id, view'.local[k].for}
    BY <1>5 DEF Stands, StandsFor
  <2>2. QED
    BY <1>1, <1>6, <2>1 DEF Stands, StandsFor
<1>8. EchoInv'
  <2>1. ASSUME NEW k \in 1..Len(view'.local) PROVE EchoOK(k)'
    <3>1. /\ view'.local[k].id # Echo /\ view'.local[k].id # 0 /\ view'.local[k].id >= -sends
      BY <1>2, <1>5, <1>6 DEF ShownInv, EchoInv, EchoOK
    <3>2. QED
      BY <1>1, <1>5, <3>1 DEF EchoOK
  <2>2. QED
    BY <1>5, <2>1 DEF EchoInv, SendOK
<1>9. Stays
  BY <1>3, <1>4, <1>6 DEF Stays
<1>10. QED
  BY <1>1, <1>4, <1>7, <1>8, <1>9, NoNewShown

LEMMA SendFailsShown ==
  ASSUME Typed, Typed', LogInv, LogGrows, ShownInv, SendFails
  PROVE  ShownInv' /\ Stays
<1> DEFINE local == IF send.step = "creating" THEN view.local ELSE EchoBecomes(Echo, "failed")
           v == [view EXCEPT !.local = local, !.state = "send failed", !.error = TRUE]
<1>1. /\ send.step \in {"creating", "posting", "stored"} /\ send' = NoSend
      /\ Becomes(v) /\ sends' = sends /\ wire' = wire /\ conn' = conn
  BY DEF SendFails, streamVars
<1>2. /\ Echo \in Echoes /\ Echo' = Echo /\ Echo = -sends /\ sends \in Nat /\ sends > 0
      /\ send.id \in Nat /\ send'.step = "idle"
      /\ send.id > 0 => send.step = "stored"
  BY <1>1, LocalFacts DEF Echo, Echoes, LocalId, Typed, CallsTyped, NoSend, ShownInv, EchoInv, SendOK
<1>3. /\ EchoBecomes(Echo, "failed") \in Seq(Local) /\ Len(EchoBecomes(Echo, "failed")) = Len(view.local)
      /\ \A k \in 1..Len(view.local) :
           /\ view.local[k].id # Echo => EchoBecomes(Echo, "failed")[k] = view.local[k]
           /\ view.local[k].id = Echo =>
                EchoBecomes(Echo, "failed")[k] =
                  [view.local[k] EXCEPT !.id = Echo, !.state = "failed", !.for = send.id]
  BY <1>2, EchoBecomesFacts DEF Typed
<1>4. local \in Seq(Local) /\ Len(local) = Len(view.local)
  BY <1>3, LocalFacts
<1> HIDE DEF local
<1>5. view'.local = local /\ view'.chat = view.chat
  <2>1. v \in Views /\ v.local = local /\ v.chat = view.chat
    BY <1>4 DEF Typed, ViewTyped, Views, TurnStates
  <2>2. QED
    BY <1>1, <2>1, BecomesFacts
<1>6. ASSUME NEW k \in 1..Len(view'.local)
      PROVE  /\ k \in 1..Len(view.local) /\ Kept(k) /\ view'.local[k].id = view.local[k].id
             /\ \/ view'.local[k] = view.local[k]
                \/ view.local[k].id = Echo /\ view'.local[k].for = send.id
  <2>1. k \in 1..Len(view.local) /\ view.local[k] \in Local
    BY <1>4, <1>5, LocalFacts
  <2>2. CASE send.step = "creating" \/ view.local[k].id # Echo
    BY <1>3, <1>5, <2>1, <2>2 DEF Kept, local
  <2>3. CASE send.step # "creating" /\ view.local[k].id = Echo
    <3>1. view'.local[k] = [view.local[k] EXCEPT !.id = Echo, !.state = "failed", !.for = send.id]
      BY <1>3, <1>5, <2>1, <2>3 DEF local
    <3>2. /\ view'.local[k].id = Echo /\ view'.local[k].for = send.id
          /\ view'.local[k].chat = view.local[k].chat /\ view'.local[k].role = view.local[k].role
          /\ view'.local[k].says = view.local[k].says
      BY <2>1, <3>1 DEF Local
    <3>3. QED
      BY <2>1, <2>3, <3>2 DEF Kept
  <2>4. QED
    BY <2>2, <2>3
<1>7. NoNewNames
  <2> SUFFICES ASSUME NEW k \in 1..Len(view'.local), NEW n \in Nat, Stands(k, n)' PROVE Stands(k, n)
    BY <1>6 DEF NoNewNames
  <2>1. n > 0 /\ n \in {view'.local[k].id, view'.local[k].for}
    BY <1>2 DEF Stands, StandsFor
  <2>2. QED
    BY <1>2, <1>6, <2>1 DEF Stands, StandsFor
<1>8. EchoInv'
  <2>1. ASSUME NEW k \in 1..Len(view'.local) PROVE EchoOK(k)'
    <3>1. \A j \in 1..Len(view'.local) : j \in 1..Len(view.local) /\ view'.local[j].id = view.local[j].id
      BY <1>6
    <3>2. EchoOK(k)
      BY <1>6 DEF ShownInv, EchoInv
    <3>3. QED
      BY <1>1, <1>2, <3>1, <3>2 DEF EchoOK
  <2>2. QED
    BY <1>2, <2>1 DEF EchoInv, SendOK
<1>9. Stays
  BY <1>4, <1>5, <1>6 DEF Stays
<1>10. QED
  BY <1>1, <1>5, <1>7, <1>8, <1>9, NoNewShown

LEMMA SendEndsShown ==
  ASSUME Typed, Typed', LogInv, LogGrows, ShownInv, SendEnds
  PROVE  ShownInv' /\ Stays
<1>1. /\ send.step = "refreshing" /\ send'.step = "idle" /\ sends' = sends /\ view' = view
      /\ wire' = wire /\ conn' = conn /\ Echo' = Echo
  BY DEF SendEnds, NoSend, bounds, streamVars, Echo
<1>2. NoNewNames
  BY <1>1 DEF NoNewNames, Kept, Stands, StandsFor
<1>3. EchoInv'
  BY <1>1 DEF ShownInv, EchoInv, EchoOK, SendOK
<1>4. QED
  BY <1>1, <1>2, <1>3, NoNewShown, SameStays

\* The reply of a frame joins the local messages.
LEMMA ReplyJoins ==
  ASSUME Typed, Typed', LogInv, LogGrows, ShownInv, Hear, Head(wire).id # 0,
         NEW state \in {"sent", "cancelled"}, view'.chat = view.chat,
         view'.local = Append(view.local, ReplyOf(Head(wire), view.chat, state))
  PROVE  ShownInv'
<1>1. /\ wire # <<>> /\ conn = "live" /\ conn' = "live" /\ wire' = Tail(wire)
      /\ send' = send /\ sends' = sends
  BY DEF Hear, bounds
<1>2. /\ wire \in Seq(Event) /\ Len(wire) \in Nat \ {0} /\ Head(wire) = wire[1] /\ 1 \in 1..Len(wire)
      /\ Len(wire') = Len(wire) - 1 /\ \A i \in 1..Len(wire') : wire'[i] = wire[i + 1]
  BY <1>1, TailFacts DEF Typed, ViewTyped
<1>3. PICK e \in Event : e = wire[1] /\ e = Head(wire) /\ e.id \in Nat /\ e.id > 0
  BY <1>2, FrameFacts DEF ShownInv
<1>4. view.chat \in Chats /\ view \in Views
  BY <1>2, FrameFacts DEF Typed, ViewTyped, ShownInv
<1>5. PICK m \in Local : m = ReplyOf(e, view.chat, state)
  BY <1>3, <1>4, WithReplyFacts
<1>6. /\ view'.local = Append(view.local, m) /\ m.id = e.id /\ m.for = e.id /\ m.chat = view.chat
      /\ m.role = "assistant" /\ m.says = <<e.turn, e.cut>>
  BY <1>3, <1>5, Zenon DEF ReplyOf
<1>7. /\ Len(view'.local) = Len(view.local) + 1 /\ Len(view.local) \in Nat
      /\ \A k \in 1..Len(view'.local) :
           \/ k \in 1..Len(view.local) /\ view'.local[k] = view.local[k]
           \/ k = Len(view.local) + 1 /\ view'.local[k] = m
  BY <1>6, Joins, AppendFacts, LocalFacts
<1>8. Echo' = Echo /\ Echo = -sends /\ sends \in Nat
  BY <1>1, LocalFacts DEF Echo
<1>9. ASSUME NEW k \in 1..Len(view'.local), NEW n \in Nat, Stands(k, n)'
      PROVE  \/ k \in 1..Len(view.local) /\ view'.local[k] = view.local[k] /\ Stands(k, n)
             \/ k = Len(view.local) + 1 /\ view'.local[k] = m /\ n = e.id
  <2>1. CASE k \in 1..Len(view.local) /\ view'.local[k] = view.local[k]
    BY <1>1, <1>8, <1>9, <2>1 DEF Stands, StandsFor
  <2>2. CASE k = Len(view.local) + 1 /\ view'.local[k] = m
    <3>1. m.id # Echo'
      BY <1>3, <1>6, <1>8
    <3>2. QED
      BY <1>6, <1>9, <2>2, <3>1 DEF Stands, StandsFor
  <2>3. QED
    BY <1>7, <2>1, <2>2
<1>10. Known(view.chat, e.id, "assistant", <<e.turn, e.cut>>) /\ Free(e.id)
  BY <1>2, <1>3 DEF ShownInv, WireInv, FrameOK, Free
<1>11. ContentInv'
  <2> SUFFICES ASSUME NEW k \in 1..Len(view'.local), NEW n \in Nat, Stands(k, n)'
               PROVE  Known(view.local[k].chat, n, view.local[k].role, view.local[k].says)'
    BY DEF ContentInv
  <2>1. PICK d, role, said :
          /\ d \in Chats /\ d = view'.local[k].chat /\ role = view'.local[k].role /\ said = view'.local[k].says
          /\ Known(d, n, role, said)
    <3>1. CASE k \in 1..Len(view.local) /\ view'.local[k] = view.local[k] /\ Stands(k, n)
      BY <3>1, LocalFacts DEF ShownInv, ContentInv
    <3>2. CASE k = Len(view.local) + 1 /\ view'.local[k] = m /\ n = e.id
      BY <1>4, <1>6, <1>10, <3>2
    <3>3. QED
      BY <1>9, <3>1, <3>2
  <2>2. Known(d, n, role, said)'
    BY <2>1, KnownStays
  <2>3. QED
    BY <2>1, <2>2 DEF Known
<1>12. OnceInv'
  <2> SUFFICES ASSUME NEW j \in 1..Len(view'.local), NEW k \in 1..Len(view'.local), NEW n \in Nat,
                      Stands(j, n)', Stands(k, n)'
               PROVE  j = k
    BY DEF OnceInv
  <2>1. CASE n = e.id
    <3>1. \A i \in 1..Len(view.local) : ~Stands(i, n)
      BY <1>10, <2>1 DEF Free
    <3>2. QED
      BY <1>9, <3>1
  <2>2. CASE n # e.id
    BY <1>9, <2>2 DEF ShownInv, OnceInv
  <2>3. QED
    BY <2>1, <2>2
<1>13. EchoInv'
  <2>1. SendOK'
    <3>1. given' >= given /\ given \in Nat /\ given' \in Nat
      BY DEF LogGrows, Typed, DaemonTyped
    <3>2. QED
      BY <1>1, <3>1 DEF ShownInv, EchoInv, SendOK
  <2>2. ASSUME NEW k \in 1..Len(view'.local) PROVE EchoOK(k)'
    <3>0. m.id # Echo /\ m.id >= -sends /\ m.id # 0
      BY <1>3, <1>6, <1>8
    <3>1. CASE k \in 1..Len(view.local) /\ view'.local[k] = view.local[k]
      <4>1. EchoOK(k)
        BY <3>1 DEF ShownInv, EchoInv
      <4>2. \A j \in 1..Len(view'.local) : view'.local[j].id = Echo =>
              j \in 1..Len(view.local) /\ view'.local[j] = view.local[j]
        BY <1>7, <3>0
      <4>3. QED
        BY <1>1, <1>8, <3>1, <4>1, <4>2 DEF EchoOK
    <3>2. CASE k = Len(view.local) + 1 /\ view'.local[k] = m
      BY <1>1, <1>8, <3>0, <3>2 DEF EchoOK
    <3>3. QED
      BY <1>7, <3>1, <3>2
  <2>3. QED
    BY <2>1, <2>2 DEF EchoInv
<1>14. WireInv'
  <2>1. ASSUME NEW i \in 1..Len(wire'), wire'[i].id # 0 PROVE Free(wire[i].id)'
    <3>1. i + 1 \in 1..Len(wire) /\ wire'[i] = wire[i + 1]
      BY <1>2
    <3>2. PICK n \in Nat : n = wire[i + 1].id /\ n = wire'[i].id
      BY <3>1, FrameFacts DEF ShownInv
    <3>3. n # 0 /\ FrameOK(i + 1)
      BY <2>1, <3>1, <3>2 DEF ShownInv, WireInv
    <3>4. \A k \in 1..Len(view.local) : ~Stands(k, n)
      BY <3>2, <3>3 DEF FrameOK
    <3>5. n # e.id
      <4>1. wire[1].id = n => i + 1 = 1
        BY <1>2, <3>2, <3>3 DEF FrameOK
      <4>2. i + 1 # 1
        BY <1>2
      <4>3. QED
        BY <1>3, <4>1, <4>2
    <3>6. Free(n)'
      BY <1>9, <3>4, <3>5 DEF Free
    <3>7. QED
      BY <3>2, <3>6 DEF Free, Stands, StandsFor
  <2>2. \A i \in 1..Len(wire') : wire'[i].id # 0 => Free(wire[i].id)'
    BY <2>1
  <2>3. QED
    BY <1>1, <2>2, FramesKept DEF ShownInv
<1>15. QED
  BY <1>11, <1>12, <1>13, <1>14 DEF ShownInv

LEMMA HearShown ==
  ASSUME Typed, Typed', LogInv, LogGrows, ShownInv, Hear
  PROVE  ShownInv' /\ Stays
<1> DEFINE e == Head(wire)
<1>1. /\ wire # <<>> /\ wire' = Tail(wire) /\ conn' = "live" /\ send' = send /\ sends' = sends
      /\ e \in Event /\ e = wire[1] /\ 1 \in 1..Len(wire)
  BY TailFacts DEF Hear, bounds, Typed, ViewTyped
<1>2. e.type \in {"started", "delta", "completed", "cancelled", "error"} /\ e.turn \in Ids
  BY <1>1 DEF Event
<1>3. view \in Views /\ view.chat \in Chats
  BY <1>1, FrameFacts DEF Typed, ViewTyped, ShownInv
<1>4. view'.local = view.local /\ view'.chat = view.chat => ShownInv' /\ Stays
  BY <1>1, AsideShown, SameStays DEF Aside
<1>5. CASE e.type = "started"
  <2>1. Becomes([view EXCEPT !.state = "running", !.metrics = e.turn])
    BY <1>5 DEF Hear
  <2>2. LET v == [view EXCEPT !.state = "running", !.metrics = e.turn] IN
        v \in Views /\ v.chat = view.chat /\ v.local = view.local
    BY <1>2, <1>3 DEF Views, TurnStates, Active
  <2>3. QED
    BY <1>4, <2>1, <2>2, BecomesFacts
<1>6. CASE e.type = "delta"
  <2>1. Becomes([view EXCEPT !.live = Append(@, e.turn), !.state = "streaming", !.metrics = e.turn])
    BY <1>6 DEF Hear
  <2>2. Append(view.live, e.turn) \in Seq(Ids)
    BY <1>2, <1>3, AppendFacts DEF Views
  <2>3. LET v == [view EXCEPT !.live = Append(@, e.turn), !.state = "streaming", !.metrics = e.turn] IN
        v \in Views /\ v.chat = view.chat /\ v.local = view.local
    BY <1>2, <1>3, <2>2 DEF Views, TurnStates, Active
  <2>4. QED
    BY <1>4, <2>1, <2>3, BecomesFacts
<1>7. CASE e.type = "completed"
  <2> DEFINE v == WithReply(view, e, "sent")
  <2>1. Becomes([v EXCEPT !.state = "completed"])
    BY <1>7 DEF Hear
  <2>2. v \in Views /\ v.chat = view.chat /\ v.local = Append(view.local, ReplyOf(e, view.chat, "sent"))
    BY <1>1, <1>3, WithReplyFacts
  <2> HIDE DEF v
  <2>3. /\ [v EXCEPT !.state = "completed"] \in Views /\ [v EXCEPT !.state = "completed"].chat = view.chat
        /\ [v EXCEPT !.state = "completed"].local = v.local
    BY <2>2 DEF Views, TurnStates
  <2>4. view'.chat = view.chat /\ view'.local = Append(view.local, ReplyOf(e, view.chat, "sent"))
    BY <2>1, <2>2, <2>3, BecomesFacts
  <2>5. e.id # 0
    BY <1>1, <1>7 DEF ShownInv, WireInv, FrameOK
  <2>6. QED
    BY <1>1, <1>3, <2>4, <2>5, ReplyJoins, JoinStays, WithReplyFacts
<1>8. CASE e.type = "cancelled" /\ e.id = 0
  <2> DEFINE v == [view EXCEPT !.live = <<>>, !.pending = 0]
  <2>1. Becomes([v EXCEPT !.state = "cancelled"])
    BY <1>8 DEF Hear
  <2>2. v \in Views /\ v.chat = view.chat /\ v.local = view.local
    BY <1>3, EmptySeqFacts DEF Views, Ids
  <2> HIDE DEF v
  <2>3. /\ [v EXCEPT !.state = "cancelled"] \in Views /\ [v EXCEPT !.state = "cancelled"].chat = view.chat
        /\ [v EXCEPT !.state = "cancelled"].local = v.local
    BY <2>2 DEF Views, TurnStates
  <2>4. QED
    BY <1>4, <2>1, <2>2, <2>3, BecomesFacts
<1>9. CASE e.type = "cancelled" /\ e.id # 0
  <2> DEFINE v == WithReply(view, e, "cancelled")
  <2>1. Becomes([v EXCEPT !.state = "cancelled"])
    BY <1>9 DEF Hear
  <2>2. v \in Views /\ v.chat = view.chat /\ v.local = Append(view.local, ReplyOf(e, view.chat, "cancelled"))
    BY <1>1, <1>3, WithReplyFacts
  <2> HIDE DEF v
  <2>3. /\ [v EXCEPT !.state = "cancelled"] \in Views /\ [v EXCEPT !.state = "cancelled"].chat = view.chat
        /\ [v EXCEPT !.state = "cancelled"].local = v.local
    BY <2>2 DEF Views, TurnStates
  <2>4. view'.chat = view.chat /\ view'.local = Append(view.local, ReplyOf(e, view.chat, "cancelled"))
    BY <2>1, <2>2, <2>3, BecomesFacts
  <2>5. QED
    BY <1>1, <1>3, <1>9, <2>4, ReplyJoins, JoinStays, WithReplyFacts
<1>10. CASE e.type = "error"
  <2>1. Becomes([view EXCEPT !.state = "error", !.error = TRUE])
    BY <1>10 DEF Hear
  <2>2. LET v == [view EXCEPT !.state = "error", !.error = TRUE] IN
        v \in Views /\ v.chat = view.chat /\ v.local = view.local
    BY <1>3 DEF Views, TurnStates
  <2>3. QED
    BY <1>4, <2>1, <2>2, BecomesFacts
<1>11. QED
  BY <1>2, <1>5, <1>6, <1>7, <1>8, <1>9, <1>10

\* The steps that leave the local messages alone.
LEMMA OthersShown ==
  ASSUME Typed, Typed', LogInv, LogGrows, ShownInv
  PROVE  /\ Stop \/ StopAnswered \/ StopFails \/ Ready \/ Drop \/ RetryStream \/ Reads \/ UNCHANGED vars
            => ShownInv' /\ Stays
         /\ \A c \in Chats : Select(c) => ShownInv' /\ Stays
         /\ NewChat => ShownInv'
<1>0. wire # <<>> => conn = "live"
  BY DEF ShownInv, WireInv
<1>1. view \in Views
  BY DEF Typed, ViewTyped
<1>2. CASE Stop \/ StopFails
  <2>1. Becomes([view EXCEPT !.state = "stopping", !.error = FALSE])
        \/ Becomes([view EXCEPT !.state = "error", !.error = TRUE])
    BY <1>2 DEF Stop, StopFails
  <2>2. /\ LET v == [view EXCEPT !.state = "stopping", !.error = FALSE] IN
           v \in Views /\ v.chat = view.chat /\ v.local = view.local
        /\ LET v == [view EXCEPT !.state = "error", !.error = TRUE] IN
           v \in Views /\ v.chat = view.chat /\ v.local = view.local
    BY <1>1 DEF Views, TurnStates, Active
  <2>3. view'.chat = view.chat /\ view'.local = view.local
    BY <2>1, <2>2, BecomesFacts
  <2>4. QED
    BY <1>0, <1>2, <2>3, AsideShown, SameStays DEF Stop, StopFails, Aside, streamVars, bounds
<1>3. CASE StopAnswered
  <2>1. view'.chat = view.chat /\ view'.local = view.local
    <3>1. \/ view' = view
          \/ Becomes([view EXCEPT !.state = IF @ = "stopping" THEN "idle" ELSE @])
          \/ Becomes([view EXCEPT !.state = "error", !.error = TRUE])
      BY <1>3 DEF StopAnswered
    <3>2. /\ LET v == [view EXCEPT !.state = IF @ = "stopping" THEN "idle" ELSE @] IN
             v \in Views /\ v.chat = view.chat /\ v.local = view.local
          /\ LET v == [view EXCEPT !.state = "error", !.error = TRUE] IN
             v \in Views /\ v.chat = view.chat /\ v.local = view.local
      BY <1>1 DEF Views, TurnStates
    <3>3. QED
      BY <3>1, <3>2, BecomesFacts
  <2>2. QED
    BY <1>0, <1>3, <2>1, AsideShown, SameStays DEF StopAnswered, Aside, streamVars, bounds
<1>4. CASE Ready
  <2>1. view'.chat = view.chat /\ view'.local = view.local
    <3>1. Becomes([view EXCEPT !.state = "syncing"]) \/ Becomes(view)
      BY <1>4 DEF Ready, ReadyFrom
    <3>2. LET v == [view EXCEPT !.state = "syncing"] IN
          v \in Views /\ v.chat = view.chat /\ v.local = view.local
      BY <1>1 DEF Views, TurnStates
    <3>3. QED
      BY <1>1, <3>1, <3>2, BecomesFacts
  <2>2. QED
    BY <1>4, <2>1, AsideShown, SameStays DEF Ready, ReadyFrom, Aside, bounds
<1>5. CASE Drop
  <2>1. LET v == [view EXCEPT !.state = IF @ \in Active THEN "reconnecting" ELSE @] IN
        v \in Views /\ v.chat = view.chat /\ v.local = view.local
    BY <1>1 DEF Views, TurnStates, Active
  <2>2. view'.chat = view.chat /\ view'.local = view.local
    BY <1>5, <2>1, BecomesFacts DEF Drop
  <2>3. QED
    BY <1>5, <2>2, AsideShown, SameStays DEF Drop, Aside
<1>6. CASE Poll \/ \E c \in Chats : ReadServed(c)
  BY <1>0, <1>6, AsideShown, SameStays DEF Poll, ReadServed, Aside, streamVars, bounds
<1>7. ASSUME NEW c \in Chats, ReadArrives(c) PROVE ShownInv' /\ Stays
  <2>1. view'.chat = view.chat /\ view'.local = view.local
    BY <1>1, <1>7, SettledFacts DEF ReadArrives
  <2>2. QED
    BY <1>0, <1>7, <2>1, AsideShown, SameStays DEF ReadArrives, Aside, streamVars, bounds
<1>8. ASSUME NEW c \in Chats, Select(c) PROVE ShownInv' /\ Stays
  <2>1. Opened(view, c) \in Views /\ Opened(view, c).local = view.local
    BY <1>1, OpenedFacts
  <2>2. view'.local = view.local
    BY <1>8, <2>1, BecomesFacts DEF Select
  <2>3. QED
    BY <1>8, <2>2, AsideShown, SameStays DEF Select, OpenStream, Aside
<1>9. ASSUME NewChat PROVE ShownInv'
  <2>1. view'.local = <<>> /\ wire' = <<>> /\ send' = send
    BY <1>1, <1>9 DEF NewChat, Views
  <2>2. Len(view'.local) = 0
    BY <2>1, EmptySeqFacts
  <2>3. NoNewNames
    BY <2>2 DEF NoNewNames
  <2>4. SendOK'
    <3>1. given' >= given /\ given \in Nat /\ given' \in Nat
      BY DEF LogGrows, Typed, DaemonTyped
    <3>2. QED
      BY <2>1, <3>1 DEF ShownInv, EchoInv, SendOK
  <2>5. EchoInv'
    BY <2>2, <2>4 DEF EchoInv
  <2>6. QED
    BY <2>1, <2>3, <2>5, NoNewShown
<1>10. CASE RetryStream
  <2>1. LET v == [view EXCEPT !.live = <<>>, !.error = FALSE] IN
        v \in Views /\ v.chat = view.chat /\ v.local = view.local
    BY <1>1, EmptySeqFacts DEF Views
  <2>2. view'.chat = view.chat /\ view'.local = view.local
    BY <1>10, <2>1, BecomesFacts DEF RetryStream
  <2>3. wire' = wire /\ wire = <<>>
    BY <1>0, <1>10 DEF RetryStream
  <2>4. QED
    BY <1>10, <2>2, <2>3, AsideShown, SameStays DEF RetryStream, Aside, bounds
<1>11. CASE UNCHANGED vars
  BY <1>0, <1>11, AsideShown, SameStays DEF vars, streamVars, bounds, Aside
<1>12. QED
  BY <1>2, <1>3, <1>4, <1>5, <1>6, <1>7, <1>8, <1>9, <1>10, <1>11 DEF Reads

LEMMA ShownStep ==
  ASSUME Typed, Typed', LogInv, ShownInv, [Next]_vars
  PROVE  ShownInv' /\ (NewChat \/ Stays)
<1>0. LogGrows
  BY LogStep
<1>1. CASE Daemon
  BY <1>0, <1>1, TurnsShown, StoresShown, TurnsStay
<1>2. CASE Answers
  BY <1>0, <1>2, PostedShown, SendEndsShown, OthersShown, CreatedShown DEF Answers
<1>3. CASE Ready \/ Drop \/ RetryStream \/ Reads \/ Stop \/ StopFails \/ NewChat \/ UNCHANGED vars
           \/ \E c \in Chats : Select(c)
  BY <1>0, <1>3, OthersShown
<1>4. CASE Hear
  BY <1>0, <1>4, HearShown
<1>5. CASE SendFails
  BY <1>0, <1>5, SendFailsShown
<1>6. CASE \E x \in 1..sends + 1, steer \in BOOLEAN : Send(x, steer)
  BY <1>0, <1>6, SendShown
<1>7. QED
  BY <1>1, <1>2, <1>3, <1>4, <1>5, <1>6 DEF Next

LEMMA InitInv == Init => Inv
<1> SUFFICES ASSUME Init PROVE Inv
  OBVIOUS
<1>1. LogInv
  BY EmptySeqFacts DEF Init, LogInv
<1>2. ListInv
  <2>1. Opens(<<>>, <<>>)
    BY EmptySeqFacts, OpensFacts
  <2>2. \A c \in Chats : read[c].got = <<>>
    BY DEF Init, Unread
  <2>3. QED
    BY <2>1, <2>2 DEF Init, ListInv
<1>3. ContentInv /\ OnceInv
  BY EmptySeqFacts DEF Init, ContentInv, OnceInv
<1>4. EchoInv
  BY EmptySeqFacts DEF Init, EchoInv, SendOK, NoSend
<1>5. WireInv
  BY EmptySeqFacts DEF Init, WireInv
<1>6. QED
  BY <1>1, <1>2, <1>3, <1>4, <1>5 DEF Inv

LEMMA InvHolds == Spec => [](Typed /\ Inv)
<1>1. Init => Typed /\ Inv
  BY InitTyped, InitInv
<1>2. Typed /\ Inv /\ [Next]_vars => Typed' /\ Inv'
  BY StepTyped, LogStep, ListStep, ShownStep DEF Inv, ShownInv
<1>3. QED
  BY <1>1, <1>2, PTL DEF Spec

-----------------------------------------------------------------------------
(***************************************************************************)
(* What follows                                                            *)
(***************************************************************************)
LEMMA AtMostOne ==
  ASSUME NEW S, NEW n \in Nat, S \subseteq 1..n, \A j, k \in S : j = k
  PROVE  Cardinality(S) \in 0..1 /\ (S = {} => Cardinality(S) = 0)
<1>1. CASE S = {}
  BY <1>1, FS_EmptySet
<1>2. CASE S # {}
  <2>1. PICK k \in S : TRUE
    BY <1>2
  <2>2. S = {k}
    BY <2>1
  <2>3. QED
    BY <1>2, <2>2, FS_Singleton
<1>3. QED
  BY <1>1, <1>2

\* The list on screen is the start of what the daemon stores.
LEMMA FetchedFacts ==
  ASSUME Typed, ListInv
  PROVE  /\ Fetched(view.chat) \in Seq(Message)
         /\ view.chat # No => /\ view.chat \in Chats
                              /\ Opens(Fetched(view.chat), log[view.chat])
         /\ view.chat = No => Fetched(view.chat) = <<>>
  BY EmptySeqFacts DEF Typed, ViewTyped, Views, ListTyped, Fetched, ListInv

\* A local message that stands for a message of the list is not shown beside it.
LEMMA NotBeside ==
  ASSUME Typed, Inv, NEW n \in Nat \ {0}, NEW list \in Seq(Message), NEW c \in Chats,
         Opens(list, log[c]), NEW j \in 1..Len(list), list[j].id = n,
         NEW k \in 1..Len(view.local), Stands(k, n), view.local[k].chat = c
  PROVE  /\ list[j].role = view.local[k].role /\ list[j].says = view.local[k].says
         /\ Has(list, view.local[k])
<1>1. Len(list) \in Nat /\ Len(log[c]) \in Nat /\ DOMAIN list = 1..Len(list)
  BY DEF Typed, DaemonTyped
<1>2. j \in 1..Len(log[c]) /\ log[c][j] = list[j]
  BY <1>1 DEF Opens
<1>3. PICK i \in 1..Len(log[c]) :
        log[c][i].id = n /\ log[c][i].role = view.local[k].role /\ log[c][i].says = view.local[k].says
  <2>1. Known(view.local[k].chat, n, view.local[k].role, view.local[k].says)
    BY DEF Inv, ContentInv
  <2>2. QED
    BY <2>1 DEF Known
<1>4. i = j
  BY <1>2, <1>3 DEF Inv, LogInv
<1>5. list[j].role = view.local[k].role /\ list[j].says = view.local[k].says
  BY <1>2, <1>3, <1>4
<1>6. list[j] \in ToSet(list)
  BY <1>1 DEF ToSet
<1>7. QED
  BY <1>5, <1>6 DEF Has

LEMMA InvShownOnce ==
  ASSUME Typed, Inv
  PROVE  ShownOnce
<1> SUFFICES ASSUME NEW n \in 1..given
             PROVE  LET list == Fetched(view.chat) IN
                    Cardinality({k \in DOMAIN list : list[k].id = n})
                      + Cardinality({k \in Leftover(view, list) : StandsFor(view.local[k], n)}) <= 1
  BY DEF ShownOnce
<1> DEFINE list == Fetched(view.chat)
           A == {k \in DOMAIN list : list[k].id = n}
           B == {k \in Leftover(view, list) : StandsFor(view.local[k], n)}
<1>1. list \in Seq(Message) /\ Len(list) \in Nat /\ DOMAIN list = 1..Len(list) /\ n \in Nat \ {0}
  BY FetchedFacts DEF Inv, Typed, DaemonTyped
<1>2. Len(view.local) \in Nat /\ DOMAIN view.local = 1..Len(view.local)
  BY LocalFacts
<1>3. A \subseteq 1..Len(list) /\ B \subseteq 1..Len(view.local)
  BY <1>1, <1>2 DEF Leftover
<1>4. ASSUME NEW j \in A, NEW k \in A PROVE j = k
  <2>1. j \in 1..Len(list) /\ k \in 1..Len(list) /\ list[j].id = list[k].id
    BY <1>1
  <2>2. view.chat \in Chats /\ Opens(list, log[view.chat])
    BY <1>1, <2>1, FetchedFacts, EmptySeqFacts DEF Inv
  <2>3. /\ j \in 1..Len(log[view.chat]) /\ log[view.chat][j] = list[j]
        /\ k \in 1..Len(log[view.chat]) /\ log[view.chat][k] = list[k]
    BY <1>1, <2>1, <2>2 DEF Opens, Typed, DaemonTyped
  <2>4. QED
    BY <2>1, <2>2, <2>3 DEF Inv, LogInv
<1>5. ASSUME NEW j \in B, NEW k \in B PROVE j = k
  <2>1. j \in 1..Len(view.local) /\ k \in 1..Len(view.local) /\ Stands(j, n) /\ Stands(k, n)
    BY <1>1, <1>3 DEF Stands
  <2>2. QED
    BY <1>1, <2>1 DEF Inv, OnceInv
<1>6. ASSUME NEW j \in A, NEW k \in B PROVE FALSE
  <2>1. /\ j \in 1..Len(list) /\ list[j].id = n
        /\ k \in 1..Len(view.local) /\ Stands(k, n)
        /\ view.local[k].chat = view.chat /\ ~Has(list, view.local[k])
    BY <1>1, <1>3 DEF Stands, Leftover
  <2>2. view.chat \in Chats /\ Opens(list, log[view.chat])
    BY <1>1, <2>1, FetchedFacts, EmptySeqFacts DEF Inv
  <2>3. QED
    BY <1>1, <2>1, <2>2, NotBeside
<1> HIDE DEF list, A, B
<1>7. /\ Cardinality(A) \in 0..1 /\ (A = {} => Cardinality(A) = 0)
      /\ Cardinality(B) \in 0..1 /\ (B = {} => Cardinality(B) = 0)
  BY <1>1, <1>2, <1>3, <1>4, <1>5, AtMostOne
<1>8. A = {} \/ B = {}
  BY <1>6
<1>9. Cardinality(A) + Cardinality(B) <= 1
  BY <1>7, <1>8
<1>10. QED
  BY <1>9 DEF list, A, B

\* A message is on screen once.
THEOREM ShownOnlyOnce == Spec => []ShownOnce
  BY InvHolds, InvShownOnce, PTL

\* The list only grows, and no local message goes unless all go.
LEMMA ListGrows ==
  ASSUME Typed, ListInv, [Next]_vars, NEW c \in Chats
  PROVE  Opens(cache[c], cache'[c])
<1>0. cache[c] \in Seq(Message) /\ Opens(cache[c], cache[c])
  BY OpensFacts DEF Typed, ListTyped
<1>1. CASE cache' = cache
  BY <1>0, <1>1
<1>2. ASSUME NEW d \in Chats, ReadArrives(d) PROVE Opens(cache[c], cache'[c])
  <2>1. read[d].step = "read" /\ cache' = [cache EXCEPT ![d] = read[d].got]
    BY <1>2 DEF ReadArrives
  <2>2. CASE c = d
    <3>1. cache'[c] = read[c].got
      BY <2>1, <2>2 DEF Typed, ListTyped
    <3>2. QED
      BY <2>1, <2>2, <3>1 DEF ListInv
  <2>3. CASE c # d
    BY <1>0, <2>1, <2>3 DEF Typed, ListTyped
  <2>4. QED
    BY <2>2, <2>3
<1>3. QED
  BY <1>1, <1>2, WhatReads DEF ReadsAgain, ReadServed

\* What is shown is shown after the step as well, in the list or beside it.
Lasting ==
  view'.chat = view.chat /\ view.chat # No =>
    \A m \in Rendered(view, Fetched(view.chat)) :
      \E l \in Rendered(view', cache'[view'.chat]) : l.role = m.role /\ l.says = m.says

LEMMA StepLasting ==
  ASSUME Typed, Typed', Inv, Inv', [Next]_vars
  PROVE  Lasting
<1> SUFFICES ASSUME view'.chat = view.chat, view.chat # No,
                    NEW m \in Rendered(view, Fetched(view.chat))
             PROVE  \E l \in Rendered(view', cache'[view'.chat]) : l.role = m.role /\ l.says = m.says
  BY DEF Lasting
<1>1. PICK c \in Chats : c = view.chat
  BY DEF Typed, ViewTyped, Views
<1>2. /\ Fetched(view.chat) = cache[c] /\ cache[c] \in Seq(Message) /\ cache'[c] \in Seq(Message)
      /\ Opens(cache[c], cache'[c]) /\ c # No
  BY <1>1, ListGrows DEF Fetched, Typed, ListTyped, Inv
<1>3. CASE m \in ToSet(cache[c])
  <2>1. m \in ToSet(cache'[c])
    BY <1>2, <1>3 DEF Opens, ToSet
  <2>2. QED
    BY <1>1, <2>1 DEF Rendered
<1>4. CASE m \notin ToSet(cache[c])
  <2>1. PICK k \in 1..Len(view.local) : m = view.local[k] /\ view.local[k].chat = c
    <3>1. DOMAIN view.local = 1..Len(view.local)
      BY LocalFacts
    <3>2. m \in {view.local[k] : k \in Leftover(view, cache[c])}
      BY <1>2, <1>4 DEF Rendered
    <3>3. QED
      BY <1>1, <3>1, <3>2 DEF Leftover
  <2>2. ~NewChat
    BY <1>1, <1>2 DEF NewChat, Typed, ViewTyped, Views
  <2>3. k \in 1..Len(view'.local) /\ Kept(k)
    BY <2>2, ShownStep DEF Stays, Inv, ShownInv
  <2>4. PICK l : l = view'.local[k] /\ l.chat = c /\ l.role = m.role /\ l.says = m.says
    BY <2>1, <2>3 DEF Kept
  <2>5. CASE ~Has(cache'[c], l)
    <3>1. Len(view'.local) \in Nat /\ view'.local \in Seq(Local)
      BY DEF Typed, ViewTyped, Views
    <3>2. k \in Leftover(view', cache'[c])
      BY <1>1, <2>3, <2>4, <2>5, <3>1 DEF Leftover
    <3>3. QED
      BY <1>1, <2>4, <3>2 DEF Rendered
  <2>6. CASE Has(cache'[c], l)
    <3>1. PICK f \in ToSet(cache'[c]) : f.id = l.id \/ (f.role = l.role /\ f.says = l.says)
      BY <2>6 DEF Has
    <3>2. CASE f.role = l.role /\ f.says = l.says
      BY <1>1, <2>4, <3>1, <3>2 DEF Rendered
    <3>3. CASE f.id = l.id
      <4>1. PICK j \in 1..Len(log'[c]) : f = log'[c][j]
        <5>1. PICK j \in 1..Len(cache'[c]) : f = cache'[c][j]
          BY <1>2, <3>1 DEF ToSet
        <5>2. Opens(cache'[c], log'[c]) /\ Len(log'[c]) \in Nat
          BY DEF Inv, ListInv, Typed, DaemonTyped
        <5>3. j \in 1..Len(log'[c]) /\ f = log'[c][j]
          BY <1>2, <5>1, <5>2 DEF Opens
        <5>4. QED
          BY <5>3
      <4>2. PICK n \in Nat \ {0} : n = f.id
        <5>1. f.id \in 1..given' /\ given' \in Nat
          BY <4>1 DEF Inv, LogInv, Typed, DaemonTyped
        <5>2. QED
          BY <5>1
      <4>3. Stands(k, n)'
        BY <2>4, <3>3, <4>2 DEF Stands, StandsFor
      <4>4. f.role = l.role /\ f.says = l.says
        <5>1. Known(view.local[k].chat, n, view.local[k].role, view.local[k].says)'
          BY <2>3, <4>3 DEF Inv, ContentInv
        <5>2. PICK i \in 1..Len(log'[c]) :
                log'[c][i].id = n /\ log'[c][i].role = l.role /\ log'[c][i].says = l.says
          BY <2>4, <5>1 DEF Known
        <5>3. i = j
          BY <4>1, <4>2, <5>2 DEF Inv, LogInv
        <5>4. QED
          BY <4>1, <5>2, <5>3
      <4>5. QED
        BY <1>1, <2>4, <3>1, <4>4 DEF Rendered
    <3>4. QED
      BY <3>1, <3>2, <3>3
  <2>7. QED
    BY <2>5, <2>6
<1>5. QED
  BY <1>3, <1>4

\* What is on screen stays there while the user stays in the chat.
THEOREM NothingTakenBack == Spec => NothingVanishes
<1>1. Typed /\ Inv /\ (Typed /\ Inv)' /\ [Next]_vars => [Lasting]_vars
  BY StepLasting
<1>2. Spec => [][Lasting]_vars
  BY <1>1, InvHolds, PTL DEF Spec
<1>3. QED
  BY <1>2 DEF NothingVanishes, Lasting
=============================================================================
