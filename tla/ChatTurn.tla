------------------------------ MODULE ChatTurn ------------------------------
(***************************************************************************)
(* The chat view: a message from the composer to its reply                 *)
(* (src/ui/views/chat/useChatSend.ts, useChatStream.ts, companion-chat.ts, *)
(* and the parts of ChatView.tsx that hold their state).                   *)
(*                                                                         *)
(* The view knows the daemon through three channels that are not ordered   *)
(* with each other: the answers of its calls, the event stream of the chat *)
(* on screen, whose frames are lost while it is down, and the reads of the *)
(* message list.  The daemon (external, version 1.11) runs one turn per    *)
(* chat, queues what is sent meanwhile, and cancels on request.            *)
(***************************************************************************)
EXTENDS Integers, Sequences, FiniteSets, SequencesExt

CONSTANTS Chats,
          Existing,     \* chats made before the view opened
          No,           \* no chat: the next message makes one
          Start,        \* the chat stored as the active one, or No
          MaxSends,     \* bound: messages
          MaxFrames,    \* bound: frames on their way
          MaxTroubles   \* bound: Stops, changes of chat, stream breaks, failing turns and calls

ASSUME ChatAssumption ==
  /\ Existing \subseteq Chats /\ No \notin Chats /\ Start \in Existing \cup {No}
  /\ MaxSends \in Nat /\ MaxFrames \in Nat /\ MaxTroubles \in Nat

Active == {"sending", "submitted", "running", "streaming", "reconnecting",
           "sending while reconnecting", "stopping"}
TurnStates == Active \cup {"idle", "syncing", "completed", "cancelled", "error", "send failed"}

\* A text is the number of the send that typed it first.  A reply is told by
\* the message it answers and by whether it was cut short: <<to, cut>>.
Ids == Nat            \* 0: none
LocalId(n) == -n      \* the n-th optimistic message
Echoes == {LocalId(n) : n \in 1..MaxSends}
Says == Ids \X BOOLEAN
Message == [id : Ids, role : {"user", "assistant"}, says : Says, to : Ids]
Local == [id : Ids \cup Echoes, chat : Chats, role : {"user", "assistant"}, says : Says,
          state : {"local", "sent", "failed", "cancelled"}, for : Ids]
Event == [type : {"started", "delta", "completed", "cancelled", "error"}, turn : Ids, id : Ids, cut : BOOLEAN]

VARIABLES
  log, queue,   \* chat -> its messages; those waiting for a turn
  turn,         \* chat -> the message its turn answers, and whether it has said anything
  made,         \* chats that exist
  given,        \* messages that got an id
  conn,         \* "off", "connecting", "live" or "reconnecting"
  wire,         \* frames of the chat on screen, not heard yet
  view,         \* the state of ChatView
  send,         \* the composer's mutation
  stop,         \* the cancel call
  cache,        \* chat -> the list as last read
  read,         \* chat -> its read: [step, got, data], data: the list was read before
  watched,      \* mark: messages stored while the stream was open or broken, not read yet
  excused,      \* mark: the state on screen may be another chat's, or its end went unheard
  sends, troubles

daemonVars == <<log, queue, turn, made, given>>
streamVars == <<conn, wire>>
listVars == <<cache, read>>
marks == <<watched, excused>>
bounds == <<sends, troubles>>
vars == <<daemonVars, streamVars, view, send, stop, listVars, marks, bounds>>

Quiet == [of |-> 0, said |-> FALSE]
Unread == [step |-> "idle", got |-> <<>>, data |-> FALSE]
NoSend == [step |-> "idle", chat |-> No, says |-> <<0, FALSE>>, steer |-> FALSE,
           down |-> FALSE, id |-> 0]
NoStop == [step |-> "idle", chat |-> No, of |-> 0]
Trouble == troubles < MaxTroubles /\ troubles' = troubles + 1

Init ==
  /\ log = [c \in Chats |-> <<>>] /\ queue = [c \in Chats |-> <<>>]
  /\ turn = [c \in Chats |-> Quiet] /\ made = Existing /\ given = 0
  /\ view = [chat |-> Start, state |-> "idle", error |-> FALSE, live |-> <<>>,
             local |-> <<>>, pending |-> 0, metrics |-> 0]
  /\ conn = IF Start = No THEN "off" ELSE "connecting"
  /\ read = [c \in Chats |-> IF c = Start THEN [Unread EXCEPT !.step = "asked"] ELSE Unread]
  /\ wire = <<>> /\ send = NoSend /\ stop = NoStop
  /\ cache = [c \in Chats |-> <<>>]
  /\ watched = {} /\ excused = FALSE
  /\ sends = 0 /\ troubles = 0

(***************************************************************************)
(* What is on screen: the list as read, then the local messages it does    *)
(* not have, by id and by text.                                            *)
(***************************************************************************)
Fetched(c) == IF c = No THEN <<>> ELSE cache[c]
HasById(list, m) == \E f \in ToSet(list) : f.id = m.id
Has(list, m) == \E f \in ToSet(list) : f.id = m.id \/ (f.role = m.role /\ f.says = m.says)
Leftover(v, list) == {k \in DOMAIN v.local : v.local[k].chat = v.chat /\ ~Has(list, v.local[k])}
Rendered(v, list) == ToSet(list) \cup {v.local[k] : k \in Leftover(v, list)}

\* The second effect of ChatView: a reply to the pending message is on screen.
\* A read reply names what it answers; a local one counts when it is younger
\* than the pending message, or when that one is not on screen.
Replied(v, list) ==
  /\ v.pending # 0 /\ ~v.error
  /\ \/ \E f \in ToSet(list) : f.role = "assistant" /\ f.to = v.pending
     \/ \E k \in Leftover(v, list) :
          /\ v.local[k].role = "assistant"
          /\ \A j \in Leftover(v, list) : v.local[j].id = v.pending => j < k

\* The first: the turn is over when the last message is the assistant's.
LastIsReply(v, list) ==
  /\ v.state \in Active \cup {"syncing"} /\ v.live = <<>>
  /\ IF Leftover(v, list) = {} THEN list # <<>> /\ Last(list).role = "assistant"
     ELSE \E k \in Leftover(v, list) :
            v.local[k].role = "assistant" /\ \A j \in Leftover(v, list) : j <= k

SettledByLast(v, list) ==
  IF LastIsReply(v, list) THEN [v EXCEPT !.state = "completed", !.pending = 0] ELSE v

\* Both run whenever what they look at has changed.
Settled(v, list) ==
  IF LastIsReply(v, list) \/ Replied(v, list)
  THEN [v EXCEPT !.state = "completed", !.pending = 0] ELSE v
Becomes(v) == view' = Settled(v, Fetched(v.chat))

\* invalidateChatState: only the list on screen is read again at once, and a
\* read that is under way starts over, but the first of a chat, which is shared.
ReadAgain(c) == [read EXCEPT ![c].step = "asked", ![c].got = <<>>]
FirstRead(c) == read[c].step # "idle" /\ ~read[c].data
Invalidated(c) == IF c = view.chat /\ ~FirstRead(c) THEN ReadAgain(c) ELSE read

(***************************************************************************)
(* The daemon                                                              *)
(***************************************************************************)
NextId == given + 1
Room == Len(wire) < MaxFrames    \* bound: the daemon waits for frames to be heard
Hears(c) == view.chat = c /\ conn = "live"
\* Frames lost that only a read of the list could make up for, and cannot:
\* the end of a turn without a reply, or with text on screen that it ends.
Unheard(events) ==
  /\ view.state \in Active
  /\ \E e \in ToSet(events) :
       /\ e.type \in {"completed", "cancelled", "error"}
       /\ e.id = 0 \/ view.live # <<>>
Emit(c, events) ==
  /\ wire' = IF Hears(c) THEN wire \o events ELSE wire
  /\ excused' = (excused \/ (view.chat = c /\ ~Hears(c) /\ Unheard(events)))
Watch(c, ids) ==
  watched' = IF view.chat = c /\ conn \in {"live", "reconnecting"} /\ read[c].data
             THEN watched \cup ids ELSE watched

\* What a turn leaves when it ends: a reply (cut: what it said so far) or nothing.
Reply(c, id, cut) == [id |-> id, role |-> "assistant", says |-> <<turn[c].of, cut>>, to |-> turn[c].of]
Ended(c, type, id) == [type |-> type, turn |-> turn[c].of, id |-> id, cut |-> type = "cancelled"]

Begins(c) ==
  /\ turn[c] = Quiet /\ queue[c] # <<>> /\ Room
  /\ turn' = [turn EXCEPT ![c] = [of |-> Head(queue[c]), said |-> FALSE]]
  /\ queue' = [queue EXCEPT ![c] = Tail(@)]
  /\ Emit(c, <<[type |-> "started", turn |-> Head(queue[c]), id |-> 0, cut |-> FALSE]>>)
  /\ UNCHANGED <<log, made, given, conn, view, send, stop, listVars, watched, bounds>>

Talks(c) ==
  /\ turn[c].of # 0 /\ ~turn[c].said /\ Room
  /\ turn' = [turn EXCEPT ![c].said = TRUE]
  /\ Emit(c, <<[type |-> "delta", turn |-> turn[c].of, id |-> 0, cut |-> FALSE]>>)
  /\ UNCHANGED <<log, queue, made, given, conn, view, send, stop, listVars, watched, bounds>>

Completes(c) ==
  /\ turn[c].of # 0 /\ Room
  /\ log' = [log EXCEPT ![c] = Append(@, Reply(c, NextId, FALSE))] /\ given' = NextId
  /\ turn' = [turn EXCEPT ![c] = Quiet]
  /\ Emit(c, <<Ended(c, "completed", NextId)>>) /\ Watch(c, {NextId})
  /\ UNCHANGED <<queue, made, conn, view, send, stop, listVars, bounds>>

Breaks(c) ==
  /\ turn[c].of # 0 /\ Room /\ Trouble
  /\ turn' = [turn EXCEPT ![c] = Quiet]
  /\ Emit(c, <<Ended(c, "error", 0)>>)
  /\ UNCHANGED <<log, queue, made, given, conn, view, send, stop, listVars, watched, sends>>

\* The end of a cancelled turn: the partial reply is stored if there is one.
Partial(c) == IF turn[c].said THEN <<Reply(c, NextId, TRUE)>> ELSE <<>>
Cancelled(c) == Ended(c, "cancelled", IF turn[c].said THEN NextId ELSE 0)

Cancels ==
  LET c == stop.chat IN
  /\ stop.step = "asked" /\ Room
  /\ IF turn[c].of # 0 /\ stop.of \in {0, turn[c].of}
     THEN /\ log' = [log EXCEPT ![c] = @ \o Partial(c)] /\ given' = given + Len(Partial(c))
          /\ turn' = [turn EXCEPT ![c] = Quiet]
          /\ Emit(c, <<Cancelled(c)>>) /\ Watch(c, {m.id : m \in ToSet(Partial(c))})
          /\ stop' = [stop EXCEPT !.step = "cancelled"]
     ELSE /\ stop' = [stop EXCEPT !.step = IF turn[c].of = 0 THEN "no turn" ELSE "mismatch"]
          /\ UNCHANGED <<log, given, turn, wire, marks>>
  /\ UNCHANGED <<queue, made, conn, view, send, listVars, bounds>>

\* A message arrives; a steered one ends the running turn and goes first.
Stores ==
  LET c == send.chat
      cut == send.steer /\ turn[c].of # 0
      before == IF cut THEN Partial(c) ELSE <<>>
      id == NextId + Len(before)
      m == [id |-> id, role |-> "user", says |-> send.says, to |-> 0] IN
  /\ send.step = "posting" /\ Room
  /\ log' = [log EXCEPT ![c] = @ \o Append(before, m)] /\ given' = id
  /\ queue' = [queue EXCEPT ![c] = IF send.steer THEN <<id>> \o @ ELSE Append(@, id)]
  /\ turn' = IF cut THEN [turn EXCEPT ![c] = Quiet] ELSE turn
  /\ Emit(c, IF cut THEN <<Cancelled(c)>> ELSE <<>>)
  /\ Watch(c, {id} \cup {p.id : p \in ToSet(before)})
  /\ send' = [NoSend EXCEPT !.step = "stored", !.chat = c, !.id = id]
  /\ UNCHANGED <<made, conn, view, stop, listVars, bounds>>

(***************************************************************************)
(* Sending                                                                 *)
(***************************************************************************)
Submitted(down) == IF down THEN "sending while reconnecting" ELSE "submitted"

\* The optimistic message, in the chat it is for.
WithEcho(v, s) ==
  [v EXCEPT !.local = Append(@, [id |-> LocalId(sends'), chat |-> s.chat, role |-> "user",
                                 says |-> s.says, state |-> "local", for |-> 0]),
            !.pending = LocalId(sends'), !.live = <<>>, !.state = Submitted(s.down)]

Send(x, steer) ==
  LET down == conn = "reconnecting" \/ view.state = "reconnecting"
      s == [NoSend EXCEPT !.step = IF view.chat = No THEN "creating" ELSE "posting",
                          !.chat = view.chat, !.says = <<x, FALSE>>, !.steer = steer, !.down = down]
      v == [view EXCEPT !.error = down] IN
  /\ send.step = "idle" /\ sends < MaxSends /\ sends' = sends + 1
  /\ view.chat = No => made # Chats    \* bound: room for the chat it makes
  /\ excused' = FALSE
  /\ send' = IF view.chat = No THEN s ELSE [s EXCEPT !.down = FALSE]
  /\ Becomes(IF view.chat = No
             THEN [v EXCEPT !.state = IF down THEN "sending while reconnecting" ELSE "sending"]
             ELSE WithEcho(v, s))
  /\ UNCHANGED <<daemonVars, streamVars, stop, listVars, watched, troubles>>

\* setActiveSessionId and the effect that opens the chat's stream; a list read
\* less than five seconds ago is not read again.
Opened(v, c) == [v EXCEPT !.chat = c, !.live = <<>>, !.error = FALSE]
OpenStream(c) ==
  /\ conn' = "connecting" /\ wire' = <<>> /\ watched' = {}
  /\ \E again \in {~read[c].data, TRUE} :
       read' = IF again /\ read[c].step = "idle" THEN ReadAgain(c) ELSE read

Created(c) ==
  LET s == [send EXCEPT !.step = "posting", !.chat = c] IN
  /\ send.step = "creating" /\ c \notin made /\ made' = made \cup {c}
  /\ send' = [s EXCEPT !.down = FALSE] /\ sends' = sends
  /\ Becomes(WithEcho(Opened(view, c), s))
  /\ OpenStream(c) /\ excused' = FALSE
  /\ UNCHANGED <<log, queue, turn, given, stop, cache, troubles>>

\* The optimistic message of this send, and the local messages with it changed.
Echo == LocalId(sends)
EchoBecomes(id, state) ==
  [k \in DOMAIN view.local |->
     IF view.local[k].id = Echo
     THEN [view.local[k] EXCEPT !.id = id, !.state = state, !.for = send.id]
     ELSE view.local[k]]
DeliveredDrops == SelectSeq(view.local, LAMBDA m : m.id # Echo)
Delivered == EchoBecomes(send.id, "sent")

Posted ==
  /\ send.step = "stored" /\ send' = [NoSend EXCEPT !.step = "refreshing", !.chat = send.chat]
  /\ Becomes([view EXCEPT !.local = Delivered, !.pending = send.id])
  /\ read' = Invalidated(send.chat)
  /\ UNCHANGED <<daemonVars, streamVars, stop, cache, marks, bounds>>

\* The call fails before or after the daemon has the message.
SendFails ==
  /\ send.step \in {"creating", "posting", "stored"}
  /\ Trouble /\ send' = NoSend
  /\ Becomes([view EXCEPT !.local = IF send.step = "creating" THEN @
                                    ELSE EchoBecomes(Echo, "failed"),
                          !.state = "send failed", !.error = TRUE])
  /\ UNCHANGED <<daemonVars, streamVars, stop, listVars, marks, sends>>

\* The mutation ends with the reads it asked for.
SendEnds ==
  /\ send.step = "refreshing" /\ (send.chat = view.chat => read[send.chat].step = "idle")
  /\ send' = NoSend
  /\ UNCHANGED <<daemonVars, streamVars, view, stop, listVars, marks, bounds>>

(***************************************************************************)
(* Stopping and changing chats                                             *)
(***************************************************************************)
Asked(v) == [stop EXCEPT !.step = "asked", !.chat = v.chat, !.of = v.metrics]

Stop ==
  /\ view.chat # No /\ view.state \in Active
  /\ stop.step = "idle" /\ Trouble /\ stop' = Asked(view)    \* bound: one cancel at a time
  /\ Becomes([view EXCEPT !.state = "stopping", !.error = FALSE])
  /\ UNCHANGED <<daemonVars, streamVars, send, listVars, marks, sends>>

\* Success says nothing: the turn's end comes over the stream.
StopAnswered ==
  /\ stop.step \in {"cancelled", "no turn", "mismatch"}
  /\ stop' = NoStop
  /\ CASE stop.step = "cancelled" -> UNCHANGED <<view, read>>
       [] stop.step = "no turn" ->
            /\ Becomes([view EXCEPT !.state = IF @ = "stopping" THEN "idle" ELSE @])
            /\ read' = Invalidated(stop.chat)
       [] stop.step = "mismatch" ->
            /\ Becomes([view EXCEPT !.state = "error", !.error = TRUE])
            /\ UNCHANGED read
  /\ UNCHANGED <<daemonVars, streamVars, send, cache, marks, bounds>>

StopFails ==
  /\ stop.step # "idle"
  /\ stop' = NoStop
  /\ Becomes([view EXCEPT !.state = "error", !.error = TRUE])
  /\ UNCHANGED <<daemonVars, streamVars, send, listVars, marks, bounds>>

Select(c) ==
  /\ c \in made \ {view.chat} /\ Trouble
  /\ Becomes(Opened(view, c)) /\ OpenStream(c)
  /\ excused' = (excused \/ view.state \in Active)
  /\ UNCHANGED <<daemonVars, send, stop, cache, sends>>

\* startDraft stops the chat it leaves, and forgets every local message.
NewChat ==
  /\ Trouble
  /\ view.chat # No => stop.step = "idle"    \* bound: one cancel at a time
  /\ stop' = IF view.chat = No THEN stop ELSE Asked(view)
  /\ view' = [view EXCEPT !.chat = No, !.state = "idle", !.error = FALSE, !.live = <<>>, !.local = <<>>]
  /\ conn' = "off" /\ wire' = <<>> /\ watched' = {} /\ excused' = FALSE
  /\ UNCHANGED <<daemonVars, send, listVars, sends>>

(***************************************************************************)
(* The stream of the chat on screen                                        *)
(***************************************************************************)
ReadyFrom(states, refetch) ==
  /\ conn \in states /\ conn' = "live"
  /\ Becomes(IF conn = "reconnecting" /\ view.state = "reconnecting"
             THEN [view EXCEPT !.state = "syncing"] ELSE view)
  /\ read' = IF conn = "reconnecting" /\ refetch THEN Invalidated(view.chat) ELSE read
  /\ UNCHANGED <<daemonVars, wire, send, stop, cache, marks, bounds>>
ReadyOfDisposed == ReadyFrom({"off", "connecting", "reconnecting"}, TRUE)
ReadyNoRefetch == ReadyFrom({"connecting", "reconnecting"}, FALSE)
Ready == ReadyFrom({"connecting", "reconnecting"}, TRUE)

Drop ==
  /\ conn \in {"connecting", "live"} /\ Trouble
  /\ conn' = "reconnecting" /\ wire' = <<>>
  /\ excused' = (excused \/ Unheard(wire))
  /\ Becomes([view EXCEPT !.state = IF @ \in Active THEN "reconnecting" ELSE @])
  /\ UNCHANGED <<daemonVars, send, stop, listVars, watched, sends>>

\* "Retry stream": the stream is opened anew, and the new one knows of no break
\* (hadDrop), so that what only the read after the break would have brought is
\* given up.
RetryStream ==
  /\ conn = "reconnecting" /\ conn' = "connecting"
  /\ Becomes([view EXCEPT !.live = <<>>, !.error = FALSE])
  /\ watched' = IF read[view.chat].step = "asked" THEN watched
                ELSE watched \cap {m.id : m \in ToSet(read[view.chat].got)}
  /\ UNCHANGED <<daemonVars, wire, send, stop, listVars, excused, bounds>>

\* The text of turn.completed and turn.cancelled, as a local message.
WithReply(v, e, state) ==
  [v EXCEPT !.local = Append(@, [id |-> e.id, chat |-> v.chat, role |-> "assistant",
                                 says |-> <<e.turn, e.cut>>, state |-> state, for |-> e.id]),
            !.live = <<>>, !.pending = 0]

Hear ==
  LET e == Head(wire) IN
  /\ wire # <<>> /\ conn = "live" /\ wire' = Tail(wire)
  /\ CASE e.type = "started" ->
            /\ Becomes([view EXCEPT !.state = "running", !.metrics = e.turn])
            /\ read' = Invalidated(view.chat)
       [] e.type = "delta" ->
            /\ Becomes([view EXCEPT !.live = Append(@, e.turn), !.state = "streaming", !.metrics = e.turn])
            /\ UNCHANGED read
       [] e.type = "completed" ->
            /\ Becomes([WithReply(view, e, "sent") EXCEPT !.state = "completed"])
            /\ read' = Invalidated(view.chat)
       [] e.type = "cancelled" ->
            /\ Becomes([(IF e.id = 0 THEN [view EXCEPT !.live = <<>>, !.pending = 0]
                                     ELSE WithReply(view, e, "cancelled")) EXCEPT !.state = "cancelled"])
            /\ read' = Invalidated(view.chat)
       [] e.type = "error" ->
            /\ Becomes([view EXCEPT !.state = "error", !.error = TRUE])
            /\ read' = Invalidated(view.chat)
  /\ UNCHANGED <<daemonVars, conn, send, stop, cache, marks, bounds>>

(***************************************************************************)
(* The list of messages                                                    *)
(***************************************************************************)
Poll ==
  /\ view.chat # No /\ view.state \in Active \cup {"syncing"} /\ read[view.chat].step = "idle"
  /\ Fetched(view.chat) # log[view.chat]    \* a poll that finds nothing new is a stutter
  /\ read' = Invalidated(view.chat)
  /\ UNCHANGED <<daemonVars, streamVars, view, send, stop, cache, marks, bounds>>

ReadServed(c) ==
  /\ read[c].step = "asked" /\ read' = [read EXCEPT ![c].step = "read", ![c].got = log[c]]
  /\ UNCHANGED <<daemonVars, streamVars, view, send, stop, cache, marks, bounds>>

ReadArrives(c) ==
  /\ read[c].step = "read" /\ read' = [read EXCEPT ![c] = [Unread EXCEPT !.data = TRUE]]
  /\ cache' = [cache EXCEPT ![c] = read[c].got]
  /\ view' = IF c = view.chat THEN Settled(view, read[c].got) ELSE view
  /\ watched' = IF c = view.chat THEN watched \ {m.id : m \in ToSet(read[c].got)} ELSE watched
  /\ UNCHANGED <<daemonVars, streamVars, send, stop, excused, bounds>>

Daemon == Cancels \/ Stores \/ \E c \in Chats : Begins(c) \/ Talks(c) \/ Completes(c) \/ Breaks(c)
Answers == Posted \/ SendEnds \/ StopAnswered \/ (\E c \in Chats : Created(c))
Reads == Poll \/ (\E c \in Chats : ReadServed(c) \/ ReadArrives(c))

Next ==
  \/ \E x \in 1..sends + 1, steer \in BOOLEAN : Send(x, steer)
  \/ Stop \/ NewChat \/ RetryStream \/ (\E c \in Chats : Select(c))
  \/ SendFails \/ StopFails \/ Drop
  \/ Daemon \/ Answers \/ Ready \/ Hear \/ Reads

\* The daemon works through its calls and turns, the stream reconnects for
\* ever, frames and reads arrive, the timer polls; nothing of it can go on for
\* ever by itself, so that fairness of the whole is fairness of each.
System == UNCHANGED bounds /\ (Reads \/ Ready \/ Hear \/ Answers \/ Daemon)

Spec == Init /\ [][Next]_vars /\ WF_vars(System)

-----------------------------------------------------------------------------
(***************************************************************************)
(* Properties                                                              *)
(***************************************************************************)
TypeOK ==
  /\ made \subseteq Chats /\ given \in Nat /\ conn \in {"off", "connecting", "live", "reconnecting"}
  /\ \A c \in Chats : /\ log[c] \in Seq(Message) /\ cache[c] \in Seq(Message)
                      /\ queue[c] \in Seq(Ids) /\ turn[c] \in [of : Ids, said : BOOLEAN]
                      /\ read[c].step \in {"idle", "asked", "read"} /\ read[c].data \in BOOLEAN
  /\ wire \in Seq(Event)
  /\ view.state \in TurnStates /\ view.chat \in made \cup {No} /\ view.error \in BOOLEAN
  /\ view.local \in Seq(Local) /\ view.pending \in Ids \cup Echoes /\ view.live \in Seq(Ids)
  /\ view.chat = No <=> conn = "off"
  /\ send.step \in {"idle", "creating", "posting", "stored", "refreshing"}
  /\ stop.step \in {"idle", "asked", "cancelled", "no turn", "mismatch"}

\* The local message m stands for message n of the daemon.
StandsFor(m, n) == n \in {m.id, m.for} \/ (m.id = Echo /\ send.step = "stored" /\ n = send.id)

\* A message is on screen once, whichever of the call's answer, the frame of
\* the turn's end and the read of the list comes first, and also when the
\* answer never comes (mergeCompanionMessages).
ShownOnce ==
  \A n \in 1..given :
    LET list == Fetched(view.chat) IN
    Cardinality({k \in DOMAIN list : list[k].id = n})
      + Cardinality({k \in Leftover(view, list) : StandsFor(view.local[k], n)}) <= 1

\* What is on screen stays there while the user stays in the chat: no answer,
\* frame, failure or late read takes a message back.
NothingVanishes ==
  [][view'.chat = view.chat /\ view.chat # No =>
       \A m \in Rendered(view, Fetched(view.chat)) :
         \E l \in Rendered(view', cache'[view'.chat]) : l.role = m.role /\ l.says = m.says]_vars

\* What the daemon stores while the chat is on screen, its list read once and
\* its stream open, or broken and on its way back, is read unless the user
\* leaves: frames lost to the break cost nothing (onReady after a drop,
\* invalidateChatState).  Excepted is what was stored when the user presses
\* "Retry stream" and no read under way brings: the code never reads it.
WatchedIsRead == watched # {} ~> watched = {}

\* A chat does not stay "running", "stopping" or the like for ever without a
\* word: a frame, an answer, or the poll ends it, unless an error is on screen,
\* the state came along from another chat, or the one frame that could tell was
\* lost (excused).
TurnSettles == view.state \in Active ~> (view.state \notin Active \/ view.error \/ excused)
=============================================================================
