----------------------------- MODULE SseStream -----------------------------
(***************************************************************************)
(* One event stream from the daemon to a view: the pass-through of         *)
(* src/bun/ui-server.ts, which injects comment heartbeats, and the client  *)
(* of src/ui/lib/sse.ts, which parses, reconnects and resumes.             *)
(*                                                                         *)
(* What matters of the text is where it can be cut.  Frame n is an id, an  *)
(* event and a data line, each in two pieces, and the blank line that ends *)
(* it: the pieces FrameLength * (n - 1) + 1 to FrameLength * n of all the  *)
(* daemon ever writes.  Pieces are passed on in order, so that a queue of  *)
(* them is the interval between the last piece put in and the last taken   *)
(* out.  A heartbeat is one piece, told by the place of the one before it; *)
(* a second at the same place changes nothing, it ends an empty frame.     *)
(***************************************************************************)
EXTENDS Integers, Sequences

CONSTANTS MaxFrames,      \* bound: frames the daemon publishes
          MaxHeartbeats,  \* bound: heartbeats injected
          MaxBreaks       \* bound: failed fetches and broken streams

ASSUME StreamAssumption ==
  MaxFrames \in Nat /\ MaxHeartbeats \in Nat /\ MaxBreaks \in Nat

VARIABLES published,    \* frames the daemon published
          relayed,      \* the last piece the proxy enqueued
          beats,        \* the pieces after which an unread heartbeat is enqueued
          heartbeats,   \* heartbeats injected so far
          breaks,       \* breaks so far
          phase,        \* the client: connecting, open, waiting or disposed
          parsed,       \* the last piece the client parsed
          parser,       \* the state of createSseParser; line is the one begun, if any
          lastEventId,  \* lastEventId, NoId for null
          received,     \* the frames handed to onEvent
          missed,       \* history: no connect named a frame up to this one
          cut           \* history: the frames that a heartbeat cut

proxyVars == <<relayed, beats>>
clientVars == <<phase, parsed, parser, lastEventId, received>>
historyVars == <<missed, cut>>
streamVars == <<published, proxyVars, heartbeats, breaks, clientVars, historyVars>>

FrameLength == 7

\* The frame the piece after p belongs to, and its place there.
FrameAfter(p) == (p \div FrameLength) + 1
PlaceAfter(p) == (p % FrameLength) + 1

\* A field of frame n has the value n; a line that was cut has no such value.
Absent == 0
Garbled == -1
NoId == Absent

Line == <<"id", "id", "event", "event", "data", "data">>
NewParser == [line |-> "none", id |-> Absent, event |-> Absent, data |-> Absent]

StreamInit ==
  /\ published = 0 /\ relayed = 0 /\ beats = {}
  /\ heartbeats = 0 /\ breaks = 0
  /\ phase = "connecting" /\ parsed = 0 /\ parser = NewParser
  /\ lastEventId = NoId /\ received = <<>>
  /\ missed = 0 /\ cut = {}

----------------------------------------------------------------------------
\* The parser.

\* A blank line dispatches what has accumulated: the id is kept for the next
\* connect, the frame handed to onEvent.
Dispatch(p) ==
  /\ parser' = [p EXCEPT !.event = Absent, !.data = Absent]
  /\ IF p.event = Absent /\ p.data = Absent THEN UNCHANGED <<lastEventId, received>>
     ELSE /\ received' = Append(received, [id |-> p.id, event |-> p.event, data |-> p.data])
          /\ lastEventId' = IF p.id = NoId THEN lastEventId ELSE p.id

\* The end of a line: the buffer is empty, the field that began there is set.
TakeField(p, value) ==
  [id    |-> IF p.line = "id" THEN value ELSE p.id,
   event |-> IF p.line = "event" THEN value ELSE p.event,
   data  |-> IF p.line = "data" THEN value ELSE p.data,
   line  |-> "none"]

\* A piece of a frame.  The rest of a line whose beginning a heartbeat took is
\* no field, and ignored.
FeedPiece(n, place) ==
  IF place = FrameLength THEN Dispatch(parser)
  ELSE /\ parser' = IF place % 2 = 1 THEN [parser EXCEPT !.line = Line[place]]
                                     ELSE TakeField(parser, n)
       /\ UNCHANGED <<lastEventId, received>>

\* A heartbeat, ":hb" and two line ends.  At the start of a line it is a comment
\* and a blank line.  Elsewhere it ends the line, which gets a value that nobody
\* sent, or no field that anybody knows, and then the frame.
FeedHeartbeat ==
  \/ Dispatch(TakeField(parser, Garbled))
  \/ parser.line # "none" /\ Dispatch([parser EXCEPT !.line = "none"])

\* What a heartbeat must not meet: half a line, or an event without its data.
CutsFrame == parser.line # "none" \/ (parser.event # Absent /\ parser.data = Absent)

----------------------------------------------------------------------------
\* The daemon, and the network between daemon and proxy.

\* The daemon replays what follows the last-event-id it is given; without one,
\* or with one it never sent, it starts anywhere up to now.
StartsAfter(id) == IF id \in 1..published THEN {id} ELSE 0..published

DaemonPublishes ==
  /\ published < MaxFrames
  /\ published' = published + 1
  /\ UNCHANGED <<proxyVars, heartbeats, breaks, clientVars, historyVars>>

\* withSseHeartbeat: a chunk may end after any piece, and the timer writes
\* between any two chunks.
ProxyReads ==
  /\ phase = "open" /\ relayed < FrameLength * published
  /\ relayed' = relayed + 1
  /\ UNCHANGED <<published, beats, heartbeats, breaks, clientVars, historyVars>>

InjectHeartbeat ==
  /\ phase = "open" /\ heartbeats < MaxHeartbeats
  /\ heartbeats' = heartbeats + 1
  /\ beats' = beats \union {relayed}
  /\ UNCHANGED <<published, relayed, breaks, clientVars, historyVars>>

----------------------------------------------------------------------------
\* openSse.

\* Seeded bugs of ResumeFrom: no header, or the id of an unfinished frame.
ResumeWithoutId == NoId
ResumeFromIdLine == IF parser.id # NoId THEN parser.id ELSE lastEventId

\* The last-event-id header; there is none while lastEventId is null.
ResumeFrom == lastEventId

FetchSucceeds ==
  /\ phase = "connecting"
  /\ phase' = "open" /\ parser' = NewParser
  /\ \E from \in StartsAfter(ResumeFrom) :
       /\ relayed' = FrameLength * from /\ parsed' = FrameLength * from
       /\ missed' = IF lastEventId \in 1..published THEN missed ELSE from
  /\ UNCHANGED <<published, beats, heartbeats, breaks, lastEventId, received, cut>>

\* A piece is read and parsed.  A read of many is many of these: it may end
\* anywhere, and between two frames of one read onEvent may dispose the stream.
WebviewReads ==
  /\ phase = "open" /\ parsed \notin beats /\ parsed < relayed
  /\ FeedPiece(FrameAfter(parsed), PlaceAfter(parsed))
  /\ parsed' = parsed + 1
  /\ UNCHANGED <<published, proxyVars, heartbeats, breaks, phase, historyVars>>

WebviewReadsHeartbeat ==
  /\ phase = "open" /\ parsed \in beats
  /\ FeedHeartbeat
  /\ beats' = beats \ {parsed}
  /\ cut' = IF CutsFrame THEN cut \union {FrameAfter(parsed)} ELSE cut
  /\ UNCHANGED <<published, relayed, heartbeats, breaks, phase, parsed, missed>>

\* scheduleReconnect; what was on its way is lost.
ScheduleReconnect ==
  /\ breaks' = breaks + 1
  /\ phase' = "waiting"
  /\ relayed' = parsed /\ beats' = {}
  /\ UNCHANGED <<published, heartbeats, parsed, parser, lastEventId, received, historyVars>>

FetchFails == phase = "connecting" /\ breaks < MaxBreaks /\ ScheduleReconnect
StreamBreaks == phase = "open" /\ breaks < MaxBreaks /\ ScheduleReconnect

\* "done": the server closed cleanly, and everything relayed was read.
StreamEnds ==
  /\ phase = "open" /\ breaks < MaxBreaks
  /\ parsed = relayed /\ beats = {}
  /\ ScheduleReconnect

TimerFires ==
  /\ phase = "waiting" /\ phase' = "connecting"
  /\ UNCHANGED <<published, proxyVars, heartbeats, breaks, parsed, parser,
                 lastEventId, received, historyVars>>

Dispose ==
  /\ phase # "disposed" /\ phase' = "disposed"
  /\ relayed' = parsed /\ beats' = {}
  /\ UNCHANGED <<published, heartbeats, breaks, parsed, parser, lastEventId,
                 received, historyVars>>

StreamNext ==
  \/ DaemonPublishes \/ ProxyReads \/ InjectHeartbeat
  \/ FetchSucceeds \/ FetchFails \/ WebviewReads \/ WebviewReadsHeartbeat
  \/ StreamBreaks \/ StreamEnds \/ TimerFires \/ Dispose

StreamSafeSpec == StreamInit /\ [][StreamNext]_streamVars

\* Fairness: fetches end, timers fire, both ends of the proxy keep reading.
StreamFairness ==
  /\ WF_streamVars(FetchSucceeds \/ FetchFails) /\ WF_streamVars(TimerFires)
  /\ WF_streamVars(ProxyReads) /\ WF_streamVars(WebviewReads \/ WebviewReadsHeartbeat)

StreamSpec == StreamSafeSpec /\ StreamFairness

----------------------------------------------------------------------------
ParserState ==
  [line : {"none", "id", "event", "data"},
   id : -1..published, event : -1..published, data : -1..published]

StreamTypeOK ==
  /\ published \in 0..MaxFrames /\ missed \in 0..published
  /\ parsed \in Nat /\ relayed \in Nat
  /\ parsed <= relayed /\ relayed <= FrameLength * published
  /\ beats \subseteq parsed..relayed
  /\ heartbeats \in 0..MaxHeartbeats /\ breaks \in 0..MaxBreaks
  /\ phase \in {"connecting", "open", "waiting", "disposed"}
  /\ phase # "open" => parsed = relayed /\ beats = {}
  /\ parser \in ParserState
  /\ lastEventId \in -1..published
  /\ cut \subseteq 1..published

WholeFrame(n) == [id |-> n, event |-> n, data |-> n]

\* "resumes with Last-Event-ID when the server sent frame ids" (sse.ts:92): as
\* long as no heartbeat cut a frame, the frames after the one where the client was
\* let in arrive whole, once, in order, without a gap, across any breaks, even in
\* the middle of a frame, and wherever their text was cut; and whatever heartbeats
\* do to other frames, one that none cut never arrives in another form.
ResumedExactlyOnce ==
  /\ cut = {} => \A i \in DOMAIN received :
                   missed + i <= published /\ received[i] = WholeFrame(missed + i)
  /\ \A i \in DOMAIN received : \A n \in (1..published) \ cut :
       n \in {received[i].event, received[i].data} => received[i] = WholeFrame(n)

\* "Reconnects forever with capped backoff until disposed" (sse.ts:91): a frame
\* the daemon published arrives whole, unless the stream was disposed of, a
\* heartbeat cut that very frame, or it came before a connect without a usable id.
EverythingArrives ==
  \A n \in 1..MaxFrames :
    published >= n ~> \/ phase = "disposed" \/ n \in cut \/ n <= missed
                      \/ \E i \in DOMAIN received : received[i] = WholeFrame(n)
=============================================================================
