------------------------------ MODULE WsBridge ------------------------------
(***************************************************************************)
(* One connection of src/bun/ws-bridge.ts: the webview's /app/ws socket    *)
(* (ws) bridged to the daemon's control-plane socket (daemonWs).           *)
(*                                                                         *)
(* Every handler of the bridge runs to completion on Bun's event loop, so  *)
(* a handler is one action.  The actors that interleave are the webview,   *)
(* the daemon, the two sockets' send buffers and the handlers.             *)
(*                                                                         *)
(* Data frames are numbered in the order their peer sends them; a frame    *)
(* counts as one unit of the buffers, whose limit is MaxBuffered units     *)
(* (MAX_BUFFERED_BYTES).                                                   *)
(***************************************************************************)
EXTENDS Integers, Sequences

CONSTANTS MaxBuffered,  \* MAX_BUFFERED_BYTES, in frames
          OversizeAuth, \* the webview's frames that are auth frames of more
                        \* than MAX_AUTH_SCAN_BYTES
          MaxUp,        \* bound: frames of the webview that are not dropped
          MaxDown       \* bound: data frames the daemon sends

ASSUME BufferAssumption ==
  /\ MaxBuffered \in Nat /\ MaxUp \in Nat /\ MaxDown \in Nat
  /\ OversizeAuth \subseteq Nat \ {0}

AuthFrame == 0          \* the auth frame the bridge itself sends
WebviewAuth == -1       \* an auth frame of usual size sent by the webview

VARIABLES ws,            \* the webview's socket, as Bun sees it
          closeCode,     \* the code the webview's socket was closed with
          daemonWs,      \* readyState of the daemon's socket
          pending,       \* conn.pending
          pendingBytes,  \* conn.pendingBytes
          webviewClosed, \* conn.webviewClosed
          accepted,      \* frames message() was given and did not drop
          dOut,          \* send buffer of daemonWs
          daemonGot,     \* frames the daemon has read
          emitted,       \* data frames the daemon sent to an open connection
          wOut,          \* send buffer of ws
          webviewGot     \* frames the webview has read

conn == <<pending, pendingBytes, webviewClosed>>
upVars == <<accepted, dOut, daemonGot>>
downVars == <<emitted, wOut, webviewGot>>
vars == <<ws, closeCode, daemonWs, conn, upVars, downVars>>

Init == /\ ws = "upgraded"
        /\ closeCode = "none"
        /\ daemonWs = "none"
        /\ pending = <<>> /\ pendingBytes = 0 /\ webviewClosed = FALSE
        /\ accepted = 0 /\ dOut = <<>> /\ daemonGot = <<>>
        /\ emitted = 0 /\ wOut = <<>> /\ webviewGot = <<>>

----------------------------------------------------------------------------
\* WebSocket.close(): only an open or connecting socket changes state.
Closing(readyState) ==
  IF readyState \in {"OPEN", "CONNECTING"} THEN "CLOSING" ELSE readyState

ForgetPending == pending' = <<>> /\ pendingBytes' = 0 /\ webviewClosed' = TRUE

CloseBoth(code) ==
  /\ ForgetPending
  /\ ws' = "closing" /\ closeCode' = code
  /\ daemonWs' = Closing(daemonWs)

\* open(ws): the daemon socket starts connecting.
Open == /\ ws = "upgraded"
        /\ ws' = "open" /\ daemonWs' = "CONNECTING"
        /\ UNCHANGED <<closeCode, conn, upVars, downVars>>

\* Seeded bugs of DaemonOpen: the queue first, the queue forgotten.
DaemonOpenQueueFirst ==
  /\ daemonWs = "CONNECTING" /\ ~webviewClosed
  /\ daemonWs' = "OPEN"
  /\ dOut' = Append(pending, AuthFrame)
  /\ pending' = <<>> /\ pendingBytes' = 0
  /\ UNCHANGED <<ws, closeCode, webviewClosed, accepted, daemonGot, downVars>>

DaemonOpenNoFlush ==
  /\ daemonWs = "CONNECTING" /\ ~webviewClosed
  /\ daemonWs' = "OPEN"
  /\ dOut' = <<AuthFrame>>
  /\ pending' = <<>> /\ pendingBytes' = 0
  /\ UNCHANGED <<ws, closeCode, webviewClosed, accepted, daemonGot, downVars>>

\* daemonWs "open": the auth frame, then what queued up while connecting.
\* A handshake that completes after close() was called is closed again.
DaemonOpen ==
  \/ /\ daemonWs = "CONNECTING" /\ ~webviewClosed
     /\ daemonWs' = "OPEN"
     /\ dOut' = <<AuthFrame>> \o pending
     /\ pending' = <<>> /\ pendingBytes' = 0
     /\ UNCHANGED <<ws, closeCode, webviewClosed, accepted, daemonGot, downVars>>
  \/ /\ daemonWs = "CLOSING" /\ webviewClosed /\ dOut = <<>> /\ daemonGot = <<>>
     /\ UNCHANGED vars

\* daemonWs "message": dropped once the webview is gone, else relayed.
DaemonMessage ==
  /\ daemonWs \in {"OPEN", "CLOSING"}
  /\ emitted < MaxDown
  /\ IF webviewClosed
     THEN UNCHANGED <<ws, closeCode, daemonWs, conn, emitted, wOut>>
     ELSE /\ emitted' = emitted + 1
          /\ wOut' = Append(wOut, emitted + 1)
          /\ IF Len(wOut') > MaxBuffered
             THEN CloseBoth("overflow")
             ELSE UNCHANGED <<ws, closeCode, daemonWs, conn>>
  /\ UNCHANGED <<upVars, webviewGot>>

\* The daemon begins the close handshake: no listener runs yet.
DaemonStartsClosing ==
  /\ daemonWs = "OPEN" /\ daemonWs' = "CLOSING"
  /\ UNCHANGED <<ws, closeCode, conn, upVars, downVars>>

\* daemonWs "close", and "error", which does the same.
DaemonClosed ==
  /\ daemonWs \in {"CONNECTING", "OPEN", "CLOSING"}
  /\ daemonWs' = "CLOSED"
  /\ IF webviewClosed
     THEN UNCHANGED <<ws, closeCode, conn>>
     ELSE /\ ForgetPending
          /\ ws' = "closing" /\ closeCode' = "disconnected"
  /\ UNCHANGED <<upVars, downVars>>

----------------------------------------------------------------------------
\* message(ws, frame): a frame of the webview is dropped, forwarded, queued
\* or refused, by readyState.

\* Seeded bugs: no check of the send buffer, the wrong close code.
ForwardUnchecked(frame) ==
  /\ daemonWs = "OPEN"
  /\ dOut' = Append(dOut, frame)
  /\ UNCHANGED <<ws, closeCode, daemonWs, conn>>
RefuseAsOverflow == /\ daemonWs \in {"CLOSING", "CLOSED"}
                    /\ CloseBoth("overflow")
                    /\ UNCHANGED dOut

SaysAuth(frame) == frame \in {AuthFrame, WebviewAuth} \cup OversizeAuth
TooLargeToScan(frame) == frame \in OversizeAuth

\* A frame over MAX_AUTH_SCAN_BYTES is not parsed, and so is never one.
IsAuthFrame(frame) == ~TooLargeToScan(frame) /\ SaysAuth(frame)

Forward(frame) ==
  /\ daemonWs = "OPEN"
  /\ dOut' = Append(dOut, frame)
  /\ IF Len(dOut') > MaxBuffered
     THEN CloseBoth("overflow")
     ELSE UNCHANGED <<ws, closeCode, daemonWs, conn>>

Enqueue(frame) ==
  /\ daemonWs = "CONNECTING"
  /\ IF pendingBytes + 1 > MaxBuffered
     THEN CloseBoth("overflow")
     ELSE /\ pendingBytes' = pendingBytes + 1
          /\ pending' = Append(pending, frame)
          /\ UNCHANGED <<ws, closeCode, daemonWs, webviewClosed>>
  /\ UNCHANGED dOut

\* CLOSING or CLOSED: the daemon's close event races this frame.
Refuse == /\ daemonWs \in {"CLOSING", "CLOSED"}
          /\ CloseBoth("disconnected")
          /\ UNCHANGED dOut

Message(frame) ==
  /\ ws = "open"
  /\ \/ IsAuthFrame(frame) /\ UNCHANGED vars
     \/ /\ ~IsAuthFrame(frame)
        /\ Forward(frame) \/ Enqueue(frame) \/ Refuse
        /\ accepted' = accepted + 1
        /\ UNCHANGED <<daemonGot, downVars>>

\* Seeded bug: the daemon's socket is left open.
WebviewCloseLeak ==
  /\ ws \in {"open", "closing"}
  /\ ws' = "closed"
  /\ closeCode' = IF ws = "open" THEN "webview" ELSE closeCode
  /\ ForgetPending
  /\ UNCHANGED <<daemonWs, upVars, downVars>>

\* close(ws): the webview closed the socket, or the bridge's close completed.
WebviewClose ==
  /\ ws \in {"open", "closing"}
  /\ ws' = "closed"
  /\ closeCode' = IF ws = "open" THEN "webview" ELSE closeCode
  /\ ForgetPending
  /\ daemonWs' = Closing(daemonWs)
  /\ UNCHANGED <<upVars, downVars>>

----------------------------------------------------------------------------
\* The network: a send buffer drains in order until its socket is closed.

DaemonReads ==
  /\ daemonWs \in {"OPEN", "CLOSING"} /\ dOut # <<>>
  /\ daemonGot' = Append(daemonGot, Head(dOut))
  /\ dOut' = Tail(dOut)
  /\ UNCHANGED <<ws, closeCode, daemonWs, conn, accepted, downVars>>

WebviewReads ==
  /\ ws \in {"open", "closing"} /\ wOut # <<>>
  /\ webviewGot' = Append(webviewGot, Head(wOut))
  /\ wOut' = Tail(wOut)
  /\ UNCHANGED <<ws, closeCode, daemonWs, conn, upVars, emitted>>

WebviewSends ==
  \/ accepted < MaxUp /\ Message(accepted + 1)
  \/ Message(WebviewAuth)

Next == \/ Open \/ DaemonOpen \/ DaemonMessage \/ DaemonStartsClosing
        \/ DaemonClosed \/ WebviewSends \/ WebviewClose
        \/ DaemonReads \/ WebviewReads

SafeSpec == Init /\ [][Next]_vars

(***************************************************************************)
(* Fairness.  A connect attempt and a close handshake end, since the       *)
(* socket library bounds both; a peer that keeps its connection reads      *)
(* what is in its socket.  Nobody has to send or to close.                 *)
(***************************************************************************)
Fairness == /\ WF_vars(daemonWs = "CONNECTING" /\ (DaemonOpen \/ DaemonClosed))
            /\ WF_vars(daemonWs = "CLOSING" /\ DaemonClosed)
            /\ WF_vars(ws = "closing" /\ WebviewClose)
            /\ WF_vars(DaemonReads)
            /\ WF_vars(WebviewReads)

Spec == SafeSpec /\ Fairness

----------------------------------------------------------------------------
\* What was handed to the daemon's socket so far.
DaemonSent == daemonGot \o dOut

TypeOK ==
  /\ ws \in {"upgraded", "open", "closing", "closed"}
  /\ closeCode \in {"none", "overflow", "disconnected", "webview"}
  /\ daemonWs \in {"none", "CONNECTING", "OPEN", "CLOSING", "CLOSED"}
  /\ pending \in Seq(Nat) /\ pendingBytes \in Nat /\ webviewClosed \in BOOLEAN
  /\ accepted \in Nat /\ dOut \in Seq(Nat) /\ daemonGot \in Seq(Nat)
  /\ emitted \in Nat /\ wOut \in Seq(Nat) /\ webviewGot \in Seq(Nat)

\* The bridge authenticates before any other frame, exactly once, and no auth
\* frame of the webview gets through (ws-bridge.ts:54-64, 152-162), whatever
\* was queued while the daemon's socket was connecting, but for those too large
\* to be scanned, which are forwarded like any other frame (64-67).
AuthFirstAndOnce ==
  \A i \in 1..Len(DaemonSent) :
    /\ (DaemonSent[i] = AuthFrame) <=> (i = 1)
    /\ SaysAuth(DaemonSent[i]) => i = 1 \/ TooLargeToScan(DaemonSent[i])

\* No buffer grows without bound (ws-bridge.ts:23-28): the queue stays within
\* the limit, and a send buffer passes it by the frame that trips the check,
\* and by the auth frame, which open() does not count.
BuffersBounded == /\ Len(pending) <= MaxBuffered
                  /\ Len(wOut) <= MaxBuffered + 1
                  /\ Len(dOut) <= MaxBuffered + 2

\* A close code blames the right side: "disconnected" (4001) is only used
\* once the daemon's socket has left OPEN, "overflow" (4002) only when the
\* step found a buffer over the limit.
CodeIsRight ==
  closeCode = "none" =>
    /\ closeCode' = "disconnected" => daemonWs # "OPEN" \/ daemonWs' = "CLOSED"
    /\ closeCode' = "overflow" => \/ Len(wOut') > MaxBuffered
                                  \/ Len(dOut') > MaxBuffered
                                  \/ daemonWs = "CONNECTING" /\ Len(pending) = MaxBuffered
CloseCodeBlamesTheRightSide == [][CodeIsRight]_vars

\* Teardown reaches both ends: no daemon socket outlives its webview
\* (ws-bridge.ts:215-224) and no webview stays connected to a dead daemon
\* socket (ws-bridge.ts:173-183, 210-212).
TeardownReachesBothEnds == /\ (ws = "closed") ~> (daemonWs = "CLOSED")
                           /\ (daemonWs = "CLOSED") ~> (ws = "closed")

\* The webview's calls reach the daemon through a FIFO pipe that loses
\* nothing while it is open (the bridge "pipes frames verbatim both ways",
\* ws-bridge.ts:1-5), also across the connect phase.
Up == INSTANCE FramePipe WITH
        taken <- accepted,
        delivered <- IF daemonGot = <<>> THEN <<>> ELSE Tail(daemonGot),
        open <- ~webviewClosed
UpPipe == Up!Spec

\* The daemon's events reach the webview through such a pipe too.
Down == INSTANCE FramePipe WITH
          taken <- emitted, delivered <- webviewGot, open <- ~webviewClosed
DownPipe == Down!Spec

\* Both directions "verbatim" (ws-bridge.ts:1-5).
PipesAreFifo == UpPipe /\ DownPipe
=============================================================================
