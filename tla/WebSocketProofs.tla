-------------------------- MODULE WebSocketProofs --------------------------
(***************************************************************************)
(* Theorems about the WebSocket, for every buffer limit, every number of   *)
(* frames and any number of callers, domains and sockets.                  *)
(*                                                                         *)
(* The bridge (WsBridge): the invariant IInv says where each numbered      *)
(* frame is: read by its peer, in the send buffer, queued for the connect, *)
(* or (only once webviewClosed is set) lost.                               *)
(*                                                                         *)
(* The call multiplexer (WsClient, an instance: what it assumes of its     *)
(* constants is a hypothesis of each theorem about it): NetInv ties the    *)
(* module's variables to the sockets' own states: the one connecting is    *)
(* the newest, the one open is `socket`, and there are never both.         *)
(* CallInv says where a call's socket is and how often it may still        *)
(* connect, SubInv what the daemon was asked for.                          *)
(***************************************************************************)
EXTENDS WsBridge, WsClient, SeqFacts

\* While the daemon's socket connects, the queue is exactly what was accepted.
QueueInv ==
  /\ pendingBytes = Len(pending)
  /\ Len(pending) <= MaxBuffered
  /\ \A i \in 1..Len(pending) : pending[i] = i
  /\ pending # <<>> => daemonWs = "CONNECTING"
  /\ daemonWs = "CONNECTING" /\ ~webviewClosed => Len(pending) = accepted

\* Frame number i is the (i + 1)-th thing handed to the daemon's socket.
UpInv ==
  /\ \A i \in 1..Len(daemonGot) : daemonGot[i] = i - 1
  /\ \A i \in 1..Len(dOut) : dOut[i] = Len(daemonGot) + i - 1
  /\ Len(daemonGot) + Len(dOut) <= accepted + 1
  /\ daemonWs \in {"none", "CONNECTING"} => daemonGot = <<>> /\ dOut = <<>>
  /\ daemonWs = "OPEN" => Len(daemonGot) + Len(dOut) = accepted + 1
  /\ Len(dOut) <= MaxBuffered + 2
  /\ daemonWs = "OPEN" => Len(dOut) <= MaxBuffered + 1

\* The same for the other direction.
DownInv ==
  /\ \A i \in 1..Len(webviewGot) : webviewGot[i] = i
  /\ \A i \in 1..Len(wOut) : wOut[i] = Len(webviewGot) + i
  /\ Len(webviewGot) + Len(wOut) <= emitted
  /\ Len(wOut) <= MaxBuffered + 1
  /\ ~webviewClosed => Len(webviewGot) + Len(wOut) = emitted /\ Len(wOut) <= MaxBuffered

\* webviewClosed is set exactly when the webview's socket is on its way out,
\* and then the daemon's socket is too.
TeardownInv ==
  /\ webviewClosed <=> ws \in {"closing", "closed"}
  /\ webviewClosed => daemonWs \in {"CLOSING", "CLOSED"}
  /\ ws = "upgraded" <=> daemonWs = "none"
  /\ ws = "upgraded" => accepted = 0
  /\ daemonWs = "CLOSED" => webviewClosed
  /\ closeCode = "none" <=> ~webviewClosed

\* What every step of the bridge keeps.
IInv == TypeOK /\ QueueInv /\ UpInv /\ DownInv /\ TeardownInv

USE BufferAssumption DEF conn, upVars, downVars, vars, AuthFrame, WebviewAuth

\* The bridge starts in a state that satisfies the invariant.
LEMMA InitIInv == Init => IInv
<1> SUFFICES ASSUME Init PROVE IInv
  OBVIOUS
<1>1. <<>> \in Seq(Nat) /\ Len(<<>>) = 0
  BY EmptySeqFacts
<1>2. TypeOK
  BY <1>1 DEF Init, TypeOK
<1>3. QueueInv /\ UpInv
  BY <1>1 DEF Init, QueueInv, UpInv
<1>4. DownInv
  BY <1>1 DEF Init, DownInv
<1>5. TeardownInv
  BY DEF Init, TeardownInv
<1>6. QED
  BY <1>2, <1>3, <1>4, <1>5 DEF IInv

\* DaemonOpen turns the queue into the send buffer, behind the auth frame.
LEMMA DaemonOpenIInv == IInv /\ DaemonOpen => IInv'
<1> SUFFICES ASSUME IInv, DaemonOpen PROVE IInv'
  OBVIOUS
<1> USE DEF IInv
<1>1. CASE UNCHANGED vars
  BY <1>1 DEF TypeOK, QueueInv, UpInv, DownInv, TeardownInv
<1>2. CASE daemonWs = "CONNECTING" /\ ~webviewClosed /\ ~UNCHANGED vars
  <2>1. /\ daemonWs' = "OPEN" /\ dOut' = <<0>> \o pending
        /\ pending' = <<>> /\ pendingBytes' = 0
        /\ UNCHANGED <<ws, closeCode, webviewClosed, accepted, daemonGot>>
        /\ UNCHANGED <<emitted, wOut, webviewGot>>
    BY <1>2 DEF DaemonOpen
  <2>2. /\ pending \in Seq(Nat) /\ Len(pending) = accepted
        /\ Len(pending) <= MaxBuffered /\ daemonGot = <<>>
        /\ \A i \in 1..Len(pending) : pending[i] = i
    BY <1>2 DEF TypeOK, QueueInv, UpInv
  <2>3. /\ dOut' \in Seq(Nat) /\ Len(dOut') = Len(pending) + 1
        /\ dOut'[1] = 0
        /\ \A i \in 1..Len(pending) : dOut'[i + 1] = pending[i]
    BY <2>1, <2>2, ConsFacts
  <2>4. \A i \in 1..Len(dOut') : dOut'[i] = i - 1
    <3> SUFFICES ASSUME NEW i \in 1..Len(dOut'), i # 1 PROVE dOut'[i] = i - 1
      BY <2>3
    <3>1. i - 1 \in 1..Len(pending) /\ (i - 1) + 1 = i
      BY <2>2, <2>3
    <3>2. QED
      BY <2>2, <2>3, <3>1
  <2>5. TypeOK'
    BY <2>1, <2>3, EmptySeqFacts DEF TypeOK
  <2>6. QueueInv'
    BY <2>1, EmptySeqFacts DEF QueueInv
  <2>7. UpInv'
    BY <2>1, <2>2, <2>3, <2>4, EmptySeqFacts DEF UpInv, TypeOK
  <2>8. DownInv' /\ TeardownInv'
    BY <1>2, <2>1 DEF DownInv, TeardownInv
  <2>9. QED
    BY <2>5, <2>6, <2>7, <2>8
<1>3. QED
  BY <1>1, <1>2 DEF DaemonOpen

\* What CloseBoth and close(ws) leave behind satisfies the queue's invariant.
LEMMA ForgetPendingQueueInv == ForgetPending => QueueInv'
  BY EmptySeqFacts DEF ForgetPending, QueueInv

\* A relayed daemon frame is the next one of the webview's socket.
LEMMA DaemonMessageIInv == IInv /\ DaemonMessage => IInv'
<1> SUFFICES ASSUME IInv, DaemonMessage PROVE IInv'
  OBVIOUS
<1> USE DEF IInv
<1>1. CASE webviewClosed
  BY <1>1 DEF DaemonMessage, TypeOK, QueueInv, UpInv, DownInv, TeardownInv
<1>2. CASE ~webviewClosed
  <2>1. /\ emitted' = emitted + 1 /\ wOut' = Append(wOut, emitted + 1)
        /\ UNCHANGED <<upVars, webviewGot>>
        /\ daemonWs \in {"OPEN", "CLOSING"}
        /\ IF Len(wOut') > MaxBuffered
           THEN CloseBoth("overflow")
           ELSE UNCHANGED <<ws, closeCode, daemonWs, conn>>
    BY <1>2 DEF DaemonMessage
  <2>2. /\ emitted + 1 \in Nat /\ wOut \in Seq(Nat)
        /\ Len(webviewGot) \in Nat /\ Len(wOut) \in Nat
    BY DEF TypeOK
  <2>3. /\ wOut' \in Seq(Nat) /\ Len(wOut') = Len(wOut) + 1
        /\ \A i \in 1..Len(wOut) : wOut'[i] = wOut[i]
        /\ wOut'[Len(wOut) + 1] = emitted + 1
    BY <2>1, <2>2, AppendFacts
  <2>4. /\ \A i \in 1..Len(wOut') : wOut'[i] = Len(webviewGot') + i
        /\ Len(webviewGot') + Len(wOut') = emitted'
        /\ Len(wOut') <= MaxBuffered + 1
    <3>1. /\ Len(webviewGot) + Len(wOut) = emitted /\ Len(wOut) <= MaxBuffered
          /\ \A i \in 1..Len(wOut) : wOut[i] = Len(webviewGot) + i
          /\ webviewGot' = webviewGot /\ emitted \in Nat
      BY <1>2, <2>1 DEF DownInv, TypeOK
    <3>2. ASSUME NEW i \in 1..Len(wOut') PROVE wOut'[i] = Len(webviewGot') + i
      <4>1. CASE i \in 1..Len(wOut)
        BY <2>3, <3>1, <4>1
      <4>2. CASE i = Len(wOut) + 1
        <5>1. wOut'[i] = emitted + 1 /\ Len(webviewGot') = Len(webviewGot)
          BY <2>3, <3>1, <4>2
        <5>2. Len(webviewGot) \in Nat /\ Len(wOut) \in Nat
          BY <2>2
        <5>3. QED
          BY <3>1, <4>2, <5>1, <5>2
      <4>3. QED
        BY <2>2, <2>3, <4>1, <4>2
    <3>3. QED
      BY <2>1, <2>2, <2>3, <3>1, <3>2
  <2>5. CASE Len(wOut') > MaxBuffered
    <3>1. CloseBoth("overflow")
      BY <2>1, <2>5
    <3>2. TypeOK'
      BY <2>1, <2>2, <2>3, <3>1, EmptySeqFacts DEF TypeOK, CloseBoth, ForgetPending, Closing
    <3>3. QueueInv'
      BY <3>1, ForgetPendingQueueInv DEF CloseBoth
    <3>4. UpInv' /\ TeardownInv'
      BY <1>2, <2>1, <3>1 DEF UpInv, TeardownInv, CloseBoth, ForgetPending, Closing, TypeOK
    <3>5. DownInv'
      BY <2>1, <2>4, <3>1 DEF DownInv, CloseBoth, ForgetPending
    <3>6. QED
      BY <3>2, <3>3, <3>4, <3>5
  <2>6. CASE ~(Len(wOut') > MaxBuffered)
    <3>1. UNCHANGED <<ws, closeCode, daemonWs, conn>>
      BY <2>1, <2>6
    <3>2. TypeOK'
      BY <2>1, <2>2, <2>3, <3>1 DEF TypeOK
    <3>3. QueueInv' /\ UpInv' /\ TeardownInv'
      BY <2>1, <3>1 DEF QueueInv, UpInv, TeardownInv
    <3>4. DownInv'
      BY <2>1, <2>3, <2>4, <2>6, <3>1 DEF DownInv
    <3>5. QED
      BY <3>2, <3>3, <3>4
  <2>7. QED
    BY <2>5, <2>6
<1>3. QED
  BY <1>1, <1>2

\* The daemon's socket closing takes the webview's down, unless it is gone.
LEMMA DaemonClosedIInv == IInv /\ DaemonClosed => IInv'
<1> SUFFICES ASSUME IInv, DaemonClosed PROVE IInv'
  OBVIOUS
<1> USE DEF IInv
<1>1. TypeOK'
  <2>1. <<>> \in Seq(Nat)
    BY EmptySeqFacts
  <2>2. CASE webviewClosed
    BY <2>2 DEF TypeOK, DaemonClosed
  <2>3. CASE ~webviewClosed
    BY <2>1, <2>3 DEF TypeOK, DaemonClosed, ForgetPending
  <2>4. QED
    BY <2>2, <2>3
<1>2. QueueInv'
  BY ForgetPendingQueueInv DEF DaemonClosed, QueueInv, TeardownInv
<1>3. UpInv' /\ DownInv' /\ TeardownInv'
  BY DEF DaemonClosed, ForgetPending, UpInv, DownInv, TeardownInv, TypeOK
<1>4. QED
  BY <1>1, <1>2, <1>3

\* close(ws) clears the connection and closes the daemon's socket.
LEMMA WebviewCloseIInv == IInv /\ WebviewClose => IInv'
<1> SUFFICES ASSUME IInv, WebviewClose PROVE IInv'
  OBVIOUS
<1> USE DEF IInv
<1>1. TypeOK'
  BY EmptySeqFacts DEF TypeOK, WebviewClose, ForgetPending, Closing
<1>2. QueueInv'
  BY ForgetPendingQueueInv DEF WebviewClose
<1>3. UpInv' /\ DownInv' /\ TeardownInv'
  BY DEF WebviewClose, ForgetPending, Closing, UpInv, DownInv, TeardownInv, TypeOK
<1>4. QED
  BY <1>1, <1>2, <1>3

\* A frame of the webview is the next one of the daemon's socket or queue.
LEMMA ForwardIInv ==
  ASSUME IInv, Forward(accepted + 1), ws = "open", accepted' = accepted + 1,
         UNCHANGED <<daemonGot, downVars>>
  PROVE  IInv'
<1> USE DEF IInv
<1>1. /\ accepted + 1 \in Nat /\ dOut \in Seq(Nat) /\ Len(dOut) \in Nat
      /\ Len(daemonGot) \in Nat
      /\ Len(daemonGot) + Len(dOut) = accepted + 1
      /\ Len(dOut) <= MaxBuffered + 1 /\ daemonWs = "OPEN"
  BY DEF TypeOK, UpInv, Forward
<1>2. /\ dOut' \in Seq(Nat) /\ Len(dOut') = Len(dOut) + 1
      /\ \A i \in 1..Len(dOut) : dOut'[i] = dOut[i]
      /\ dOut'[Len(dOut) + 1] = accepted + 1
  BY <1>1, AppendFacts DEF Forward
<1>3. ASSUME NEW i \in 1..Len(dOut') PROVE dOut'[i] = Len(daemonGot') + i - 1
  <2>1. daemonGot' = daemonGot /\ \A j \in 1..Len(dOut) : dOut[j] = Len(daemonGot) + j - 1
    BY DEF UpInv
  <2>2. CASE i \in 1..Len(dOut)
    BY <1>2, <2>1, <2>2
  <2>3. CASE i = Len(dOut) + 1
    BY <1>1, <1>2, <2>1, <2>3
  <2>4. QED
    BY <1>1, <1>2, <2>2, <2>3
<1>4. CASE Len(dOut') > MaxBuffered
  <2>1. CloseBoth("overflow")
    BY <1>4 DEF Forward
  <2>2. TypeOK'
    BY <1>2, <2>1, EmptySeqFacts DEF TypeOK, CloseBoth, ForgetPending, Closing
  <2>3. QueueInv'
    BY <2>1, ForgetPendingQueueInv DEF CloseBoth
  <2>4. UpInv'
    BY <1>1, <1>2, <1>3, <2>1 DEF UpInv, CloseBoth, Closing
  <2>5. DownInv' /\ TeardownInv'
    BY <1>1, <2>1 DEF DownInv, TeardownInv, CloseBoth, ForgetPending, Closing, TypeOK
  <2>6. QED
    BY <2>2, <2>3, <2>4, <2>5
<1>5. CASE ~(Len(dOut') > MaxBuffered)
  <2>1. UNCHANGED <<ws, closeCode, daemonWs, conn>>
    BY <1>5 DEF Forward
  <2>2. TypeOK'
    BY <1>1, <1>2, <2>1 DEF TypeOK
  <2>3. QueueInv' /\ DownInv' /\ TeardownInv'
    BY <1>1, <2>1 DEF QueueInv, DownInv, TeardownInv
  <2>4. UpInv'
    BY <1>1, <1>2, <1>3, <1>5, <2>1 DEF UpInv
  <2>5. QED
    BY <2>2, <2>3, <2>4
<1>6. QED
  BY <1>4, <1>5

\* A frame is sent, or buffered.
LEMMA EnqueueIInv ==
  ASSUME IInv, Enqueue(accepted + 1), ws = "open", accepted' = accepted + 1,
         UNCHANGED <<daemonGot, downVars>>
  PROVE  IInv'
<1> USE DEF IInv
<1>1. /\ accepted + 1 \in Nat /\ pending \in Seq(Nat) /\ Len(pending) \in Nat
      /\ Len(pending) = accepted /\ pendingBytes = Len(pending)
      /\ daemonWs = "CONNECTING" /\ ~webviewClosed /\ dOut' = dOut
  BY DEF TypeOK, QueueInv, TeardownInv, Enqueue
<1>2. CASE pendingBytes + 1 > MaxBuffered
  <2>1. CloseBoth("overflow")
    BY <1>2 DEF Enqueue
  <2>2. TypeOK'
    BY <1>1, <2>1, EmptySeqFacts DEF TypeOK, CloseBoth, ForgetPending, Closing
  <2>3. QueueInv'
    BY <2>1, ForgetPendingQueueInv DEF CloseBoth
  <2>4. UpInv'
    BY <1>1, <2>1 DEF UpInv, CloseBoth, Closing, TypeOK
  <2>5. DownInv' /\ TeardownInv'
    BY <1>1, <2>1 DEF DownInv, TeardownInv, CloseBoth, ForgetPending, Closing, TypeOK
  <2>6. QED
    BY <2>2, <2>3, <2>4, <2>5
<1>3. CASE ~(pendingBytes + 1 > MaxBuffered)
  <2>1. /\ pendingBytes' = pendingBytes + 1 /\ pending' = Append(pending, accepted + 1)
        /\ UNCHANGED <<ws, closeCode, daemonWs, webviewClosed>>
    BY <1>3 DEF Enqueue
  <2>2. /\ pending' \in Seq(Nat) /\ Len(pending') = Len(pending) + 1
        /\ \A i \in 1..Len(pending) : pending'[i] = pending[i]
        /\ pending'[Len(pending) + 1] = accepted + 1
    BY <1>1, <2>1, AppendFacts
  <2>3. TypeOK'
    BY <1>1, <2>1, <2>2 DEF TypeOK
  <2>4. QueueInv'
    BY <1>1, <1>3, <2>1, <2>2 DEF QueueInv
  <2>5. UpInv' /\ DownInv' /\ TeardownInv'
    BY <1>1, <2>1 DEF UpInv, DownInv, TeardownInv, TypeOK
  <2>6. QED
    BY <2>3, <2>4, <2>5
<1>4. QED
  BY <1>2, <1>3

\* The buffer is over its limit, and the bridge closes.
LEMMA RefuseIInv ==
  ASSUME IInv, Refuse, ws = "open", accepted' = accepted + 1,
         UNCHANGED <<daemonGot, downVars>>
  PROVE  IInv'
<1> USE DEF IInv
<1>1. CloseBoth("disconnected") /\ dOut' = dOut /\ daemonWs \in {"CLOSING", "CLOSED"}
  BY DEF Refuse
<1>2. TypeOK'
  BY <1>1, EmptySeqFacts DEF TypeOK, CloseBoth, ForgetPending, Closing
<1>3. QueueInv'
  BY <1>1, ForgetPendingQueueInv DEF CloseBoth
<1>4. UpInv' /\ DownInv' /\ TeardownInv'
  BY <1>1 DEF UpInv, DownInv, TeardownInv, CloseBoth, ForgetPending, Closing, TypeOK
<1>5. QED
  BY <1>2, <1>3, <1>4

\* The webview sends a frame.
LEMMA WebviewSendsIInv == IInv /\ WebviewSends => IInv'
<1> SUFFICES ASSUME IInv, WebviewSends PROVE IInv'
  OBVIOUS
<1>1. CASE UNCHANGED vars
  BY <1>1 DEF IInv, TypeOK, QueueInv, UpInv, DownInv, TeardownInv
<1>2. CASE ~UNCHANGED vars
  <2>1. accepted \in Nat /\ accepted + 1 # WebviewAuth
    BY DEF IInv, TypeOK
  <2>2. /\ ws = "open" /\ accepted' = accepted + 1 /\ UNCHANGED <<daemonGot, downVars>>
        /\ Forward(accepted + 1) \/ Enqueue(accepted + 1) \/ Refuse
    BY <1>2, <2>1 DEF WebviewSends, Message, IsAuthFrame, SaysAuth, TooLargeToScan
  <2>3. QED
    BY <2>2, ForwardIInv, EnqueueIInv, RefuseIInv
<1>3. QED
  BY <1>1, <1>2

\* A peer reads the head of its socket's buffer.
LEMMA DaemonReadsIInv == IInv /\ DaemonReads => IInv'
<1> SUFFICES ASSUME IInv, DaemonReads PROVE IInv'
  OBVIOUS
<1> USE DEF IInv
<1>1. /\ dOut \in Seq(Nat) /\ dOut # <<>> /\ daemonGot \in Seq(Nat)
      /\ Len(daemonGot) \in Nat
      /\ daemonGot' = Append(daemonGot, Head(dOut)) /\ dOut' = Tail(dOut)
      /\ UNCHANGED <<ws, closeCode, daemonWs, conn, accepted, downVars>>
      /\ daemonWs \in {"OPEN", "CLOSING"}
  BY DEF TypeOK, DaemonReads
<1>2. /\ dOut' \in Seq(Nat) /\ Len(dOut) \in Nat \ {0} /\ Len(dOut') = Len(dOut) - 1
      /\ \A i \in 1..(Len(dOut) - 1) : dOut'[i] = dOut[i + 1]
      /\ Head(dOut) = dOut[1] /\ Head(dOut) \in Nat
  BY <1>1, TailFacts
<1>3. /\ daemonGot' \in Seq(Nat) /\ Len(daemonGot') = Len(daemonGot) + 1
      /\ \A i \in 1..Len(daemonGot) : daemonGot'[i] = daemonGot[i]
      /\ daemonGot'[Len(daemonGot) + 1] = dOut[1]
  BY <1>1, <1>2, AppendFacts
<1>4. TypeOK'
  BY <1>1, <1>2, <1>3 DEF TypeOK
<1>5. QueueInv' /\ DownInv' /\ TeardownInv'
  BY <1>1 DEF QueueInv, DownInv, TeardownInv
<1>6. ASSUME NEW i \in 1..Len(daemonGot') PROVE daemonGot'[i] = i - 1
  <2>1. CASE i \in 1..Len(daemonGot)
    BY <1>3, <2>1 DEF UpInv
  <2>2. CASE i = Len(daemonGot) + 1
    BY <1>1, <1>2, <1>3, <2>2 DEF UpInv
  <2>3. QED
    BY <1>1, <1>3, <2>1, <2>2
<1>7. ASSUME NEW i \in 1..Len(dOut') PROVE dOut'[i] = Len(daemonGot') + i - 1
  BY <1>1, <1>2, <1>3 DEF UpInv
<1>8. UpInv'
  BY <1>1, <1>2, <1>3, <1>6, <1>7 DEF UpInv, TypeOK
<1>9. QED
  BY <1>4, <1>5, <1>8

\* The webview reads a frame.
LEMMA WebviewReadsIInv == IInv /\ WebviewReads => IInv'
<1> SUFFICES ASSUME IInv, WebviewReads PROVE IInv'
  OBVIOUS
<1> USE DEF IInv
<1>1. /\ wOut \in Seq(Nat) /\ wOut # <<>> /\ webviewGot \in Seq(Nat)
      /\ Len(webviewGot) \in Nat
      /\ webviewGot' = Append(webviewGot, Head(wOut)) /\ wOut' = Tail(wOut)
      /\ UNCHANGED <<ws, closeCode, daemonWs, conn, upVars, emitted>>
  BY DEF TypeOK, WebviewReads
<1>2. /\ wOut' \in Seq(Nat) /\ Len(wOut) \in Nat \ {0} /\ Len(wOut') = Len(wOut) - 1
      /\ \A i \in 1..(Len(wOut) - 1) : wOut'[i] = wOut[i + 1]
      /\ Head(wOut) = wOut[1] /\ Head(wOut) \in Nat
  BY <1>1, TailFacts
<1>3. /\ webviewGot' \in Seq(Nat) /\ Len(webviewGot') = Len(webviewGot) + 1
      /\ \A i \in 1..Len(webviewGot) : webviewGot'[i] = webviewGot[i]
      /\ webviewGot'[Len(webviewGot) + 1] = wOut[1]
  BY <1>1, <1>2, AppendFacts
<1>4. TypeOK'
  BY <1>1, <1>2, <1>3 DEF TypeOK
<1>5. QueueInv' /\ UpInv' /\ TeardownInv'
  BY <1>1 DEF QueueInv, UpInv, TeardownInv
<1>6. ASSUME NEW i \in 1..Len(webviewGot') PROVE webviewGot'[i] = i
  <2>1. CASE i \in 1..Len(webviewGot)
    BY <1>3, <2>1 DEF DownInv
  <2>2. CASE i = Len(webviewGot) + 1
    BY <1>1, <1>2, <1>3, <2>2 DEF DownInv
  <2>3. QED
    BY <1>1, <1>3, <2>1, <2>2
<1>7. ASSUME NEW i \in 1..Len(wOut') PROVE wOut'[i] = Len(webviewGot') + i
  <2>1. i \in 1..(Len(wOut) - 1) /\ i + 1 \in 1..Len(wOut)
    BY <1>2
  <2>2. wOut[i + 1] = Len(webviewGot) + (i + 1)
    BY <2>1 DEF DownInv
  <2>3. QED
    BY <1>1, <1>2, <1>3, <2>1, <2>2
<1>8. DownInv'
  <2>1. /\ Len(webviewGot') + Len(wOut') = Len(webviewGot) + Len(wOut)
        /\ Len(wOut') <= Len(wOut) /\ Len(wOut') \in Nat
        /\ emitted' = emitted /\ webviewClosed' = webviewClosed
    BY <1>1, <1>2, <1>3
  <2>2. /\ Len(webviewGot) + Len(wOut) <= emitted
        /\ Len(wOut) <= MaxBuffered + 1
        /\ ~webviewClosed => Len(webviewGot) + Len(wOut) = emitted /\ Len(wOut) <= MaxBuffered
    BY DEF DownInv
  <2>3. Len(wOut') <= MaxBuffered + 1 /\ (~webviewClosed' => Len(wOut') <= MaxBuffered)
    BY <1>2, <2>1, <2>2
  <2>4. QED
    BY <1>6, <1>7, <2>1, <2>2, <2>3 DEF DownInv
<1>9. QED
  BY <1>4, <1>5, <1>8

\* Every step of the bridge, of its peers and of its sockets keeps IInv.
LEMMA NextIInv == IInv /\ [Next]_vars => IInv'
<1> SUFFICES ASSUME IInv, [Next]_vars PROVE IInv'
  OBVIOUS
<1>1. CASE Open
  BY <1>1 DEF Open, IInv, TypeOK, QueueInv, UpInv, DownInv, TeardownInv
<1>2. CASE DaemonStartsClosing
  BY <1>2 DEF DaemonStartsClosing, IInv, TypeOK, QueueInv, UpInv, DownInv, TeardownInv
<1>3. CASE UNCHANGED vars
  BY <1>3 DEF IInv, TypeOK, QueueInv, UpInv, DownInv, TeardownInv
<1>4. QED
  BY <1>1, <1>2, <1>3, DaemonOpenIInv, DaemonMessageIInv, DaemonClosedIInv,
     WebviewSendsIInv, WebviewCloseIInv, DaemonReadsIInv, WebviewReadsIInv DEF Next

\* Each numbered frame is where IInv says, in every reachable state.
THEOREM Invariance == SafeSpec => []IInv
  BY InitIInv, NextIInv, PTL DEF SafeSpec

\* Type correctness of the connection.
THEOREM TypeCorrect == Spec => []TypeOK
<1>1. IInv => TypeOK
  BY DEF IInv
<1>2. QED
  BY <1>1, Invariance, PTL DEF Spec

\* Every limit on a buffer holds: the queue, both send buffers.
THEOREM Bounded == Spec => []BuffersBounded
<1>1. IInv => BuffersBounded
  BY DEF IInv, QueueInv, UpInv, DownInv, BuffersBounded
<1>2. QED
  BY <1>1, Invariance, PTL DEF Spec

\* The first frame the daemon is sent is the bridge's auth frame, sent once,
\* and no other frame that says auth is sent but one too large to be scanned.
THEOREM Authenticated == Spec => []AuthFirstAndOnce
<1>1. IInv => AuthFirstAndOnce
  <2> SUFFICES ASSUME IInv, NEW i \in 1..Len(DaemonSent)
               PROVE  DaemonSent[i] = i - 1
    BY DEF AuthFirstAndOnce, IInv, TypeOK, SaysAuth, TooLargeToScan
  <2>1. /\ daemonGot \in Seq(Nat) /\ dOut \in Seq(Nat)
        /\ Len(daemonGot) \in Nat /\ Len(dOut) \in Nat
        /\ Len(DaemonSent) = Len(daemonGot) + Len(dOut)
    BY DEF IInv, TypeOK, DaemonSent
  <2>2. CASE i <= Len(daemonGot)
    BY <2>1, <2>2 DEF IInv, UpInv, DaemonSent
  <2>3. CASE i > Len(daemonGot)
    <3>1. /\ i - Len(daemonGot) \in 1..Len(dOut)
          /\ DaemonSent[i] = dOut[i - Len(daemonGot)]
      BY <2>1, <2>3 DEF DaemonSent
    <3>2. QED
      BY <2>1, <3>1 DEF IInv, UpInv
  <2>4. QED
    BY <2>1, <2>2, <2>3
<1>2. QED
  BY <1>1, Invariance, PTL DEF Spec

\* The bridge never gives the webview the wrong reason for a close.
THEOREM CloseCodes == Spec => CloseCodeBlamesTheRightSide
<1>1. IInv /\ [Next]_vars => [CodeIsRight]_vars
  <2> SUFFICES ASSUME IInv, [Next]_vars, closeCode = "none", closeCode' # "none"
               PROVE  CodeIsRight
    BY DEF CodeIsRight
  <2> USE DEF CodeIsRight
  <2>1. CASE DaemonMessage \/ DaemonClosed \/ WebviewClose
    BY <2>1 DEF DaemonMessage, DaemonClosed, WebviewClose, CloseBoth
  <2>2. CASE WebviewSends
    BY <2>2 DEF WebviewSends, Message, Forward, Enqueue, Refuse, CloseBoth, IInv, QueueInv,
                TypeOK
  <2>3. ~(Open \/ DaemonOpen \/ DaemonStartsClosing \/ DaemonReads \/ WebviewReads)
    BY DEF Open, DaemonOpen, DaemonStartsClosing, DaemonReads, WebviewReads
  <2>4. QED
    BY <2>1, <2>2, <2>3 DEF Next
<1>2. QED
  BY <1>1, Invariance, PTL DEF Spec, SafeSpec, CloseCodeBlamesTheRightSide

----------------------------------------------------------------------------
\* Refinement: each direction implements a FIFO pipe.

\* The daemon reads the auth frame first: what it read before is no frame
\* of the pipe, and every later frame is the next one the pipe delivers.
LEMMA DaemonReadsRefines ==
  ASSUME IInv, DaemonReads
  PROVE  Up!Deliver \/ UNCHANGED Up!pipeVars
<1>1. /\ daemonGot \in Seq(Nat) /\ dOut \in Seq(Nat) /\ dOut # <<>>
      /\ Len(daemonGot) \in Nat /\ accepted \in Nat
      /\ daemonGot' = Append(daemonGot, Head(dOut))
      /\ accepted' = accepted /\ webviewClosed' = webviewClosed
  BY DEF IInv, TypeOK, DaemonReads
<1>2. /\ Len(dOut) \in Nat \ {0} /\ Head(dOut) = dOut[1] /\ Head(dOut) \in Nat
  BY <1>1, TailFacts
<1>3. Head(dOut) = Len(daemonGot) /\ Len(daemonGot) <= accepted
  BY <1>1, <1>2 DEF IInv, UpInv
<1>4. CASE daemonGot = <<>>
  <2>1. daemonGot' = <<Head(dOut)>>
    BY <1>1, <1>4
  <2>2. daemonGot' # <<>> /\ Tail(daemonGot') = <<>>
    BY <2>1, <1>2
  <2>3. QED
    BY <1>1, <1>4, <2>2 DEF Up!pipeVars
<1>5. CASE daemonGot # <<>>
  <2>1. /\ Tail(daemonGot) \in Seq(Nat) /\ Len(Tail(daemonGot)) = Len(daemonGot) - 1
        /\ Len(daemonGot) \in Nat \ {0}
    BY <1>1, <1>5, TailFacts
  <2>2. daemonGot' # <<>> /\ Tail(daemonGot') = Append(Tail(daemonGot), Head(dOut))
    BY <1>1, <1>2, <1>5, TailAppendFacts, AppendFacts
  <2>3. QED
    BY <1>1, <1>3, <1>5, <2>1, <2>2 DEF Up!Deliver
<1>6. QED
  BY <1>4, <1>5

\* The webview reads the next frame of the daemon's.
LEMMA WebviewReadsRefines ==
  ASSUME IInv, WebviewReads
  PROVE  Down!Deliver
<1>1. /\ wOut \in Seq(Nat) /\ wOut # <<>> /\ Len(webviewGot) \in Nat /\ emitted \in Nat
      /\ webviewGot' = Append(webviewGot, Head(wOut))
      /\ emitted' = emitted /\ webviewClosed' = webviewClosed
  BY DEF IInv, TypeOK, WebviewReads
<1>2. Len(wOut) \in Nat \ {0} /\ Head(wOut) = wOut[1]
  BY <1>1, TailFacts
<1>3. Head(wOut) = Len(webviewGot) + 1 /\ Len(webviewGot) < emitted
  BY <1>1, <1>2 DEF IInv, DownInv
<1>4. QED
  BY <1>1, <1>3 DEF Down!Deliver

\* A step that takes no frame and delivers none leaves a pipe alone or shuts it.
LEMMA OtherStepsRefine ==
  ASSUME IInv,
         \/ Open \/ DaemonOpen \/ DaemonStartsClosing \/ DaemonClosed \/ WebviewClose
         \/ UNCHANGED vars
  PROVE  [Up!Next]_(Up!pipeVars) /\ [Down!Next]_(Down!pipeVars)
  BY DEF IInv, TypeOK, TeardownInv, Open, DaemonOpen, DaemonStartsClosing, DaemonClosed,
     WebviewClose, ForgetPending, Up!Next, Up!Shut, Up!pipeVars, Down!Next, Down!Shut,
     Down!pipeVars

\* A frame of the daemon enters the pipe to the webview.
LEMMA DaemonMessageRefines ==
  ASSUME IInv, DaemonMessage
  PROVE  [Up!Next]_(Up!pipeVars) /\ [Down!Next]_(Down!pipeVars)
<1>1. daemonGot' = daemonGot /\ accepted' = accepted /\ webviewGot' = webviewGot
      /\ webviewClosed \in BOOLEAN
  BY DEF DaemonMessage, IInv, TypeOK
<1>2. CASE webviewClosed
  BY <1>1, <1>2 DEF DaemonMessage, Up!pipeVars, Down!pipeVars
<1>3. CASE ~webviewClosed
  <2>1. emitted' = emitted + 1 /\ webviewClosed' \in BOOLEAN
    BY <1>1, <1>3 DEF DaemonMessage, CloseBoth, ForgetPending
  <2>2. QED
    BY <1>1, <1>3, <2>1 DEF Up!Next, Up!Shut, Up!pipeVars, Down!Next, Down!Take
<1>4. QED
  BY <1>2, <1>3

\* A frame of the webview enters the pipe to the daemon.
LEMMA WebviewSendsRefines ==
  ASSUME IInv, WebviewSends
  PROVE  [Up!Next]_(Up!pipeVars) /\ [Down!Next]_(Down!pipeVars)
<1>1. CASE UNCHANGED vars
  BY <1>1, OtherStepsRefine
<1>2. CASE ~UNCHANGED vars
  <2>1. accepted \in Nat /\ accepted + 1 # WebviewAuth /\ webviewClosed \in BOOLEAN
    BY DEF IInv, TypeOK
  <2>2. /\ ws = "open" /\ accepted' = accepted + 1 /\ UNCHANGED <<daemonGot, downVars>>
        /\ Forward(accepted + 1) \/ Enqueue(accepted + 1) \/ Refuse
    BY <1>2, <2>1 DEF WebviewSends, Message, IsAuthFrame, SaysAuth, TooLargeToScan
  <2>3. ~webviewClosed /\ webviewClosed' \in BOOLEAN
    BY <2>1, <2>2 DEF IInv, TeardownInv, Forward, Enqueue, Refuse, CloseBoth, ForgetPending
  <2>4. QED
    BY <2>2, <2>3 DEF Up!Next, Up!Take, Down!Next, Down!Shut, Down!pipeVars
<1>3. QED
  BY <1>1, <1>2

\* Safety half of UpPipe and DownPipe: in both directions the bridge is a
\* FIFO pipe that loses a frame only by closing both sockets.
THEOREM PipesRefined == Spec => Up!SafeSpec /\ Down!SafeSpec
<1>1. Init => Up!Init /\ Down!Init
  BY DEF Init, Up!Init, Down!Init
<1>2. IInv /\ [Next]_vars => [Up!Next]_(Up!pipeVars) /\ [Down!Next]_(Down!pipeVars)
  <2> SUFFICES ASSUME IInv, [Next]_vars
               PROVE  [Up!Next]_(Up!pipeVars) /\ [Down!Next]_(Down!pipeVars)
    OBVIOUS
  <2>1. CASE DaemonReads
    BY <2>1, DaemonReadsRefines DEF DaemonReads, Up!Next, Down!pipeVars
  <2>2. CASE WebviewReads
    BY <2>2, WebviewReadsRefines DEF WebviewReads, Down!Next, Up!pipeVars
  <2>3. QED
    BY <2>1, <2>2, OtherStepsRefine, DaemonMessageRefines, WebviewSendsRefines DEF Next
<1>3. QED
  BY <1>1, <1>2, Invariance, PTL DEF Spec, SafeSpec, Up!SafeSpec, Down!SafeSpec

----------------------------------------------------------------------------
\* The client.

USE ClientAssumption

\* The sockets are what the client believes them to be.
NetInv ==
  /\ \A s \in Sockets : readyState[s] = "CONNECTING" => s = made /\ connecting = "socket"
  /\ connecting = "socket" => made \in Sockets /\ readyState[made] = "CONNECTING"
  /\ \A s \in Sockets : readyState[s] = "OPEN" => s = socket /\ connecting = "none"

\* A call waits where it can be answered.
CallInv ==
  \A c \in Calls :
    /\ call[c] = "idle" => attempts[c] = 0
    /\ call[c] = "backoff" => attempts[c] = 1
    /\ call[c] = "connecting" => attempts[c] \in 1..2 /\ connecting # "none"
    /\ call[c] = "pending" => /\ carrier[c] \in Sockets
                              /\ readyState[carrier[c]] \in {"OPEN", "CLOSING"}

\* The daemon was asked for what is subscribed.
SubInv == \A s \in Sockets : readyState[s] = "OPEN" => daemonSubs[s] = subscribed

\* What every step of the client keeps.
ClientInv == ClientTypeOK /\ NetInv /\ CallInv /\ SubInv

\* The invariant says what the three properties say.
LEMMA InvSuffices == ClientInv => OneLiveSocket /\ PendingFailsFast /\ SubscriptionsArmed
<1> SUFFICES ASSUME ClientInv
             PROVE  OneLiveSocket /\ PendingFailsFast /\ SubscriptionsArmed
  OBVIOUS
<1>1. OneLiveSocket
  BY DEF ClientInv, NetInv, OneLiveSocket
<1>2. PendingFailsFast
  BY DEF ClientInv, CallInv, PendingFailsFast
<1>3. SubscriptionsArmed
  <2> SUFFICES ASSUME IsOpen(socket) PROVE daemonSubs[socket] = subscribed
    BY DEF SubscriptionsArmed
  <2>1. socket \in Sockets
    BY ClientAssumption DEF ClientInv, ClientTypeOK, IsOpen, NoSocket, Sockets
  <2>2. QED
    BY <2>1 DEF ClientInv, SubInv, IsOpen
<1>4. QED
  BY <1>1, <1>2, <1>3

\* Nothing is connected at first.
LEMMA InvInit == ClientInit => ClientInv
  BY ClientAssumption
     DEF ClientInit, ClientInv, ClientTypeOK, NetInv, CallInv, SubInv, Sockets,
         NoSocket, CallState

\* The socket a caller finds open is one of the sockets.
LEMMA OpenIsASocket ==
  ASSUME ClientInv, IsOpen(socket)
  PROVE  socket \in Sockets /\ readyState[socket] = "OPEN" /\ connecting = "none"
  BY ClientAssumption DEF ClientInv, ClientTypeOK, NetInv, IsOpen, NoSocket, Sockets

\* A call is sent or asks for a connection.
LEMMA CallConnectsKeeps ==
  ASSUME NEW c \in Calls, ClientInv, call[c] \in {"idle", "backoff"}, CallConnects(c)
  PROVE  ClientInv'
<1> USE DEF subVars
<1>1. attempts[c] \in 0..1 /\ attempts' = [attempts EXCEPT ![c] = @ + 1]
      /\ attempts'[c] \in 1..2 /\ \A e \in Calls \ {c} : attempts'[e] = attempts[e]
  BY DEF ClientInv, CallInv, ClientTypeOK, CallConnects
<1>2. CASE IsOpen(socket)
  <2>1. /\ call'[c] = "pending" /\ carrier'[c] = socket
        /\ \A e \in Calls \ {c} : call'[e] = call[e] /\ carrier'[e] = carrier[e]
    BY <1>2 DEF CallConnects, SendOn
  <2>2. ClientTypeOK'
    BY <1>1, <1>2 DEF CallConnects, SendOn, ClientInv, ClientTypeOK, CallState
  <2>3. CallInv'
    BY <1>1, <1>2, <2>1, OpenIsASocket DEF CallConnects, ClientInv, CallInv
  <2>4. NetInv' /\ SubInv'
    BY <1>2 DEF CallConnects, ClientInv, NetInv, SubInv
  <2>5. QED
    BY <2>2, <2>3, <2>4 DEF ClientInv
<1>3. CASE ~IsOpen(socket)
  <2>1. /\ call'[c] = "connecting" /\ carrier' = carrier
        /\ \A e \in Calls \ {c} : call'[e] = call[e]
    BY <1>3 DEF CallConnects, ClientInv, ClientTypeOK
  <2>2. /\ connecting' # "none" /\ connecting' \in {"ticket", connecting}
        /\ connecting' = "socket" <=> connecting = "socket"
        /\ state' \in {"connecting", state}
    BY <1>3 DEF CallConnects, StartConnect
  <2>3. \A s \in Sockets : readyState[s] # "OPEN"
    BY <1>3, ClientAssumption DEF ClientInv, NetInv, IsOpen, NoSocket, Sockets
  <2>4. ClientTypeOK'
    BY <1>1, <1>3, <2>2 DEF CallConnects, ClientInv, ClientTypeOK, CallState
  <2>5. CallInv'
    BY <1>1, <2>1, <2>2 DEF CallConnects, ClientInv, CallInv
  <2>6. NetInv' /\ SubInv'
    BY <1>3, <2>2, <2>3 DEF CallConnects, ClientInv, NetInv, SubInv
  <2>7. QED
    BY <2>4, <2>5, <2>6 DEF ClientInv
<1>4. QED
  BY <1>2, <1>3

\* A domain is subscribed.
LEMMA WsSubscribeKeeps ==
  ASSUME NEW d \in Domains, ClientInv, WsSubscribe(d)
  PROVE  ClientInv'
<1> USE DEF callVars
<1>1. CASE IsOpen(socket)
  <2>1. daemonSubs' = [daemonSubs EXCEPT ![socket] = @ \cup ({d} \ subscribed)]
        /\ UNCHANGED <<waiting, connecting, state, readyState, made, socket, callVars>>
    BY <1>1 DEF WsSubscribe
  <2>2. daemonSubs'[socket] = subscribed'
    BY <2>1, <1>1, OpenIsASocket DEF WsSubscribe, ClientInv, ClientTypeOK, SubInv
  <2>3. ClientTypeOK'
    BY <2>1 DEF WsSubscribe, ClientInv, ClientTypeOK
  <2>4. SubInv'
    BY <2>1, <2>2 DEF ClientInv, NetInv, SubInv
  <2>5. NetInv' /\ CallInv'
    BY <2>1 DEF ClientInv, NetInv, CallInv
  <2>6. QED
    BY <2>3, <2>4, <2>5 DEF ClientInv
<1>2. CASE ~IsOpen(socket)
  <2>1. /\ connecting' # "none" /\ connecting' \in {"ticket", connecting}
        /\ connecting' = "socket" <=> connecting = "socket"
        /\ state' \in {"connecting", state}
    BY <1>2 DEF WsSubscribe, StartConnect
  <2>2. \A s \in Sockets : readyState[s] # "OPEN"
    BY <1>2, ClientAssumption DEF ClientInv, NetInv, IsOpen, NoSocket, Sockets
  <2>3. ClientTypeOK'
    BY <1>2, <2>1 DEF WsSubscribe, ClientInv, ClientTypeOK
  <2>4. NetInv' /\ CallInv' /\ SubInv'
    BY <1>2, <2>1, <2>2 DEF WsSubscribe, ClientInv, NetInv, CallInv, SubInv
  <2>5. QED
    BY <2>3, <2>4 DEF ClientInv
<1>3. QED
  BY <1>1, <1>2

\* connect() failed: each caller backs off or gives up.
LEMMA AfterFailure ==
  ASSUME NEW c \in Calls, ClientInv
  PROVE  /\ AfterFailedConnect(c) \in CallState \ {"connecting"}
         /\ AfterFailedConnect(c) = "idle" => call[c] = "idle"
         /\ AfterFailedConnect(c) = "pending" => call[c] = "pending"
         /\ AfterFailedConnect(c) = "backoff" => attempts[c] = 1
         /\ AfterFailAllPending(c) \in CallState \ {"connecting", "pending"}
         /\ AfterFailAllPending(c) = "idle" => call[c] = "idle"
         /\ AfterFailAllPending(c) = "backoff" => attempts[c] = 1
  BY DEF AfterFailedConnect, AfterFailAllPending, ClientInv, ClientTypeOK, CallInv,
         CallState

\* The ticket comes, or cannot be fetched.
LEMMA TicketFetchedKeeps ==
  ASSUME ClientInv, TicketFetched
  PROVE  ClientInv'
<1> USE DEF callVars, subVars
<1>1. CASE made < MaxSockets /\ connecting' = "socket"
  <2>1. made + 1 \in Sockets /\ made' = made + 1
        /\ readyState' = [readyState EXCEPT ![made + 1] = "CONNECTING"]
        /\ UNCHANGED <<socket, state, callVars, subVars>> /\ connecting = "ticket"
    BY <1>1, ClientAssumption
       DEF TicketFetched, FailConnect, ClientInv, ClientTypeOK, Sockets
  <2>2. ClientTypeOK'
    BY <1>1, <2>1, ClientAssumption DEF ClientInv, ClientTypeOK, Sockets
  <2>3. \A s \in Sockets : readyState[s] \notin {"CONNECTING", "OPEN"}
    BY <2>1 DEF ClientInv, NetInv
  <2>4. NetInv' /\ SubInv'
    BY <1>1, <2>1, <2>3 DEF ClientInv, ClientTypeOK, NetInv, SubInv
  <2>5. \A c \in Calls : call[c] = "pending" => carrier[c] # made + 1
    BY <2>1 DEF ClientInv, ClientTypeOK
  <2>6. CallInv'
    BY <1>1, <2>1, <2>5 DEF ClientInv, ClientTypeOK, CallInv
  <2>7. QED
    BY <2>2, <2>4, <2>6 DEF ClientInv
<1>2. CASE connecting' # "socket"
  <2>1. /\ FailConnect /\ connecting = "ticket"
        /\ call' = [c \in Calls |-> AfterFailedConnect(c)]
        /\ UNCHANGED <<readyState, made, socket, carrier, attempts, subscribed, daemonSubs>>
    BY <1>2 DEF TicketFetched
  <2>2. ClientTypeOK'
    BY <2>1, AfterFailure DEF FailConnect, ClientInv, ClientTypeOK
  <2>3. NetInv' /\ SubInv'
    BY <2>1 DEF FailConnect, ClientInv, NetInv, SubInv
  <2>4. CallInv'
    BY <2>1, AfterFailure DEF ClientInv, CallInv
  <2>5. QED
    BY <2>2, <2>3, <2>4 DEF ClientInv
<1>3. QED
  BY <1>1, <1>2 DEF TicketFetched, FailConnect

\* The socket opens.
LEMMA OnOpenKeeps ==
  ASSUME ClientInv, OnOpen
  PROVE  ClientInv'
<1>1. made \in Sockets /\ connecting' = "none" /\ socket' = made /\ made' = made
  BY DEF ClientInv, NetInv, OnOpen
<1>2. ClientTypeOK'
  <2>1. call' \in [Calls -> CallState] /\ carrier' \in [Calls -> 0..made]
    BY <1>1 DEF OnOpen, SendOn, In, ClientInv, ClientTypeOK, Sockets, CallState
<2>2. readyState' \in [Sockets -> {"none", "CONNECTING", "OPEN", "CLOSING", "CLOSED"}]
        /\ daemonSubs' \in [Sockets -> SUBSET Domains]
    BY <1>1 DEF OnOpen, ClientInv, ClientTypeOK
  <2>3. QED
    BY <1>1, <2>1, <2>2 DEF OnOpen, ClientInv, ClientTypeOK, Sockets
<1>3. NetInv'
  BY <1>1 DEF OnOpen, ClientInv, ClientTypeOK, NetInv
<1>4. SubInv'
  BY <1>1 DEF OnOpen, ClientInv, ClientTypeOK, NetInv, SubInv
<1>5. CallInv'
  BY <1>1 DEF OnOpen, SendOn, In, ClientInv, ClientTypeOK, NetInv, CallInv
<1>6. QED
  BY <1>2, <1>3, <1>4, <1>5 DEF ClientInv

\* It does not.
LEMMA OnConnectFailedKeeps ==
  ASSUME ClientInv, OnConnectFailed
  PROVE  ClientInv'
<1>1. made \in Sockets
  BY DEF ClientInv, NetInv, OnConnectFailed
<1>2. ClientTypeOK'
  BY <1>1, AfterFailure DEF OnConnectFailed, FailConnect, ClientInv, ClientTypeOK
<1>3. NetInv' /\ SubInv'
  BY <1>1 DEF OnConnectFailed, FailConnect, ClientInv, ClientTypeOK, NetInv, SubInv
<1>4. CallInv'
  BY AfterFailure DEF OnConnectFailed, ClientInv, CallInv
<1>5. QED
  BY <1>2, <1>3, <1>4 DEF ClientInv

\* A socket closes.
LEMMA ClosingKeeps ==
  ASSUME NEW s \in Sockets, ClientInv, StartsClosing(s) \/ OnClose(s)
  PROVE  ClientInv'
<1> USE DEF callVars, subVars
<1>1. CASE StartsClosing(s)
  <2>1. ClientTypeOK'
    BY <1>1 DEF StartsClosing, ClientInv, ClientTypeOK
  <2>2. NetInv' /\ SubInv'
    BY <1>1 DEF StartsClosing, ClientInv, ClientTypeOK, NetInv, SubInv
  <2>3. CallInv'
    BY <1>1 DEF StartsClosing, ClientInv, ClientTypeOK, CallInv
  <2>4. QED
    BY <2>1, <2>2, <2>3 DEF ClientInv
<1>2. CASE OnClose(s)
  <2>1. ClientTypeOK'
    BY <1>2 DEF OnClose, ClientInv, ClientTypeOK, CallState, NoSocket
  <2>2. NetInv' /\ SubInv'
    BY <1>2 DEF OnClose, ClientInv, ClientTypeOK, NetInv, SubInv
  <2>3. CallInv'
    BY <1>2 DEF OnClose, ClientInv, CallInv
  <2>4. QED
    BY <2>1, <2>2, <2>3 DEF ClientInv
<1>3. QED
  BY <1>1, <1>2

\* A call is settled by its answer or its timer.
LEMMA SettlingKeeps ==
  ASSUME NEW c \in Calls, ClientInv, OnResponse(c) \/ CallTimeout(c)
  PROVE  ClientInv'
<1> USE DEF netVars, subVars
<1>1. /\ call' \in [Calls -> CallState]
      /\ \A e \in Calls : call'[e] = call[e] \/ call'[e] \in {"resolved", "failed", "timedOut"}
  BY DEF OnResponse, CallTimeout, ClientInv, ClientTypeOK, CallState
<1>2. UNCHANGED <<netVars, carrier, attempts, subVars>>
  BY DEF OnResponse, CallTimeout
<1>3. ClientTypeOK' /\ NetInv' /\ SubInv'
  BY <1>1, <1>2 DEF ClientInv, ClientTypeOK, NetInv, SubInv
<1>4. CallInv'
  BY <1>1, <1>2 DEF ClientInv, CallInv
<1>5. QED
  BY <1>3, <1>4 DEF ClientInv

\* Every step keeps the invariant.
LEMMA InvStep == ClientInv /\ [ClientNext]_clientVars => ClientInv'
<1> SUFFICES ASSUME ClientInv, [ClientNext]_clientVars PROVE ClientInv'
  OBVIOUS
<1>1. ASSUME NEW c \in Calls, WsCall(c) \/ BackoffOver(c) PROVE ClientInv'
  BY <1>1, CallConnectsKeeps DEF WsCall, BackoffOver
<1>2. ASSUME NEW d \in Domains, WsSubscribe(d) PROVE ClientInv'
  BY <1>2, WsSubscribeKeeps
<1>3. CASE TicketFetched
  BY <1>3, TicketFetchedKeeps
<1>4. CASE OnOpen
  BY <1>4, OnOpenKeeps
<1>5. CASE OnConnectFailed
  BY <1>5, OnConnectFailedKeeps
<1>6. ASSUME NEW s \in Sockets, StartsClosing(s) \/ OnClose(s) PROVE ClientInv'
  BY <1>6, ClosingKeeps
<1>7. ASSUME NEW c \in Calls, OnResponse(c) \/ CallTimeout(c) PROVE ClientInv'
  BY <1>7, SettlingKeeps
<1>8. CASE UNCHANGED clientVars
  BY <1>8
     DEF clientVars, netVars, callVars, subVars, ClientInv, ClientTypeOK,
         NetInv, CallInv, SubInv
<1>9. QED
  BY <1>1, <1>2, <1>3, <1>4, <1>5, <1>6, <1>7, <1>8 DEF ClientNext

\* In every reachable state the module's variables agree with the sockets' own
\* states, and each call and subscription is on a socket that can carry it.
THEOREM ClientInvariant == ClientSpec => []ClientInv
  BY InvInit, InvStep, PTL DEF ClientSpec, ClientSafeSpec

\* Every reachable state of the client is well typed, with at most two connects
\* asked for by any call (wsCall, ws.ts:178-193).
THEOREM ClientTyped == ClientSpec => []ClientTypeOK
<1>1. ClientInv => ClientTypeOK
  BY DEF ClientInv
<1>2. QED
  BY <1>1, ClientInvariant, PTL

\* At most one socket is connecting or open, however many callers connect at
\* once and whatever is still closing (ws.ts:111-114, 160-163).
THEOREM OneSocket == ClientSpec => []OneLiveSocket
  BY InvSuffices, ClientInvariant, PTL

\* No pending call is left on a socket that is gone (ws.ts:148-151).
THEOREM NoneLeftPending == ClientSpec => []PendingFailsFast
  BY InvSuffices, ClientInvariant, PTL

\* The open socket carries every subscription made so far (ws.ts:134).
THEOREM Armed == ClientSpec => []SubscriptionsArmed
  BY InvSuffices, ClientInvariant, PTL
============================================================================
