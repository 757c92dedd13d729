-------------------------------- MODULE Pty --------------------------------
(***************************************************************************)
(* The terminal sessions of src/bun/pty.ts: the session map, the shells    *)
(* behind the ptys, the file descriptors of the pty masters, and the       *)
(* /app/pty requests, whose handlers read the request body in the middle.  *)
(*                                                                         *)
(* Between awaits a handler, a timer or a callback runs alone, so each     *)
(* stretch is one action.  What moves on its own is the operating system:  *)
(* a shell writes, exits, and its pty reaches end of file in any order     *)
(* relative to the exit notification and to requests in flight.            *)
(*                                                                         *)
(* Sessions are numbered as they are created; output is counted in chunks, *)
(* chunk n of a session being the n-th that its read loop got.             *)
(***************************************************************************)
EXTENDS Naturals, Sequences, FiniteSets, Functions

CONSTANTS MaxSessions,    \* MAX_SESSIONS
          ScrollbackCap,  \* SCROLLBACK_CAP, in chunks
          Fds,            \* descriptor numbers the kernel hands out
          Requests,       \* requests in flight at the same time
          Subscribers,    \* SSE streams
          MaxCreated,     \* bound: sessions ever created
          MaxOutput       \* bound: chunks all the ptys ever carry

Sessions == 1..MaxCreated
None == 0

ASSUME PtyAssumption ==
  /\ MaxSessions \in Nat /\ ScrollbackCap \in Nat \ {0} /\ None \notin Fds
  /\ MaxCreated \in Nat /\ MaxOutput \in Nat

VARIABLES
  created,   \* how many sessions were created
  listed,    \* the keys of the `sessions` map
  alive,     \* session -> s.alive
  shell,     \* session -> the shell process
  slaveOpen, \* session -> some process still has the pty's slave open
  masterFd,  \* session -> s.masterFd, which is never cleared
  fdOwner,   \* descriptor -> the session whose pty it refers to now
  written,   \* session -> chunks written to the slave
  readCount, \* session -> chunks the read loop got
  dropped,   \* session -> chunks dropped from the scrollback
  timers,    \* session -> the timers DELETE armed
  request,   \* request -> the handler suspended in readJsonBody
  stream     \* subscriber -> its stream

ttyVars == <<shell, slaveOpen, fdOwner, written>>
outVars == <<readCount, dropped>>
ptyVars == <<created, listed, alive, ttyVars, masterFd, outVars, timers, request, stream>>

Idle == [kind |-> "idle", session |-> None]
NoStream == [session |-> None, open |-> FALSE, got |-> <<>>, exit |-> FALSE]

PtyInit ==
  /\ created = 0 /\ listed = {}
  /\ alive = [s \in Sessions |-> FALSE] /\ shell = [s \in Sessions |-> "none"]
  /\ slaveOpen = [s \in Sessions |-> FALSE] /\ masterFd = [s \in Sessions |-> None]
  /\ fdOwner = [f \in Fds |-> None]
  /\ written = [s \in Sessions |-> 0] /\ readCount = [s \in Sessions |-> 0]
  /\ dropped = [s \in Sessions |-> 0] /\ timers = [s \in Sessions |-> {}]
  /\ request = [r \in Requests |-> Idle] /\ stream = [u \in Subscribers |-> NoStream]

----------------------------------------------------------------------------
\* Requests that read a body: what is checked before the body arrives, and
\* what is done after.

Await(r, verb, s) ==
  /\ request[r] = Idle
  /\ request' = [request EXCEPT ![r] = [kind |-> verb, session |-> s]]
  /\ UNCHANGED <<created, listed, alive, ttyVars, masterFd, outVars, timers, stream>>

Live == {s \in listed : alive[s]}

\* POST /sessions: refused at the limit, counted before the body is read.
CreateRequest(r) == Cardinality(Live) < MaxSessions /\ Await(r, "create", None)

\* createSession: a pty, a shell behind it, the read loop started.
CreateSession(r) ==
  /\ request[r].kind = "create" /\ created < MaxCreated
  /\ LET s == created + 1
     IN  \E f \in Fds :
           /\ fdOwner[f] = None
           /\ created' = s /\ listed' = listed \cup {s}
           /\ alive' = [alive EXCEPT ![s] = TRUE]
           /\ shell' = [shell EXCEPT ![s] = "running"]
           /\ slaveOpen' = [slaveOpen EXCEPT ![s] = TRUE]
           /\ masterFd' = [masterFd EXCEPT ![s] = f]
           /\ fdOwner' = [fdOwner EXCEPT ![f] = s]
  /\ request' = [request EXCEPT ![r] = Idle]
  /\ UNCHANGED <<written, outVars, timers, stream>>

\* openpty or the spawn failed: the descriptors are released again.
CreateFails(r) ==
  /\ request[r].kind = "create"
  /\ request' = [request EXCEPT ![r] = Idle]
  /\ UNCHANGED <<created, listed, alive, ttyVars, masterFd, outVars, timers, stream>>

\* POST /input checks s.alive before the body, POST /resize does not.
InputRequest(r, s) == s \in listed /\ alive[s] /\ Await(r, "input", s)
ResizeRequest(r, s) == s \in listed /\ Await(r, "resize", s)

Finish(r) ==
  /\ request' = [request EXCEPT ![r] = Idle]
  /\ UNCHANGED <<created, listed, alive, ttyVars, masterFd, outVars, timers, stream>>

\* write(2) or ioctl(2) on s.masterFd, whatever that number refers to by now:
\* a failure is ignored, and what reaches a pty is its shell's business.
WriteInput(r) == request[r].kind = "input" /\ Finish(r)
SetWinsize(r) == request[r].kind = "resize" /\ Finish(r)

----------------------------------------------------------------------------
\* The operating system.

ShellWrites(s) ==
  /\ slaveOpen[s] /\ FoldFunction(+, 0, written) < MaxOutput
  /\ written' = [written EXCEPT ![s] = @ + 1]
  /\ UNCHANGED <<created, listed, alive, shell, slaveOpen, fdOwner, masterFd, outVars, timers,
                 request, stream>>

\* A background job may keep the slave open after the shell is gone.
ShellExits(s) ==
  /\ shell[s] \in {"running", "dying"}
  /\ shell' = [shell EXCEPT ![s] = "exited"]
  /\ \E held \in BOOLEAN : slaveOpen' = [slaveOpen EXCEPT ![s] = held]
  /\ UNCHANGED <<created, listed, alive, fdOwner, written, masterFd, outVars, timers, request,
                 stream>>

JobExits(s) ==
  /\ shell[s] = "exited" /\ slaveOpen[s]
  /\ slaveOpen' = [slaveOpen EXCEPT ![s] = FALSE]
  /\ UNCHANGED <<created, listed, alive, shell, fdOwner, written, masterFd, outVars, timers,
                 request, stream>>

----------------------------------------------------------------------------
\* Callbacks and timers.

\* Which streams a broadcast reaches.
Attached(s) == {u \in Subscribers : stream[u].open /\ stream[u].session = s}

\* Seeded bug: the exit is told, the streams stay open.
OnExitKeepsStreams(s) ==
  /\ shell[s] = "exited" /\ alive[s] /\ s \in listed
  /\ alive' = [alive EXCEPT ![s] = FALSE]
  /\ stream' = [u \in Subscribers |->
                  IF u \in Attached(s) THEN [stream[u] EXCEPT !.exit = TRUE] ELSE stream[u]]
  /\ UNCHANGED <<created, listed, ttyVars, masterFd, outVars, timers, request>>

\* Seeded bug: the exit closes the descriptor under the read loop.
OnExitClosesMaster(s) ==
  /\ shell[s] = "exited" /\ alive[s] /\ s \in listed
  /\ alive' = [alive EXCEPT ![s] = FALSE]
  /\ stream' = [u \in Subscribers |->
                  IF u \in Attached(s)
                  THEN [stream[u] EXCEPT !.open = FALSE, !.exit = TRUE] ELSE stream[u]]
  /\ fdOwner' = [fdOwner EXCEPT ![masterFd[s]] = None]
  /\ UNCHANGED <<created, listed, shell, slaveOpen, written, masterFd, outVars, timers,
                 request>>

\* onExit: mark the session dead, tell and close its subscribers.
OnExit(s) ==
  /\ shell[s] = "exited" /\ alive[s] /\ s \in listed
  /\ alive' = [alive EXCEPT ![s] = FALSE]
  /\ stream' = [u \in Subscribers |->
                  IF u \in Attached(s)
                  THEN [stream[u] EXCEPT !.open = FALSE, !.exit = TRUE] ELSE stream[u]]
  /\ UNCHANGED <<created, listed, ttyVars, masterFd, outVars, timers, request>>

AppendScrollback(s, n) ==
  dropped' = [dropped EXCEPT ![s] = IF n - @ > ScrollbackCap THEN @ + 1 ELSE @]

Broadcast(s, n) ==
  stream' = [u \in Subscribers |->
               IF u \in Attached(s) THEN [stream[u] EXCEPT !.got = Append(@, n)] ELSE stream[u]]

\* The read loop got a chunk: scrollback first, then every subscriber.
ReadChunk(s) ==
  /\ masterFd[s] # None /\ fdOwner[masterFd[s]] = s /\ readCount[s] < written[s]
  /\ readCount' = [readCount EXCEPT ![s] = @ + 1]
  /\ AppendScrollback(s, readCount[s] + 1)
  /\ Broadcast(s, readCount[s] + 1)
  /\ UNCHANGED <<created, listed, alive, ttyVars, masterFd, timers, request>>

\* Seeded bug: the read loop ends without closing the descriptor.
ReadEndLeaks(s) ==
  /\ masterFd[s] # None /\ fdOwner[masterFd[s]] = s
  /\ ~slaveOpen[s] /\ readCount[s] = written[s]
  /\ UNCHANGED ptyVars

\* End of file: finalizeReadEnd closes the descriptor, for anyone to reuse.
ReadEnd(s) ==
  /\ masterFd[s] # None /\ fdOwner[masterFd[s]] = s
  /\ ~slaveOpen[s] /\ readCount[s] = written[s]
  /\ fdOwner' = [fdOwner EXCEPT ![masterFd[s]] = None]
  /\ UNCHANGED <<created, listed, alive, shell, slaveOpen, written, masterFd, outVars, timers,
                 request, stream>>

\* DELETE /sessions/<id>: SIGHUP now (a shell may ignore it), SIGKILL after
\* the grace time, and the record goes a second after that.  Bound: one
\* DELETE of a session outstanding at a time.
Delete(s) ==
  /\ s \in listed /\ timers[s] = {}
  /\ timers' = [timers EXCEPT ![s] = {"prune"} \cup IF alive[s] THEN {"kill"} ELSE {}]
  /\ UNCHANGED <<created, listed, alive, ttyVars, masterFd, outVars, request, stream>>

\* Seeded bug: no escalation to SIGKILL.
KillTimerHarmless(s) ==
  /\ "kill" \in timers[s]
  /\ timers' = [timers EXCEPT ![s] = @ \ {"kill"}]
  /\ UNCHANGED <<created, listed, alive, ttyVars, masterFd, outVars, request, stream>>

KillTimer(s) ==
  /\ "kill" \in timers[s]
  /\ timers' = [timers EXCEPT ![s] = @ \ {"kill"}]
  /\ shell' = [shell EXCEPT ![s] =
                 IF s \in listed /\ alive[s] /\ @ = "running" THEN "dying" ELSE @]
  /\ UNCHANGED <<created, listed, alive, slaveOpen, fdOwner, written, masterFd, outVars,
                 request, stream>>

PruneTimer(s) ==
  /\ "prune" \in timers[s] /\ "kill" \notin timers[s]
  /\ timers' = [timers EXCEPT ![s] = @ \ {"prune"}]
  /\ listed' = IF alive[s] THEN listed ELSE listed \ {s}
  /\ UNCHANGED <<created, alive, ttyVars, masterFd, outVars, request, stream>>

----------------------------------------------------------------------------
\* GET /sessions/<id>/stream.

\* Seeded bug: no replay.
AttachWithoutReplay(u, s) ==
  /\ ~stream[u].open /\ s \in listed
  /\ stream' = [stream EXCEPT ![u] =
       [session |-> s, open |-> alive[s], exit |-> ~alive[s], got |-> <<>>]]
  /\ UNCHANGED <<created, listed, alive, ttyVars, masterFd, outVars, timers, request>>

\* streamResponse: subscribe, replay the scrollback, and on a dead session
\* say so and close.
Attach(u, s) ==
  /\ ~stream[u].open /\ s \in listed
  /\ stream' = [stream EXCEPT ![u] =
       [session |-> s, open |-> alive[s], exit |-> ~alive[s],
        got |-> [i \in 1..(readCount[s] - dropped[s]) |-> dropped[s] + i]]]
  /\ UNCHANGED <<created, listed, alive, ttyVars, masterFd, outVars, timers, request>>

Cancel(u) ==
  /\ stream[u].open
  /\ stream' = [stream EXCEPT ![u] = NoStream]
  /\ UNCHANGED <<created, listed, alive, ttyVars, masterFd, outVars, timers, request>>

PtyNext ==
  \/ \E r \in Requests :
       \/ CreateRequest(r) \/ CreateSession(r) \/ CreateFails(r)
       \/ WriteInput(r) \/ SetWinsize(r)
       \/ \E s \in Sessions : InputRequest(r, s) \/ ResizeRequest(r, s)
  \/ \E s \in Sessions :
       \/ ShellWrites(s) \/ ShellExits(s) \/ JobExits(s)
       \/ OnExit(s) \/ ReadChunk(s) \/ ReadEnd(s)
       \/ Delete(s) \/ KillTimer(s) \/ PruneTimer(s)
       \/ \E u \in Subscribers : Attach(u, s)
  \/ \E u \in Subscribers : Cancel(u)

PtySafeSpec == PtyInit /\ [][PtyNext]_ptyVars

(***************************************************************************)
(* PtyFairness: timers fire, SIGKILL ends a shell, an exit is notified,    *)
(* the read loop keeps reading.  A shell need not write or exit by itself, *)
(* a background job may keep the pty for ever.                             *)
(***************************************************************************)
PtyFairness ==
  \A s \in Sessions :
    /\ WF_ptyVars(KillTimer(s)) /\ WF_ptyVars(PruneTimer(s))
    /\ WF_ptyVars(shell[s] = "dying" /\ ShellExits(s))
    /\ WF_ptyVars(OnExit(s)) /\ WF_ptyVars(ReadChunk(s)) /\ WF_ptyVars(ReadEnd(s))

PtySpec == PtySafeSpec /\ PtyFairness

----------------------------------------------------------------------------
PtyTypeOK ==
  /\ created \in 0..MaxCreated /\ listed \subseteq 1..created
  /\ alive \in [Sessions -> BOOLEAN]
  /\ shell \in [Sessions -> {"none", "running", "dying", "exited"}]
  /\ slaveOpen \in [Sessions -> BOOLEAN]
  /\ masterFd \in [Sessions -> Fds \cup {None}]
  /\ fdOwner \in [Fds -> 0..created]
  /\ {written, readCount, dropped} \subseteq [Sessions -> Nat]
  /\ timers \in [Sessions -> SUBSET {"kill", "prune"}]
  /\ request \in [Requests -> [kind : {"idle", "create", "input", "resize"},
                               session : 0..created]]
  /\ stream \in [Subscribers -> [session : 0..created, open : BOOLEAN,
                                 got : Seq(Nat), exit : BOOLEAN]]

\* A subscriber "sees the full replay exactly once and no gap after it"
\* (pty.ts:383-385): its chunks are consecutive, an open stream is up to
\* date, and it started no later than the oldest chunk still kept.
FullReplayNoGap ==
  \A u \in Subscribers :
    LET got == stream[u].got
        s == stream[u].session
    IN  /\ \A i \in 1..(Len(got) - 1) : got[i + 1] = got[i] + 1
        /\ stream[u].open =>
             IF got = <<>> THEN readCount[s] = 0
             ELSE got[Len(got)] = readCount[s] /\ got[1] <= dropped[s] + 1

\* "Exit codes surface loudly rather than leaving a dead terminal silent"
\* (ARCHITECTURE.md:151-152): no stream stays open on a session known dead,
\* and none announces the exit of a live one, however attaching, exiting and
\* deleting interleave.
NoSilentDeadTerminal ==
  \A u \in Subscribers : stream[u].session # None =>
    stream[u].exit <=> ~stream[u].open /\ ~alive[stream[u].session]

\* A pty's descriptor is closed by the loop that reads it and nobody else
\* (pty.ts:289-295): as long as the loop has output to read, s.masterFd
\* refers to the session's own pty.
ReadLoopOwnsDescriptor ==
  \A s \in 1..created : slaveOpen[s] \/ readCount[s] < written[s] => fdOwner[masterFd[s]] = s

\* A deleted session ends even when its shell ignores SIGHUP (pty.ts:299-308),
\* and once nothing holds a pty its descriptor is given back.
DeleteEndsSession == \A s \in Sessions : "kill" \in timers[s] ~> ~alive[s]
DescriptorsReturned ==
  \A s \in Sessions : shell[s] = "exited" /\ ~slaveOpen[s] ~> \A f \in Fds : fdOwner[f] # s

=============================================================================
