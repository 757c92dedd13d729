---------------------------- MODULE HostedAttach ----------------------------
(***************************************************************************)
(* The "Hosted" tab of the Sessions view: which daemon-hosted session it   *)
(* shows and which ones the daemon has it attached to                      *)
(* (src/ui/views/sessions/HostedSessionsPanel.tsx, hosted-sessions.ts,     *)
(* useHostedSessionRealtime.ts).                                           *)
(*                                                                         *)
(* Calls go over one WebSocket.  The daemon serves them in the order sent, *)
(* but for an attach to a session whose loop it has to rebuild, which may  *)
(* lag behind calls sent after it.  Answers, frames of the event stream    *)
(* and lists come in any order.                                            *)
(***************************************************************************)
EXTENDS Naturals, Sequences, FiniteSets, SequencesExt

CONSTANTS Sessions,
          Hosted,       \* hosted from the start; create makes the others
          Slow,         \* an attach to these may lag: restored from disk
          Kills,        \* detach policy "kill": the last to leave ends them
          No,           \* no session
          MaxClicks,    \* bound: what the user does
          MaxFailures,  \* bound: calls refused, answered late or unreadably
          MaxPanels     \* bound: times the tab is opened

ASSUME HostedAssumption ==
  /\ Hosted \subseteq Sessions /\ Slow \subseteq Sessions /\ Kills \subseteq Sessions
  /\ No \notin Sessions
  /\ MaxClicks \in Nat /\ MaxFailures \in Nat /\ MaxPanels \in Nat \ {0}

Panels == 1..MaxPanels
Records == [id : Sessions, ended : BOOLEAN]
Nothing == [id |-> No, ended |-> FALSE]

\* panel: the component that called; current: its latest attach; leave: the
\* detach of the Leave button; says: how much of the answer can be read.
Calls == [kind : {"attach", "detach", "create", "kill"}, id : Sessions, panel : Panels,
          current : BOOLEAN, leave : BOOLEAN, phase : {"sent", "served", "lost"},
          ended : BOOLEAN, says : {"all", "id", "nothing"}]

VARIABLES
  life,      \* session -> "unmade", "live" or "ended", in the daemon
  attached,  \* sessions the daemon has this app attached to
  calls,     \* calls not answered or not served yet, in the order sent
  panel,     \* the panel mounted last
  mounted,   \* it still is
  sel,       \* panel -> selectedIdRef
  shown,     \* attachedSession
  error,     \* attachError
  stream,    \* the event stream is connected
  frames,    \* lifecycle frames on their way
  include,   \* the "Include ended" toggle
  listed,    \* ended sessions in the list that includes them, as last fetched
  fetch,     \* its fetch: "none", "asked", or "coming" with
  coming,    \* the ended sessions it will list
  stranded,  \* attachments the panel lost sight of
  cutOff,    \* sessions detached by a panel that is gone, or whose calls failed
  clicks, failures

daemonVars == <<life, attached>>
streamVars == <<stream, frames>>
listVars == <<include, listed, fetch, coming>>
uiVars == <<panel, mounted, sel, shown, error>>
marks == <<stranded, cutOff>>
bounds == <<clicks, failures>>
vars == <<daemonVars, calls, uiVars, streamVars, listVars, marks, bounds>>

Init ==
  /\ life = [s \in Sessions |-> IF s \in Hosted THEN "live" ELSE "unmade"]
  /\ attached = {} /\ calls = <<>>
  /\ panel = 1 /\ mounted = TRUE /\ sel = [p \in Panels |-> No]
  /\ shown = Nothing /\ error = FALSE
  /\ stream = FALSE /\ frames = <<>>
  /\ include = FALSE /\ listed = {} /\ fetch = "none" /\ coming = {}
  /\ stranded = {} /\ cutOff = {}
  /\ clicks = 0 /\ failures = 0

Selected == IF mounted THEN sel[panel] ELSE No
OnScreen(p) == mounted /\ p = panel
Pending(kind) ==
  \E k \in DOMAIN calls : /\ calls[k].kind = kind /\ calls[k].panel = panel
                          /\ calls[k].phase # "lost" /\ (kind = "attach" => calls[k].current)

Click == clicks < MaxClicks /\ clicks' = clicks + 1
Failure == failures < MaxFailures /\ failures' = failures + 1

Call(kind, s, p) ==
  [kind |-> kind, id |-> s, panel |-> p, current |-> kind = "attach", leave |-> FALSE,
   phase |-> "sent", ended |-> FALSE, says |-> "all"]

\* Seeded bug: nothing moves a shown record to the row listed for it.
FreshenNot(record, ended) == record

\* The effect on the list: a row that is newer than the shown record replaces it.
Freshen(record, ended) ==
  IF record.id \in ended THEN [record EXCEPT !.ended = TRUE] ELSE record

Rows == IF include THEN listed ELSE {}
Show(record) == shown' = Freshen(record, Rows)

\* hostedSessionsAll is invalidated: a list in use is fetched again.
Refetch == fetch' = IF mounted /\ include THEN "asked" ELSE fetch

----------------------------------------------------------------------------
\* What the user does.

\* Seeded bug: the row before is not released.
SelectFromOnly(p, s, rest) ==
  /\ calls' = [k \in DOMAIN rest |-> [rest[k] EXCEPT !.current = @ /\ rest[k].panel # p]]
              \o <<Call("attach", s, p)>>
  /\ IF OnScreen(p)
     THEN sel' = [sel EXCEPT ![p] = s] /\ shown' = Nothing /\ error' = FALSE
     ELSE UNCHANGED <<sel, shown, error>>
  /\ UNCHANGED cutOff

\* selectSession of panel p, after the calls in rest: the session it had is
\* released and the new one attached.  A panel that is gone sends the same calls.
SelectFrom(p, s, rest) ==
  LET previous == sel[p]
      release == IF previous = No THEN <<>> ELSE <<Call("detach", previous, p)>> IN
  /\ calls' = [k \in DOMAIN rest |-> [rest[k] EXCEPT !.current = @ /\ rest[k].panel # p]]
              \o release \o <<Call("attach", s, p)>>
  /\ IF OnScreen(p)
     THEN sel' = [sel EXCEPT ![p] = s] /\ shown' = Nothing /\ error' = FALSE /\ UNCHANGED cutOff
     ELSE cutOff' = cutOff \cup ({previous} \ {No}) /\ UNCHANGED <<sel, shown, error>>

Select(s) ==
  /\ mounted /\ life[s] # "unmade" /\ s # sel[panel] /\ Click
  /\ SelectFrom(panel, s, calls)
  /\ UNCHANGED <<daemonVars, panel, mounted, streamVars, listVars, stranded, failures>>

\* The buttons of the detail are there for a record that is shown.
Detail == Selected # No /\ ~Pending("attach") /\ ~error /\ shown # Nothing

Leave ==
  /\ Detail /\ Click
  /\ calls' = Append(calls, [Call("detach", shown.id, panel) EXCEPT !.leave = TRUE])
  /\ UNCHANGED <<daemonVars, uiVars, streamVars, listVars, marks, failures>>

\* Seeded bug: the button is not disabled while it is pending.
EndTwice ==
  /\ Detail /\ ~shown.ended /\ Click
  /\ calls' = Append(calls, Call("kill", shown.id, panel))
  /\ UNCHANGED <<daemonVars, uiVars, streamVars, listVars, marks, failures>>

End ==
  /\ Detail /\ ~shown.ended /\ ~Pending("kill") /\ Click
  /\ calls' = Append(calls, Call("kill", shown.id, panel))
  /\ UNCHANGED <<daemonVars, uiVars, streamVars, listVars, marks, failures>>

Create(s) ==
  /\ mounted /\ ~Pending("create") /\ Click
  /\ life[s] = "unmade" /\ \A k \in DOMAIN calls : calls[k].kind # "create"
  /\ calls' = Append(calls, Call("create", s, panel))
  /\ UNCHANGED <<daemonVars, uiVars, streamVars, listVars, marks, failures>>

Toggle ==
  /\ mounted /\ Click /\ include' = ~include
  /\ fetch' = IF include' THEN "asked" ELSE fetch
  /\ shown' = Freshen(shown, IF include' THEN listed ELSE {})
  /\ UNCHANGED <<daemonVars, calls, panel, mounted, sel, error, streamVars, listed, coming, marks, failures>>

\* Another tab or view is opened: what is selected is released.
Unmount ==
  /\ mounted /\ Click /\ mounted' = FALSE
  /\ calls' = IF sel[panel] = No THEN calls
              ELSE Append(calls, Call("detach", sel[panel], panel))
  /\ shown' = Nothing /\ error' = FALSE
  /\ stream' = FALSE /\ frames' = <<>> /\ include' = FALSE
  /\ UNCHANGED <<daemonVars, panel, sel, listed, fetch, coming, marks, failures>>

Mount ==
  /\ ~mounted /\ panel < MaxPanels /\ panel' = panel + 1 /\ mounted' = TRUE
  /\ UNCHANGED <<daemonVars, calls, sel, shown, error, streamVars, listVars, marks, bounds>>

----------------------------------------------------------------------------
\* The daemon, as the panel uses it.

\* Its turn: what was sent before it was served, or is an attach that lags.
Due(k) ==
  /\ calls[k].phase # "served"
  /\ \A j \in 1..(k - 1) : calls[j].phase = "served"
                           \/ (calls[j].kind = "attach" /\ calls[j].id \in Slow)

\* A call is gone once served if nobody waits for it or nothing follows its answer.
Served(k, ended) ==
  IF calls[k].phase = "lost" \/ (calls[k].kind = "detach" /\ ~calls[k].leave)
  THEN RemoveAt(calls, k)
  ELSE [calls EXCEPT ![k].phase = "served", ![k].ended = ended]

Publish(frame) == frames' = IF stream THEN Append(frames, frame) ELSE frames

ServeAttach(k) ==
  LET s == calls[k].id IN
  /\ Due(k) /\ calls[k].kind \in {"attach", "create"}
  /\ calls' = Served(k, life[s] = "ended")
  /\ life' = IF life[s] = "unmade" THEN [life EXCEPT ![s] = "live"] ELSE life
  /\ attached' = IF life[s] = "ended" THEN attached ELSE attached \cup {s}
  /\ IF life[s] = "ended" THEN UNCHANGED frames ELSE Publish([id |-> s, ended |-> FALSE])
  /\ UNCHANGED <<uiVars, stream, listVars, marks, bounds>>

\* The session s ends, for everybody.
Ends(s) ==
  /\ life' = [life EXCEPT ![s] = "ended"] /\ attached' = attached \ {s}
  /\ Publish([id |-> s, ended |-> TRUE])

\* Detaching what is not attached does nothing.
ServeDetach(k) ==
  LET s == calls[k].id IN
  /\ Due(k) /\ calls[k].kind = "detach"
  /\ calls' = Served(k, life[s] = "ended")
  /\ stranded' = {x \in stranded : x # s \/ \E j \in DOMAIN calls : calls[j].id = s
                                           /\ calls[j].phase = "lost" /\ j # k}
  /\ IF s \in attached /\ s \in Kills THEN Ends(s)
     ELSE attached' = attached \ {s} /\ UNCHANGED <<life, frames>>
  /\ UNCHANGED <<uiVars, stream, listVars, cutOff, bounds>>

ServeKill(k) ==
  /\ Due(k) /\ calls[k].kind = "kill"
  /\ calls' = Served(k, TRUE)
  /\ IF life[calls[k].id] = "live" THEN Ends(calls[k].id) ELSE UNCHANGED <<daemonVars, frames>>
  /\ UNCHANGED <<uiVars, stream, listVars, marks, bounds>>

\* Another client, or the daemon itself, ends a session.
EndsElsewhere(s) ==
  /\ life[s] = "live" /\ Ends(s)
  /\ UNCHANGED <<calls, uiVars, stream, listVars, marks, bounds>>

\* An answer this client can read only in part.
Garble(k) ==
  /\ calls[k].phase = "served" /\ calls[k].says = "all" /\ Failure
  /\ \E says \in {"id", "nothing"} : calls' = [calls EXCEPT ![k].says = says]
  /\ UNCHANGED <<daemonVars, uiVars, streamVars, listVars, marks, clicks>>

----------------------------------------------------------------------------
\* The answers.

AdoptAnswer(k) ==
  LET call == calls[k] IN
  /\ calls' = RemoveAt(calls, k) /\ UNCHANGED cutOff
  /\ IF ~OnScreen(call.panel)
     THEN stranded' = stranded \cup {call.id} /\ UNCHANGED <<shown, error>>
     ELSE IF call.says = "all"
     THEN Show([id |-> call.id, ended |-> call.ended]) /\ error' = FALSE /\ UNCHANGED stranded
     ELSE error' = TRUE /\ UNCHANGED <<shown, stranded>>

DropAnswer(k) ==
  LET call == calls[k] IN
  /\ calls' = Append(RemoveAt(calls, k), Call("detach", call.id, call.panel))
  /\ cutOff' = IF OnScreen(call.panel) THEN cutOff ELSE cutOff \cup {call.id}
  /\ UNCHANGED <<shown, error, stranded>>

AttachAnswered(k) == calls[k].phase = "served" /\ calls[k].kind = "attach"

\* Seeded bug: whatever answer comes is shown.
AnswerAttachNaive(k) ==
  /\ AttachAnswered(k) /\ AdoptAnswer(k)
  /\ UNCHANGED <<daemonVars, panel, mounted, sel, streamVars, listVars, bounds>>

\* Seeded bug: an answer that a later attach superseded is always released.
AnswerAttachIfCurrent(k) ==
  /\ AttachAnswered(k)
  /\ IF calls[k].id = sel[calls[k].panel] /\ calls[k].current THEN AdoptAnswer(k) ELSE DropAnswer(k)
  /\ UNCHANGED <<daemonVars, panel, mounted, sel, streamVars, listVars, bounds>>

\* attachResponseAction: the answer for the session that is selected is shown,
\* another one's attachment is released.  The selection of a panel that is gone
\* is what it was: its answer is taken for shown.
AnswerAttach(k) ==
  /\ AttachAnswered(k)
  /\ IF calls[k].id = sel[calls[k].panel] THEN AdoptAnswer(k) ELSE DropAnswer(k)
  /\ UNCHANGED <<daemonVars, panel, mounted, sel, streamVars, listVars, bounds>>

\* The session made is selected; one that can only be named is released, one
\* that cannot be named stays attached until its lease is over.
AnswerCreate(k) ==
  LET call == calls[k]
      rest == RemoveAt(calls, k) IN
  /\ call.phase = "served" /\ call.kind = "create" /\ Refetch
  /\ IF call.says = "all"
     THEN /\ UNCHANGED stranded
          /\ IF call.id = sel[call.panel] THEN calls' = rest /\ UNCHANGED <<sel, shown, error, cutOff>>
             ELSE SelectFrom(call.panel, call.id, rest)
     ELSE /\ UNCHANGED <<sel, shown, error>>
          /\ IF call.says = "id"
             THEN /\ calls' = Append(rest, Call("detach", call.id, call.panel))
                  /\ cutOff' = cutOff \cup {call.id} /\ UNCHANGED stranded
             ELSE calls' = rest /\ stranded' = stranded \cup {call.id} /\ UNCHANGED cutOff
  /\ UNCHANGED <<daemonVars, panel, mounted, streamVars, include, listed, coming, bounds>>

\* What is answered is shown, whatever is selected by now.
AnswerKill(k) ==
  LET call == calls[k] IN
  /\ call.phase = "served" /\ call.kind = "kill"
  /\ calls' = RemoveAt(calls, k) /\ Refetch
  /\ IF OnScreen(call.panel) /\ call.says = "all"
     THEN Show([id |-> call.id, ended |-> TRUE]) ELSE UNCHANGED shown
  /\ UNCHANGED <<daemonVars, panel, mounted, sel, error, streamVars, include, listed, coming, marks, bounds>>

\* leaveSession goes on, also when the detach failed: the selection is cleared,
\* be it the session that was left or one selected since.
LetGo(p) ==
  IF OnScreen(p)
  THEN /\ sel' = [sel EXCEPT ![p] = No] /\ shown' = Nothing /\ error' = FALSE
       /\ stranded' = stranded \cup ({sel[p]} \cap attached)
  ELSE UNCHANGED <<sel, shown, error, stranded>>

AnswerLeave(k) ==
  LET call == calls[k] IN
  /\ call.phase = "served" /\ call.leave
  /\ calls' = RemoveAt(calls, k) /\ LetGo(call.panel) /\ Refetch
  /\ UNCHANGED <<daemonVars, panel, mounted, streamVars, include, listed, coming, cutOff, bounds>>

\* A call is refused, or times out and may yet be served: the panel is told so.
Fails(k) ==
  LET call == calls[k]
      kept == IF call.phase = "sent" THEN {[calls EXCEPT ![k].phase = "lost"]} ELSE {}
  IN
  /\ call.phase # "lost" /\ Failure
  /\ calls' \in {RemoveAt(calls, k)} \cup kept
  /\ IF call.leave THEN LetGo(call.panel) /\ Refetch /\ UNCHANGED cutOff
     ELSE /\ stranded' = IF call.kind = "kill" THEN stranded ELSE stranded \cup {call.id}
          /\ cutOff' = IF call.kind = "kill" THEN cutOff ELSE cutOff \cup {call.id}
          /\ error' = (error \/ (call.kind = "attach" /\ OnScreen(call.panel)
                                  /\ call.id = sel[call.panel]))
          /\ UNCHANGED <<sel, shown, fetch>>
  /\ UNCHANGED <<daemonVars, panel, mounted, streamVars, include, listed, coming, clicks>>

----------------------------------------------------------------------------
\* The event stream and the list.

StreamReady ==
  /\ mounted /\ ~stream /\ stream' = TRUE
  /\ UNCHANGED <<daemonVars, calls, uiVars, frames, listVars, marks, bounds>>

\* Nothing replays what is missed.
StreamBreaks ==
  /\ stream
  /\ stream' = FALSE /\ frames' = <<>>
  /\ UNCHANGED <<daemonVars, calls, uiVars, listVars, marks, bounds>>

\* A frame about the selected session is shown, be it attached yet or not.
FrameArrives ==
  /\ frames # <<>> /\ frames' = Tail(frames)
  /\ IF Head(frames).id = Selected THEN Show(Head(frames)) ELSE UNCHANGED shown
  /\ Refetch
  /\ UNCHANGED <<daemonVars, calls, panel, mounted, sel, error, stream, include, listed, coming, marks, bounds>>

Poll ==
  /\ mounted /\ include /\ fetch = "none" /\ fetch' = "asked"
  /\ UNCHANGED <<daemonVars, calls, uiVars, streamVars, include, listed, coming, marks, bounds>>

FetchServed ==
  /\ fetch = "asked" /\ fetch' = "coming" /\ coming' = {s \in Sessions : life[s] = "ended"}
  /\ UNCHANGED <<daemonVars, calls, uiVars, streamVars, include, listed, marks, bounds>>

FetchArrives ==
  /\ fetch = "coming" /\ fetch' = "none" /\ listed' = coming /\ coming' = {}
  /\ shown' = Freshen(shown, IF include THEN coming ELSE {})
  /\ UNCHANGED <<daemonVars, calls, panel, mounted, sel, error, streamVars, include, marks, bounds>>

Daemon(k) == ServeAttach(k) \/ ServeDetach(k) \/ ServeKill(k)
Answer(k) == AnswerAttach(k) \/ AnswerCreate(k) \/ AnswerKill(k) \/ AnswerLeave(k)

Next ==
  \/ \E s \in Sessions : Select(s) \/ Create(s) \/ EndsElsewhere(s)
  \/ Leave \/ End \/ Toggle \/ Unmount \/ Mount
  \/ \E k \in DOMAIN calls : Daemon(k) \/ Garble(k) \/ Answer(k) \/ Fails(k)
  \/ StreamReady \/ StreamBreaks \/ FrameArrives \/ Poll \/ FetchServed \/ FetchArrives

\* Calls are served and answered, and the list is polled.
Fairness ==
  /\ WF_vars(\E k \in DOMAIN calls : Daemon(k) \/ Answer(k))
  /\ WF_vars(Poll) /\ WF_vars(FetchServed) /\ WF_vars(FetchArrives)

Spec == Init /\ [][Next]_vars /\ Fairness

----------------------------------------------------------------------------
\* Properties.

\* The state stays well typed, a panel waits for one attach and ends a session
\* with one call at a time (HostedSessionsPanel.tsx:454, 457).
TypeOK ==
  /\ life \in [Sessions -> {"unmade", "live", "ended"}]
  /\ attached \subseteq {s \in Sessions : life[s] = "live"}
  /\ calls \in Seq(Calls)
  /\ \A p \in Panels, kind \in {"attach", "kill", "create"} :
       Cardinality({k \in DOMAIN calls : /\ calls[k].kind = kind /\ calls[k].panel = p
                                         /\ calls[k].phase # "lost"
                                         /\ (kind = "attach" => calls[k].current)}) <= 1
  /\ panel \in Panels /\ sel \in [Panels -> Sessions \cup {No}]
  /\ shown = Nothing \/ shown \in Records
  /\ {mounted, error, stream, include} \subseteq BOOLEAN
  /\ frames \in Seq(Records) /\ fetch \in {"none", "asked", "coming"}
  /\ UNION {listed, coming, stranded, cutOff} \subseteq Sessions

\* No "older session's record, transcript, steer target and End-session target on
\* screen under a selection ... that all point at the newer one" (hosted-sessions.ts:206-209):
\* a live record on screen is the selected session's, in whatever order answers and
\* frames come.  (The answer of End is not guarded: it shows a session that ended.)
ShownIsSelected ==
  shown # Nothing => \/ shown.id = Selected
                     \/ shown.ended /\ life[shown.id] = "ended"

\* "Dropping the late response is only half the fix" (hosted-sessions.ts:211-215):
\* when no call is under way, the daemon has this app attached to the selected
\* session at most, unless the panel lost sight of an attachment (see the README);
\* and to the session that is on screen as live, so that nobody else's leaving
\* ends it: an old answer does not release it again.
AttachedToWhatIsShown ==
  calls = <<>> =>
    /\ attached \subseteq {Selected} \cup stranded
    /\ Detail /\ ~shown.ended /\ shown.id = Selected /\ life[shown.id] = "live"
         => shown.id \in attached \cup cutOff

\* What this panel releases in passing never ends the session it shows by then:
\* a detach that overtakes the user's way back would, under policy kill.
PassingByEndsNothing ==
  [][\A k \in DOMAIN calls :
       ServeDetach(k) /\ ~calls[k].leave /\ calls[k].panel = panel
         /\ Detail /\ shown.id = Selected /\ calls[k].id = shown.id
       => life' = life \/ shown.id \in cutOff]_vars

\* "a session terminated while the stream is down ... would keep rendering its
\* composer as if live" (HostedSessionsPanel.tsx:157-159): with ended sessions in
\* the list, a shown session that ended is in time shown as ended.
Stale == /\ mounted /\ include /\ shown # Nothing
         /\ ~shown.ended /\ life[shown.id] = "ended"
EndIsNoticed == Stale ~> ~Stale
=============================================================================
