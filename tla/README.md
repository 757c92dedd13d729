# Verification of goodvibes-app

TLA+ models of the concurrent core of goodvibes-app, the runs of TLC that check
them on small instances, and proofs that TLAPS checks for every value of the
constants. Every definition is translated from the TypeScript sources; paths
below are relative to the repository's `src/` directory unless they start with
`docs/` or `test/`. `PROJECT.json` maps each definition to its lines.

## 1. The system

goodvibes-app is a desktop application in two halves. A Bun process
(`bun/index.ts`) finds or starts the goodvibes daemon, serves the user interface
on a local port and keeps everything the daemon does not: terminals, settings,
registries, notices, the tray. A webview (`ui/`) renders that interface; it talks
to the Bun process only, which relays to the daemon. Each half runs one event
loop, so a stretch of code between two awaits runs alone, and all the
concurrency is in what happens between those stretches.

```
  webview                          Bun process                          daemon
  ui/lib/ws.ts      -- /app/ws -->   ws-bridge.ts       -- websocket -->  control plane
  ui/lib/sse.ts     -- /api/... ->   ui-server.ts proxy -- http, SSE -->  events, REST
  pty-client.ts     -- /app/pty ->   pty.ts             -- ptys ------->  shells
  DaemonGate.tsx    -- /app/health > daemon-manager.ts  -- probe, spawn > process
  settings views    -- /app/... -->  settings-store.ts, notifications.ts, registries/
```

### Inventory

| component | state it keeps | operations | what is hard | what makes it correct |
|---|---|---|---|---|
| WebSocket bridge, `bun/ws-bridge.ts` | per connection: both sockets, the queue of the connect phase, byte counters, `webviewClosed` | `open`, `message`, `close`; the daemon's `open`, `message`, `close`, `error`; `closeBoth` | four event sources tear down the same pair; frames arrive while the daemon connects; slow peers | FIFO both ways, authenticated first and by the bridge only, bounded, both ends closed, the right close code |
| Tickets, same file | map of ticket to expiry | `issueTicket`, `pruneTickets`, `ticketValid`, `redeemTicket`, `handleUpgrade` | reuse, expiry, eviction, a daemon that is not ready | one socket per ticket, capped, fresh tickets survive, a 503 burns nothing |
| WebSocket client, `ui/lib/ws.ts` | the socket, the shared connect promise, pending calls, subscribed domains | `connect`, `wsCall`, `wsSubscribe`, socket events, call timeout | awaits inside `connect`; sockets that are CLOSING while a successor opens; one map of pending calls for all sockets | one live socket, no call stranded, subscriptions re-armed, a call settles once |
| Terminal sessions, `bun/pty.ts` | sessions, file descriptors, scrollback, subscribers, timers | create, input, resize, delete, stream, list; read loop, exit notification | request bodies are awaited between check and use; exit, end of file, delete and timers in any order; descriptors are reused by number | replay without gap, no silent dead terminal, descriptors closed once and by their reader, deletes end sessions |
| Daemon manager and boot, `bun/daemon-manager.ts`, `bun/index.ts` | the handle: mode, info, token | `probe`, `adoptOrSpawn`, `spawnDetached`, `quitApp` | two instances, foreign programs on the port, daemons that are slow, die, or are of another version | it comes to a verdict, nothing is proxied before, only a compatible daemon is driven |
| Proxy and event streams, `bun/ui-server.ts`, `ui/lib/sse.ts` | the relayed stream; parser, last event id, reconnect timer | relay, heartbeat, parse, reconnect, dispose | heartbeats between arbitrary chunks; breaks inside a frame | every event once, in order, unharmed but by a heartbeat, across breaks |
| Health and gate, `ui/lib/daemon-health.ts`, `ui/components/shell/DaemonGate.tsx` | the last health answer | fetch, gate | the answer may be older than the daemon's life | the gate goes when the daemon is there |
| Settings file, `bun/settings-store.ts` | `settings.json`, `writeChain` | `readAppSettings`, `mutateAppSettings` | owners of different keys update one file; damaged files; failing reads and writes; quitting | updates are serial and independent |
| Notifications and tray, `bun/notifications.ts`, `bun/index.ts` | preferences (cached), batch queue and timer, menu | get, put, notify, toggle, prime | loads are not serialised with saves | queued notices are shown, the menu tells the truth |
| Registries, `bun/registries/` | one file per collection, a chain of operations each, document versions | list, get, create, put, delete, append version, import | read-modify-write in the chain; reads and saves that fail; imports over several collections; capped versions | nothing lost, versions increase, a failed save changes nothing |
| Documents view and drafts, `ui/views/documents/`, `ui/lib/drafts.ts` | the editor's text and base, the draft, comments and suggestions, the list read last | type, save, comment, suggest, accept, reject, apply, leave and come back | answers of several mutations and of the list in any order; the user types meanwhile | typed text is not lost, the list shows the store, an accepted suggestion is saved |
| Chat, `ui/views/chat/` | fetched and local messages, live text, turn state, notes | send, steer, stop, stream events, reads of the list, merge | sends during a turn, frames that are lost or late, reads that are older than what is on screen | a message appears once and does not vanish, a turn settles |
| Hosted sessions, `ui/views/sessions/` | selection, panel's session, the list | select, create, leave, end, close the tab, lifecycle frames | answers that arrive after the user moved on | what is shown is selected and attached; passing by ends nothing |
| Subscription logins, `bun/subscriptions.ts` | pending logins, loopback listeners, tokens | start, finish, capture, refresh, abandon, logout | all of them await the network and overlap | one listener, a logout is final, a login is stored once |
| Terminal client, `ui/views/terminal/pty-client.ts` | one stream, retry timer, input queue | connect, retry, dispose, input | end of stream, failure, exit and dispose race | at most one stream, no retry after exit |
| Wake word, `ui/lib/wake/` | host state, operation chain, microphone | start, stop, suspend, resume, apply settings | reconfiguration while suspended | capture runs exactly when enabled |

The rest (git, GitHub, local tools, secrets, the feature views, the shell,
generated contracts, styles, scripts) is listed in `PROJECT.json` with the reason
it is left out: one request to one child process or HTTP call, synchronous
rendering, tables, or code of an imported package.

How they interact: the client (`ws.ts`) fetches a ticket, presents it at the
upgrade and is then one end of a bridge; the bridge and the proxy read the token
of the handle that the daemon manager fills in once; the gate shows what the
handle says; the terminal's streams are event streams of their own, relayed
without the heartbeat of the proxy; settings, notifications, GitHub and the tray
share one settings file; the documents view works on the documents registry
through the Bun process; chat and hosted sessions hear of the daemon's work over
event streams and reread it over the proxy.

## 2. The modules

| module | models | instantiated by |
|---|---|---|
| `FramePipe` | what each direction of the bridge promises (abstract) | `WsBridge` (`UpPipe`, `DownPipe`; the property is `PipesAreFifo`) |
| `WsBridge` | one connection of `bun/ws-bridge.ts` | `MCWsBridge` |
| `WsTickets` | the ticket gate of `bun/ws-bridge.ts` | `MCWsTickets` |
| `WsClient` | `ui/lib/ws.ts` | `MCWsClient` |
| `Pty` | `bun/pty.ts` | `MCPty` |
| `SseStream` | the relay of `bun/ui-server.ts` with `ui/lib/sse.ts` | `MCSseStream` |
| `DaemonAdoption` | `bun/daemon-manager.ts`, the boot of `bun/index.ts`, the proxy's guard, the gate | `MCDaemonAdoption` |
| `SerialStore` | what a store with concurrent updates promises (abstract) | `AppSettings` (`StoreIsSerial`) |
| `AppSettings` | `bun/settings-store.ts`, `bun/notifications.ts`, the put of `bun/secrets.ts`, the tray | `MCAppSettings` |
| `SerialRegistry` | what the registries promise each client (abstract) | `RegistryStore` (`CollectionsAreSerial`) |
| `RegistryStore` | `bun/registries/`: store, requests, document versions, import | `MCRegistryStore` |
| `DocumentDrafts` | the editor of `ui/views/documents/DocumentsView.tsx` with `ui/lib/drafts.ts` | `MCDocumentDrafts` |
| `HostedAttach` | the Hosted tab, `ui/views/sessions/` | `MCHostedAttach` |
| `ChatTurn` | `ui/views/chat/`: a message from the composer to its reply | `MCChatTurn` |
| `SeqFacts` | lemmas on sequences | the proofs |
| `WebSocketProofs` | theorems about `WsBridge` and `WsClient` | |
| `UiServerProofs` | theorems about `WsTickets`, `DaemonAdoption`, `SseStream` and `Pty` | |
| `AppSettingsProofs`, `RegistryStoreProofs`, `HostedAttachProofs`, `DocumentDraftsProofs`, `ChatTurnProofs` | theorems about the module each is named for | |

Where one module of proofs extends several components, all of them but one put
their own name before `Init`, `Next` and `Spec` (`ClientSpec`, `AdoptionSpec`,
`StreamSpec`).

A stretch of code between awaits is one action. Peers, the operating system, the
clock, the file system and the daemon are actions of their own, marked external in
the map. Definitions introduced as a *seeded bug* are not part of a model: each is a
plausible mistake in the definition it precedes, and the property named with it
in `PROJECT.json` fails when it is put in that definition's place.

**WsBridge.** `ws` and `daemonWs` are the two sockets as the bridge sees them,
`pending` and `pendingBytes` the queue of the connect phase, `dOut` and `wOut` the
send buffers whose size the code reads as `bufferedAmount`. One action per
handler: `Open`, `DaemonOpen`, `DaemonMessage`, `DaemonClosed` (close and error),
`Message` (inside `WebviewSends`), `WebviewClose`. A frame is one unit of a buffer.
An auth frame of the webview is of usual size (`WebviewAuth`, which `isAuthFrame`
recognises) or over `MAX_AUTH_SCAN_BYTES`: the constant `OversizeAuth` says which
of the numbered frames are such ones; they are not scanned, and forwarded.

**WsTickets.** The map is a function from live tickets to expiry; tickets are
numbered in order of issue, which is the Map's iteration order. `deadline` and
`opened` are history. `UpgradeRequest` presents any ticket ever issued, or none.

**WsClient.** `connecting` is the connect promise (none, awaiting the ticket,
awaiting the socket); a call is idle, connecting, backing off, pending or settled.
The microtasks a task leaves run within its action. `StartsClosing` separates a
socket's CLOSING from its `onclose`, as the event loop does.

**Pty.** Sessions are numbered; `masterFd` is the number the code keeps and
`fdOwner` what the kernel means by it, so reuse of a number is visible. `request`
is a handler suspended in `readJsonBody`. A shell's exit, the end of its pty and
the notification are separate. Output is counted in chunks.

**SseStream.** What can be cut apart is a piece: half an id, event or data line, or
the blank line that ends a frame. Pieces are numbered through all the daemon writes
and passed on in order, so `relayed` (the last one the proxy enqueued) and `parsed`
(the last one the client took) say what is on the wire and in the relay. A chunk may
end after any piece, and a heartbeat be written there (`beats`: after which pieces);
the webview takes one piece at a time, so a read may end anywhere and `dispose` come
between two frames of one read. The parser keeps what `createSseParser` keeps, and a
heartbeat does to it what the text `:hb` and two line ends do: nothing between two
lines of which the first is no event line, else it ends the line, garbled or
ignored, and the frame (`FeedHeartbeat`). While `lastEventId` is null there is no
header (`ResumeFrom`) and the daemon, which is external, starts anywhere up to now;
so it does for an id it never sent (`StartsAfter`). `missed` and `cut` are history:
the frame after which a client without a usable id was let in, and the frames a
heartbeat cut.

**DaemonAdoption.** Processes contend for the port, each compatible, of another
major version, one that rejects the token, or foreign. An app probes, adopts,
spawns, polls and settles; the webview reads the handle through `/app/health`.

**AppSettings.** A task is one request or callback, and `phase` tells which await
it is in. Reads (`ReadFile`) happen outside `writeChain` for loads and at its head
for updates, and fail at any time (`ReadFails`), which counts as a file that is not
there; `WriteFile` is the rename. A damaged file is moved aside by whoever
read it, by path, whenever that reader gets to it. `SerialStore` promises what is
left: an update is applied to the document as it is at that instant, unless its
read failed (it takes the document for empty, `Misread`) or somebody who found the
document damaged is not done with it (`GiveUp`). `Restart` is quitting from the
tray and starting again.

**RegistryStore.** A request takes its turn in the chain of promises of each
collection it is about (`Enqueue`), reads the file (`Load`, or `LoadFails`, which
counts as empty), and saves what `Outcome` makes of the items and answers
(`Finish`, or `SaveFails`). An import does so for one collection after the other.
`SerialRegistry` is the same with one instant per request and collection, and the
same `Outcome`; that an unreadable file counts as an empty one is part of its
promise (`blind`), because `mutate` saves even so (section 6).

**DocumentDrafts.** Editor, draft in localStorage with its debounce, the item in
the registry, and the list as the view last read it. A mutation is one click: its
one or two requests, `Succeeds`, the refetch. Each request is served at one
instant, which is what `CollectionsAreSerial` says of the registry. `unsaved` and
`alone` are history: the text a user would miss, and whether a mutation was
overlapped by another.

**HostedAttach.** `calls` holds the calls on their way, in the order sent; the
daemon (external) serves them in that order, except an attach it has to restore
a session for. A panel is one mount of the tab, so that an answer can find its
panel gone. `stranded` and `cutOff` mark attachments the panel lost sight of, in
the ways section 6 lists.

**ChatTurn.** The daemon (external, version 1.11) runs one turn per chat and
queues the rest. The view hears of it by its calls' answers, by the frames of the
stream (`Hear`), lost while it is down (`Drop`, `Ready`), and by reads of the list
in two steps (`ReadServed`, `ReadArrives`). A broken stream mends itself (`Ready`,
which has the list read again) or is opened anew by the user (`RetryStream`, which
has not). A read that is invalidated starts over, but the first of a chat, which
the query library shares (`Invalidated`). What is on screen is `Rendered`: the
list, the local messages `mergeCompanionMessages` leaves, and the live text. A
text is the number of the message that first had it, so that merging by content
is what the code does; `given` counts the daemon's ids, and the view's own are negative.
`watched` and `excused` are marks of the properties.

## 3. Runs

| run | bounds | shows |
|---|---|---|
| `ws_bridge` | limit 2 frames, 4 frames each way, the webview's second and third oversized auth frames | authentication first and by the bridge only, but for oversized frames; bounds, close codes, teardown of both ends, both directions implement `FramePipe` |
| `ws_tickets` | limit 2, lifetime 2 ticks, 4 tickets, 4 ticks | single use, survival of fresh tickets |
| `ws_client` | 2 calls, 1 domain, 3 sockets | one live socket, fail fast, re-arming, every call settles |
| `pty` | 2 sessions, 2 descriptors, limit 1, 1 request, 1 subscriber, scrollback 1, 2 chunks | replay, dead terminals, descriptors, deletes |
| `sse` | 3 frames, 2 heartbeats, 2 breaks, chunks and reads ending anywhere | every frame once and whole across breaks, unless a heartbeat cut it; everything else arrives |
| `daemon_adoption` | 2 apps, 2 processes, 1 poll | no request is proxied before a verdict, and one is reached |
| `app_settings` | 1 put, 1 toggle, 1 reader, 2 notices, 1 failed write, reads that fail, 1 restart; file missing, sound or damaged | implements `SerialStore`, failures stay alone, every update settles |
| `registry_store` | 2 collections, 3 requests, 2 versions kept, 1 failure, 1 restart | implements `SerialRegistry`, versions increase, every request ends |
| `documents` | 2 typed texts and a suggested one, 2 comments, 2 mutations, 1 failure, 1 leave | drafts survive, the list shows the store, a comment edit changes its comment and nothing else |
| `documents_accept` | as above | *violated*: the finding of section 6 |
| `hosted_attach` | 2 sessions (one slow, under policy kill), 3 clicks, 1 failure, 2 panels | what is shown is selected and attached, releasing in passing ends nothing, an end is noticed |
| `chat` | 2 chats, one there already; 2 sends, 2 frames on the wire, 1 trouble | messages once and lasting, what was stored is read, a turn settles |

Why the bounds are enough to see the interesting cases:

- `ws_bridge`: four frames against a limit of two fill the queue and each send
  buffer, trip every overflow check, and leave frames in flight at teardown.
- `ws_tickets`: four tickets against a limit of two evict twice, and four ticks
  against a lifetime of two let tickets expire before and after they are presented.
- `ws_client`: two calls share a connect, fail together and retry on a second
  socket while a first is still closing; the third socket follows a second failure.
- `pty`: two descriptors for two sessions let a number be reused while a request or
  a read is in flight; the limit of one makes the second session wait for the
  first to die; a scrollback of one chunk with two chunks written trims it.
- `sse`: two breaks and three frames break a stream inside a frame, before and
  after its id line, before any id was received, and again during the replay; two
  heartbeats cut one frame twice, two frames, or the same frame before and after a
  break.
- `daemon_adoption`: with two apps and two processes a spawned daemon loses the
  port to the other app's, or to a foreign program, before or after the probe.
- `app_settings`: one update of each key is what a lost update takes; the toggle is
  a load followed by an update. Three initial files are needed because a missing
  and a damaged one take different paths.
- `registry_store`: three requests queue two deep behind a third in one collection,
  or spread over both while an import crosses them; two versions kept and three
  appended trim a document; the failure and the restart hit any of them.
- `documents`: two mutations are what an overlap takes, one of them possibly
  refused half way; the leave comes before, between or after them.
- `hosted_attach`: three clicks go to another session and back while the first
  answer is out; the second panel is there for answers that outlive the first.
- `chat`: two sends are a message during a turn (queued or steering) and a second
  with the same text; one trouble is a stop, a change of chat, a break of the stream,
  a turn that fails or a failed call at any moment; 'Retry stream' is none, and may
  follow any break.

The theorems of section 5 cover every value of the bounds of their modules. Bounded counters (frames, tickets, ticks, sockets,
sessions, chunks, heartbeats, breaks, processes, clicks, failures, restarts) are in
the guards and named in `CONSTANTS`. Deadlock is not checked: peers and users may
stop, and at the bounds all of them do.

## 4. Fairness

Only what the platform does by itself is fair, weakly: an issued file operation,
fetch, connect or close handshake ends, a timer fires, the kernel reports an exit
and delivers SIGKILL, a read loop that has something to read reads it, a socket's
peer that keeps its connection reads. Nobody is ever assumed to send, click, call,
write, exit by itself, or close. Where the outcome is open (a connect that
succeeds or fails, a write that succeeds or fails) the disjunction is fair, never
one side of it. `EverythingArrives` therefore needs no assumption on success: the
breaks are bounded, and after the last of them a fetch can only succeed. In
`DaemonAdoption` the health query is fair because it is refetched every few
seconds, a process that starts either binds or gives up, and a daemon may die at
any time. In `RegistryStore` file operations end and an import goes on to its next
collection. In `HostedAttach` the daemon serves and answers calls (some of them as
errors), and the list is polled on its interval. `ChatTurn` has one fairness
condition, on `System`: the daemon works through its turns, answers, frames and
reads arrive, the stream reconnects (it retries for ever) and the timer polls;
nothing in it can repeat for ever, so fairness of the whole is fairness of each.

## 5. Proofs

Checked by TLAPS from the constants' assumptions only (`BufferAssumption`,
`TicketAssumption`, `ClientAssumption`, `PtyAssumption`, `AdoptionAssumption`,
`StreamAssumption`, `SettingsAssumption`, `RegistryAssumption`,
`VersionsAssumption`, `HostedAssumption`, `DraftsAssumption`, `ChatAssumption`): bounds and limits are
natural numbers, positive where the code needs them to be, kinds of task are
disjoint, the value for "none" is no element. One says more, `VersionsAssumption`:
the versions a client puts back, and those in the files at the start, are in order,
because both come from this same code (`ui/views/documents/documents-data.ts:198`).

Each module has one inductive invariant, a conjunction of named parts, one lemma
per action that it is preserved, and the properties as consequences.

**Bridge** (`WebSocketProofs`): `TypeCorrect`, `Authenticated`, `Bounded`,
`CloseCodes`, `PipesRefined`. None of these properties is inductive: whether the
frame about to be sent continues the order depends on what is still queued and
buffered. The invariant `IInv` therefore says where each numbered frame is:

- `QueueInv`: while the daemon's socket connects, `pending` is exactly what was
  accepted, and `pendingBytes` counts it;
- `UpInv`: frame number *i* is the *(i+1)*-th thing handed to the daemon's socket,
  the first being the bridge's auth frame; read and buffered frames together are
  all that was accepted as long as that socket is open;
- `DownInv`: the same for the other direction;
- `TeardownInv`: `webviewClosed` is set exactly when the webview's socket is on its
  way out, and then the daemon's is too; nothing happens before `Open`.

`Bounded` and `Authenticated` follow from `UpInv` and `DownInv`; the latter says that
the daemon is sent the bridge's auth frame first and once, and no other auth frame
but such as are too large to be scanned, for any set of these; `CloseCodes` looks
at each step that closes. `PipesRefined` maps every handler to a step of
`FramePipe` or a stutter, using `IInv` to see that the frame that is read is the
next one.

**Tickets** (`UiServerProofs`): `TicketsTyped`, `SingleUse`, `Capped`,
`FreshSurvives`, `RetryKeepsTicket`. The heart is a lemma about `pruneTickets`: of a
finite set of numbers at most *k* have fewer than *k* larger ones (`NewestAreFew`),
so evicting the oldest leaves room for one more ticket (`PruneLeavesRoom`), and what
is evicted has that many newer ones (`EvictedIsOld`). `OneSocketPerTicket` becomes
inductive with `Unused` (a ticket still in the map has opened nothing);
`FreshTicketSurvives` needs `LastAnswer` (the last answer to a ticket still in the
map was a 503, or found it expired). `TicketInv` is their conjunction with
`TypeOK` and `OutstandingCapped`.

**Client** (`WebSocketProofs`): `ClientTyped`, `OneSocket`, `NoneLeftPending`, `Armed`.
`NetInv` ties the module's variables to the sockets' own states: the socket that
connects is the one made last, the one that is open is `socket`, never both.
`CallInv` says that a pending call's carrier is open or closing, and how often a
call may still connect; `SubInv` what each open socket was asked for.

**Terminals** (`UiServerProofs`): `PtyTyped`, `ReplayedInFull`, `ExitsAreTold`,
`LoopOwnsDescriptor`. `FdInv`: a descriptor refers to a pty only through that
session's own `masterFd`, and a shell that runs holds its pty, so that a number is
not reused while a loop has something to read. `OutInv`: the scrollback keeps a
suffix of what was read and never an empty one. `ShownInv`: what a stream got is
consecutive and up to date, and it is open exactly as long as its session lives.

**Adoption** (`UiServerProofs`): `AdoptionTyped`, `RequestsWait`. `NoTokenYet`
makes it inductive: the token comes with the verdict, and the proxy needs it.

**Settings file** (`AppSettingsProofs`): `Serial`, `SettingsTyped`, `OneRejectionEach`.
`Serial` is the refinement `Spec => StoreIsSerial`: the instant an update takes
effect is `WriteFile`, a failed write and a quit reject, a failed read is `Misread`,
and setting a damaged file aside gives it up; all else stutters. An update changes
only its own key of the document as it is at that instant, or of what its `basis`
says it takes for that: nothing is lost by a race, only by a read that failed or by
a file that was found damaged. `StoreInv` is what that takes: the update that has read
the file and not yet written it is the head of `writeChain` (`FetchInv`), so that
what it read is what the file still says as long as nobody moves the file aside; and
only a reader that is not done with it remembers a damaged file (`SeenInv`). `QueueInv`
adds that the chain holds exactly the unsettled updates (`ChainInv`) and that failed
updates and failed writes are as many (`FailedInv`), which is
`OneFailureOneRejection`.

**Event stream** (`UiServerProofs`): `SseTyped`, `ResumedOnce`, wherever chunks and reads
end and whatever heartbeats they meet. While the stream is open the parser has read
*k* pieces of frame *n*, and unless a heartbeat cut that frame it holds what they say
(`Holding`); cut or not, it holds nothing of another frame (`Within`), so that the
blank line that ends a cut frame ends the damage. `ReceivedInv`: a frame that was
not cut was handed over whole. `OrderInv`: as long as none was cut, what was handed
over are the frames after `missed`, in order, `lastEventId` is the last of them, and
the parser reads the next, or the end of that one if a heartbeat between its data
and its blank line had it dispatched early. A reconnect therefore starts where
`OrderInv` says, whatever was lost with the old stream. One lemma (`DispatchKeeps`)
treats both ends of a frame, the blank line and the heartbeat.

**Registries** (`RegistryStoreProofs`): `RegistryInvariant`, `CollectionsSerial`,
`VersionsInOrder`. `SeenInv` says that what the first in a collection's chain loaded is
still what the file says, unless its read failed; `AnswerInv` and `BlindInv` that a
collection a request has still to work on has no answer and was not found
unreadable. Every step then is a step of `SerialRegistry` or a stutter, and nothing
is used of `Outcome`: `CollectionsSerial` holds whatever an operation makes of the
items. `VersionsInOrder` is about what it does make of them: appending the highest
number plus one and keeping the newest (`AppendVersion`), putting, deleting and
importing all keep increasing numbers increasing, so the files do, and with them
what has been loaded from a file and is still to be written (`FilesInv`).

**Hosted sessions** (`HostedAttachProofs`): `HostedTyped`, `ShownSelected`,
`AttachedToSelected`, `PassingHarmless`. What calls, frames, list and screen say of a
session stays true, because a session only goes from unmade to live to ended
(`FactsInv`); of each kind of call a panel waits for there is one (`UniqueInv`). The
two directions of `AttachedToWhatIsShown` need an invariant each about the calls on
their way, and their order: an attachment the daemon keeps is the selected
session's, or lost sight of, or some call accounts for it (`CoverInv`: an attach still
to be answered, whose answer will release it, or a detach still to be served); and
the selected session is attached or about to be, because a detach that would undo it
comes before an attach that renews it, or is the user's own Leave (`ClaimInv`, with
`Guarded`). `PassingHarmless` is what `ClaimInv` says of the step that serves a detach.
How removing, changing and adding calls treats `Guarded` is in lemmas about any
sequence of calls (`RemovedCalls`, `ChangedCalls`, `AddedCalls`, `SelectCalls`).

**Documents** (`DocumentDraftsProofs`): `DocumentTyped`, `DraftKept`, `ListCatchesUp`,
`EditsApply`. `ListInv`: the list, and the answer of a fetch on its way, show the
stored item unless some mutation changed it and has not had the list fetched again;
while one waits for that a fetch is under way. `AloneInv`: while a mutation runs
alone no other runs, so what a comment update is about to put back is the stored
item with that one edit. `DraftInv`: the state of the debounce says whether the text a
user would miss is in the editor, in localStorage, or in both.

**Chat** (`ChatTurnProofs`): `ChatTyped`, `ShownOnlyOnce`, `NothingTakenBack`. A message
reaches the view as the view's own optimistic copy, as the daemon's answer to the
send, as a frame of the stream and as an entry of the list, in any order and under
two ids; the merge by content that the view does must neither show it twice nor
lose it. The invariant therefore relates the four: `LogInv` (an id is given once),
`ListInv` (what was read is a start of what is stored, and the list does not go
back), `ContentInv` (a local message says what the message it stands for says),
`OnceInv` (no two stand for one), `EchoInv` (the optimistic message of the send under
way, in each of its steps) and `WireInv` (a frame on its way tells of a stored message
for which no local one stands yet, so that adding the reply shows nothing twice).
`ShownOnce` follows because a local message whose id or text the list has is left
out of the merge; `NothingVanishes` because a step that drops a local message, or
renames it, leaves one with its text behind, in the list or among the locals. Both
are about the messages as they read, role and text: of two that read the same
either may stand for the other.

The lemmas about sequences, positions in them, and the greatest element of a set
are in `SeqFacts`. Where a set of numbers has to be gone through one by one (the
newest tickets, the greatest version) the induction is over the natural numbers as
a well-founded set (`InductionFacts`), stated of a set of numbers and not of an
operator, which the provers can instantiate.

Every safety property that a run checks is proved. For the proved modules but three
(`HostedAttach`, `DocumentDrafts` and `ChatTurn`, whose runs also check it) the type
invariant is proved and not run again, so that a run's properties are about the
code. Only model-checked is every liveness property
(`TeardownReachesBothEnds`, `EveryCallSettles`, `DeleteEndsSession`,
`DescriptorsReturned`, `EverythingArrives`, `AdoptionSettles`, `EveryUpdateSettles`,
`EveryRequestEnds`, `EndIsNoticed`, `WatchedIsRead`, `TurnSettles`, the liveness half
of the pipes), because fairness and ENABLED are outside the prover's reach.

## 6. Findings

With a run, `documents_accept`: `ui/views/documents/DocumentsView.tsx:416` says that
Apply "applies the suggested text to the draft as a brand-new version", but the
second of its two requests is a put of the item as the list showed it before the
first (`DocumentsView.tsx:422`), versions included, and a put replaces the whole
item (`bun/registries/store.ts:124`): the new version is gone at once.

The rest was seen in the models and needs no run of its own. The properties allow
for it where they must, in their statement.

The link to the daemon:

- `ui/lib/ws.ts:151`: the `onclose` of a socket that was replaced calls
  `failAllPending` unconditionally and rejects calls in flight on its healthy
  successor, contrary to `ws.ts:176`.
- `bun/index.ts:111`: the handle of a daemon of another major version carries the
  token too (`daemon-manager.ts:200`), and the proxy looks at the token only;
  `daemon-manager.ts:104` says that a daemon must report the same major to be driven.
- `ui/components/shell/DaemonGate.tsx:64`: "The probe also retries automatically";
  what it refetches is `/app/health`, which returns the handle as adoption left it
  (`bun/ui-server.ts:169`), so the gate stays.
- `bun/daemon-manager.ts:98`: a probe that times out counts as an unbound port, so
  a second daemon is started next to a slow one; `spawnedPid` may name a process
  that gave up the port.
- `bun/ws-bridge.ts:65`: a frame of more than `MAX_AUTH_SCAN_BYTES` is not parsed, and
  forwarded whatever it says, an auth frame padded to that size included, although
  "the webview must never be able to (re-)auth the bridge" (54-57).
  `AuthFirstAndOnce` says what holds: no auth frame of usual size passes.
- `bun/ui-server.ts:120`: a heartbeat goes between any two chunks of the upstream; if
  a chunk ends inside a line, or between an event line and its data, the frame is
  cut in two: its beginning is dispatched, garbled or without its data, and the rest
  is ignored or dispatched by itself. An id that is cut is kept for the next connect,
  or a stale one is. `bun/ui-server.ts:87` ("ignored by every spec-compliant parser")
  and `docs/ARCHITECTURE.md:57` ("streams SSE through untouched") promise otherwise.
  `ResumedExactlyOnce` and `EverythingArrives` except the frames that were cut, and no
  other. The pump does not look at `desiredSize` (`bun/ui-server.ts:130`).
- `ui/lib/sse.ts:118`: before the first id there is nothing to resume from; a stream
  that breaks until then reconnects without the header, and what the daemon sent in
  between does not come again. The properties begin after the last frame missed so.

Terminals, settings, registries:

- `bun/pty.ts:451`: the limit on sessions is checked before the body is awaited, so
  requests that overlap exceed it (`test/pty.test.ts:98` says "the cap must still
  bite").
- `bun/pty.ts:502`: input goes to `s.masterFd` after an await; the number is never
  cleared, so after the shell's exit it may be another session's descriptor.
- `bun/pty.ts:219`: the exit frame may overtake output that is still unread, and the
  record of a session whose exit is notified after the one prune timer
  (`bun/pty.ts:527`) stays listed.
- `bun/settings-store.ts:42`: whatever error `readFile` meets counts as a file that is
  not there, and `mutateAppSettings` then writes its own key on top of nothing: the
  other owners' keys are gone, although "cross-module writes can never lose each
  other" (9). `SerialStore` has `Misread` for it.
- `bun/settings-store.ts:56`: a reader that found the file damaged renames whatever
  is there by then, a freshly written file included. `SerialStore` has `GiveUp` for
  it, as long as such a reader is not done.
- `bun/index.ts:85`: the tray menu is built in the turn that starts `prime()` and not
  again when the preferences are read or put, so after a start with notifications
  paused it offers to pause them (`bun/index.ts:83`, `bun/notifications.ts:18`).
- `bun/notifications.ts:241`: two quick clicks on the tray's toggle both read the same
  value; a put of the whole preferences between load and save is undone.
- `bun/registries/store.ts:157`: `mutate` saves even if there was nothing to change,
  and a file that could not be read counts as empty, so that an append to a document
  in such a file wipes the collection. An import that fails half way leaves the
  collections before it imported.

Documents (`ui/views/documents/DocumentsView.tsx`, `ui/lib/drafts.ts`):

- `SyncFromLoad` (346-363) replaces text typed after the first save of a new document;
  a save's `onSuccess` clears a draft typed while it ran (`drafts.ts:143`).
- A comment's put that overlaps a save drops the saved version; Apply is not
  disabled while it runs (543); when its second request fails nothing is refetched.

Hosted sessions (`ui/views/sessions/HostedSessionsPanel.tsx`):

- Leave clears the selection even when another session was selected during its
  await (342). An answer of End is not guarded by the selection (270).
- When the tab is closed with an attach in flight its answer is dropped without a
  release; a dead panel's answer may detach a session the new panel shows; a create
  that answers with an id only detaches even what the user has selected meanwhile.
- With "Include ended" off, the list leaves terminated sessions out, so the repair
  of 157-159 does not happen: `EndIsNoticed` is about the toggle being on.

Chat (`ui/views/chat/`):

- The note "Sending: the live stream is reconnecting" is never cleared: `onReady`
  clears texts that start with "Reconnecting" (`useChatStream.ts:224`), and nobody
  sets one. It blocks the effect at `ChatView.tsx:452`, and the view then polls on.
- A turn that errors while the stream is down leaves "syncing", "sending while
  reconnecting" or "stopping" behind for good.
- Live text is not cleared by `turn.error`, nor by a break during which the turn
  ended: the partial reply stays under the fetched one (`MessageList.tsx:125`) and
  the next turn's text is appended to it.
- Selecting another chat does not reset the turn's state (`ChatView.tsx:871-874`); an
  `onError` may leave whatever chat is on screen by then (`useChatSend.ts:295`); New
  chat cancels the running turn of the chat that is left.
- A stop before `turn.started` names the previous turn and is refused
  (`useChatStream.ts:71-74`, `docs/turn-cancel-request.md:40` say otherwise).
- Merging by content hides the second of two equal messages until the list has it
  (`companion-chat.ts:189`); and misses a message with uploaded files, whose local
  ids differ.
- `useChatStream.ts:194`: 'Retry stream' opens a new stream that knows of no break
  (`hadDrop`, 214), so `onReady` does not have the list read again (217-228); if the
  turn is over nothing polls either, and a reply stored during the break is not
  read. And a first read still on its way when the stream is back is shared, not
  started over, so that it may have been served before. `WatchedIsRead` excepts what
  these two lose.
- A frame between the first read of a list and the first connect of its stream is not
  made up for; coming back within five seconds does not read the list again.
- `useChatSend.ts:158`: the send budget is looked at before the awaits and charged
  after them.

## 7. What is left

- `Subscriptions`: what a listener that is closed does to the capture that waits on
  it, and what `completeOAuthLogin` and `refreshOAuthToken` check before they store,
  is decided in an imported package whose source is not in this repository; a model
  would be about guesses. The two hazards are listed in `PROJECT.json` with that note.
- `WsLink`: `WsClient`, `WsTickets` and `WsBridge` composed over one connection. The
  three meet at narrow points (a ticket is presented once; a socket is one bridge),
  and the product of their states is large.
- `PtyClient` (`ui/views/terminal/pty-client.ts`) against `Pty`'s stream, and the
  reconfigurations of the wake-word host.

## 8. Not modelled

- The daemon itself, electrobun, Bun's sockets and the query library, except as the
  environment of the models.
- Byte counts, escape sequences, wording, layout, HTTP headers, wake-word signal
  processing: data no property tells apart.
- Edits of the settings file by other programs while the app runs, and a power loss
  that loses a rename.
- In `RegistryStore`: the plain file of `vibe.ts`, duplicates in an import's list of
  collections, the shape of the agent's files.
- In `DocumentDrafts`: deletes, a second window, lists that cannot be read.
- In `HostedAttach`: the transcript, steering, turn and tool frames, leases.
- In `ChatTurn`: attachments, slash commands, edit and regenerate, tool calls, the send
  budget, chats that are gone and tokens that expired, daemons before 1.11, reads
  that fail, messages of other clients, a view that is not visible.
- The feature views, some ninety thousand lines, and the tables generated from the
  daemon's packages: they render what the daemon answers, and their order and
  failure are those of the clients above.
- The parts listed as not modelled in `PROJECT.json`.
