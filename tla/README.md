# SyncWave in TLA+

Specifications of the collaborative editor in `src/`: what its server and its
browser tabs promise each other, checked with TLC on small instances and, where
marked, proved with TLAPS for every value of the constants.

## 1. The system

| part | code | state | operations |
|---|---|---|---|
| CRDT document | `internal/crdt/document.go` | linked list of nodes with OpIDs and tombstones, `Map`, `Tail` | `Insert`, `Delete`, `String`, `Len`, positions to OpIDs and back |
| room | `internal/hub/hub.go`, `client.go` | `clients`, `doc`, `clock`, `seqNum`, `opLog`, `mu` | `applyOp`, `handleMessage` (insert, delete, batch_sync, restore, ping, cursor, typing), joining, leaving |
| hub | `internal/hub/hub.go` | `rooms`, `userSeq`, `mu` | `getOrCreateRoom`, `removeRoomIfEmpty`, `ServeWS`, `BroadcastToRoom`, `Shutdown` |
| connection | `internal/hub/client.go` | `send` (256 messages), `closed`, `sendMu`, `closeOnce` | `safeSend`, `closeSend`, `writePump`, `readPump` |
| document store | `internal/docs/postgres.go` | one row per document: `content`, `seq_num` | `EnsureDocument`, `LoadStateOrCreate`, `SaveState` |
| analytics pool | `internal/analytics/worker.go`, `cmd/server/main.go` | `jobs` (100), 3 workers | `Submit`, `worker`, `Stop` |
| browser tab: editing | `internal/web/static/app.js` | `editor.value`, `shadow`, `lastSeq`, `lastSyncedContent`, placeholders | `onmessage`, `onopen`, `onclose`, the input listener, `diffToOps`, `mergeTexts` |
| browser tab: suggestions | `internal/web/static/app.js` | `currentSuggestion`, its cursor, the debounce timer | `scheduleAICompletion`, `requestAICompletion`, `acceptSuggestion`, `clearSuggestion` |
| AI assistant and its handler | `internal/ai/assistant.go`, `internal/web/handler.go` | one goroutine and one channel per completion | `StreamComplete`, `sendStreamResult`, `handleComplete`, `writeSSE` |
| load tester | `cmd/loadtest/main.go` | its text | joins, operations by position |
| HTTP API, accounts, rate limiter, configuration, text analysis, pages | `internal/web`, `internal/config`, `internal/analytics/analyzer.go` | little or none | not modelled, see section 7 |

A tab opens a WebSocket. `ServeWS` finds or creates the room of the document,
registers the connection and answers with the whole text (`full_sync`) or with
what the tab missed (`replay_sync`). The connection's `readPump` takes one
message after the other and handles each under `room.mu`: `applyOp` resolves a
position or an OpID, changes the list, numbers the operation, logs it and saves
the text, and the handler sends it to every connection of the room. A save also
submits an analytics job; a worker reports to the room through
`BroadcastToRoom`, again under `room.mu`. The last connection that leaves
removes the room, and the next one loads it from its row.

A tab shows at once what is typed, keeps a *shadow*, the identifiers of the
characters it shows, with placeholders for those the server has not named yet, and
takes the server's messages as they come. What is typed offline is merged with the
server's text when the tab is back. Completions go over HTTP: a goroutine asks the
model and fills a channel, the handler turns it into server-sent events, the tab
collects them into a suggestion.

What makes this hard: two locks (`Hub.mu`, `Room.mu`) and code that looks at
something under one and acts under the other; a bounded channel per connection
that drops what does not fit; numbers and identifiers that have to mean the same to
a room, its row, its log and tabs that outlive all three; a restart at any point;
edits that are shown before the server has seen them; a bounded queue filled under
a lock that those who empty it need; and answers that come after the text they
answer has changed.

## 2. Modules

| module | models | composed of |
|---|---|---|
| `Document` | `document.go` as operators on the sequence of nodes behind the root | |
| `DocumentList` | `document.go` as a doubly linked list at several sites; implements `Document` | `Document` |
| `SharedText` | what a document promises: one text, one number, one character at a time | |
| `Room` | one room, the send channels of its connections and its row, with crashes; implements `SharedText` | `Document`, `SharedText` |
| `Editor` | a room together with the tabs that edit it | `Room` |
| `ClientConn` | the goroutines of the connections of a room | |
| `Hub` | rooms of one document coming and going, section by section | |
| `WorkerPool` | handlers, jobs channel, workers and `Stop` | |
| `AIStream` | completions, their handler, and the tab's suggestion | |
| `MCRoom`, `MCEditor`, `MCClientConn`, `MCHub`, `MCWorkerPool`, `MCAIStream` | instances for TLC (`DocumentList` is run as it is) | |
| `DocumentProofs`, `DocumentListProofs`, `RoomProofs` (with `SharedText`), `EditorProofs`, `HubProofs`, `ClientConnProofs`, `WorkerPoolProofs`, `AIStreamProofs` | proofs | |

### Document and DocumentList

A document is the sequence of the nodes behind the root; `IndexOf` is what `Map`
gives. Loops that walk the list and count visible nodes are cardinalities. A
site is the rank of its name in Go's byte order. `DocumentList` has `Next`,
`Prev`, `Tail` and `Map` as they are, one list per site, and takes the loop of
`Insert` step by step. Sites exchange their operations in any order in which an
operation comes after the one that made the node it names, and operations may
come twice, as the convergence tests of `document_test.go` have them.

### Room and SharedText

| code | model |
|---|---|
| `Room.doc`, `clock`, `seqNum`, `opLog`, `clients` | `doc`, `clock`, `seqNum`, `opLog`, `clients` |
| `Hub.rooms[docID]`, `Hub.userSeq` | `live`, `userSeq` |
| `ClientConn.send`, `ClientConn.user.ID` | `send[c]`, `user[c]` |
| row of `documents` | `db` |
| `batch_sync` in progress, with `room.mu` held | `task` |
| `applyOp` | `applyOp`, with `Accepted`, `ResolvedAnchor`, `ResolvedTarget`, `Publish`, `Save` |
| `handleMessage` | `HandleOp` (`HandleInsert`, `HandleDelete`), `StartBatch`, `BatchStep`, `HandleRestore`, `Chat` |
| `ServeWS`, `getOrCreateRoom` | `Join`, `OpenRoom`, `Greeting` |
| end of `readPump`, `removeRoomIfEmpty` | `Leave` |
| `writePump` | `Pump` |
| the process killed and started again | `Crash` |

Abstractions. The handler of one message is one step, because `room.mu` is held
throughout; only `batch_sync`, which saves and broadcasts once per operation, is
one step per operation, so that a crash or a `writePump` may come in between. An
operation is saved and broadcast in one step: that the save comes first is read off the
code, not shown; `SavedBeforeSent` shows that the row's number is the room's between those steps, through
batches, crashes, removals and reloads.
A connection's channel stands for everything between the server and the browser:
what the network holds can be lost with the connection like what the channel
holds. Texts, names and colours that no property tells apart are left out:
`presence`, `pong`, `cursor`, `typing` and `activity` are one `Signal`. OpIDs a
client may name are those the room knows (`Nameable`) and `NoID`, which stands
for all it does not. Entering and leaving are atomic here; `Hub` is about what
happens when they are not, and `ClientConn` about the goroutines.

`SharedText` knows no room, row or process. The text of a document is that of its
room while there is one and that of its row when there is none, and so is its
number (`DocumentText`, `DocumentNumber`); `Room` implements it with these two.

### Editor

| code | model |
|---|---|
| `editor.value`, `shadow`, `lastSeq` | `tab[t].value`, `.shadow`, `.lastSeq` |
| `lastSyncedContent` (and whether it is set), `wasDisconnected`, `pendingRestore` | `.base`, `.synced`, `.away`, `.restoring` |
| `pendingInsertPlaceholders`, `placeholderCounter` (which `clientOpCounter` equals) | `.pending`, `.count` |
| what the WebSocket has sent and the server not yet handled | `up[t]` |
| `onopen`; `onclose` | `Open`; `Closed`, in `Disconnect` and `ServerCrash` |
| the input listener, `diffToOps` | `Type`, `diffToOps`, `Edited` |
| `onmessage` | `Show` with `Received`: `RemoteOp`, `SelfInsertAck`, `FullSynced` |
| `mergeTexts` | `mergeTexts`, with `MergePos` |
| `readPump` handing a message to `handleMessage` | `ServeJoin`, `ServeOp`, `ServeBatch`, `ServeBatchOp`, `ServeRestore` |

Every callback of the browser is one step, as it is in JavaScript. `Show` takes a
message out of the channel and through `onmessage` at once: messages are taken in
their order, and what is lost with a connection is lost from the channel. A
connection ends for both sides in one step, with everything on its way; a tab that is
back before the server noticed that it had gone is left out, since nothing
that an old connection is sent arrives anywhere. A placeholder is an identifier
with a negative clock: no room knows it, so that the server takes the position, as it
does for an unknown OpID. Edits are one character more, less, or replaced.

`strayed[t]` is a history variable: what happened to a tab, since it last started from a
`full_sync`, that may part it from the room. No action reads it but those that
record it. The causes are

| cause | what happened | where |
|---|---|---|
| `crossed` | a remote operation was shown over edits the server had not seen, or the server resolved an operation elsewhere because the text had changed | `app.js:657` |
| `skipped` | a number was never shown: the channel was full, or the replay did not begin where the tab had stopped | `client.go:52`, `hub.go:394` |
| `early` | a greeting was taken while something typed after `onopen` was unanswered | `app.js:625` |
| `torn` | operations, or a `full_sync`, were lost with the connection; or a replay, or the wait for a restore, met a text with unsent edits | `app.js:607`, `app.js:835` |
| `relabelled` | an echo whose placeholder was gone gave its OpID to another character | `app.js:271` |
| `reloaded` | the room went, with the process or when it was empty, and the next one has other OpIDs | `hub.go:207` |
| `retyped` | the tab was typed in while it was away: its shadow now has what it typed, and a replay builds on that | `app.js:786` |
| `misnamed` | a tab that is `reloaded`, `relabelled` or `retyped` sent an OpID of another character | `app.js:835` |
| `untold` | somebody restored a text that this tab was not sent, or that went with the room | `client.go:155` |
| `unanswered` | the answer to a restore found the channel full | `client.go:52` |

### ClientConn

`Room` takes sending a message for one step. Here it is made of what the mutexes, the
`Once` and the channel leave between: `LockSend` and `Enqueue` for `safeSend`;
`EnterOnce`, `SetClosed`, `CloseChannel` for `closeSend`; `Write`, `WriteFails`,
`WriteClose` for the `select` of `writePump`. `readPump` goes from `Enter` (in
`ServeWS`) through `Handle` to `ReadFails`, `LeaveRoom` and `CloseOwn`. `Worker` reports
through `BroadcastToRoom`, `Main` runs `Shutdown` and ends the process (`Exit`). A send on
a closed channel and a second close are the panics Go makes of them (`panicked`). Of
messages only the list of users in `presence` is kept. Removing the empty room is `Hub`'s.

### Hub

One document, its registered room, and the goroutine of every connection:
outside, holding a room it was given (`arriving`), in `Room.clients` (`inside`),
out of it again (`leaving`), or with the room counted empty (`clearing`). Every
section under `Hub.mu` or `Room.mu` is a step. A text is the set of the edits it
holds, since all that matters is which edits a save takes along. `cutOff` is a history
variable: a room was removed with somebody in it or on the way.

| code | model |
|---|---|
| `Hub.rooms[docID]`, `Room.clients`, `Room.doc`, the row | `registered`, `members`, `content`, `db` |
| where a connection's goroutine is, the room it holds | `pc`, `room` |
| `getOrCreateRoom`; the registration in `ServeWS` | `getOrCreateRoom`; `Enter` |
| end of `readPump`; the two halves of `removeRoomIfEmpty` | `Exit`; `CountMembers`, `removeRoom` |
| `Shutdown`: listing the rooms, then closing the connections of each | `ListRooms`, `CloseRoom`, with `phase` and `found` |
| `ClientConn.closed` | `closed` |

`Shutdown` looks at `Hub.rooms` once. `late` is a history variable: the connections that
entered a room after that, which it need not reach and which `main` does not wait for.
A closed connection goes on until its `readPump` gets the error.

### WorkerPool

A handler locks its room for a message of some operations, submits a job for
each, and unlocks. A worker takes a job and reports it, which needs the lock of
its room. `Close` and `Wait` are `Stop`. `SubmitPanics` is `Submit` on the closed
channel: the deferred function of `readPump` then waits for the mutex that its own
goroutine holds, and the handler does nothing more. `backlog` counts operations
received and not yet reported; it bounds the model and, in `pool_backlog`, states the
condition under which the pool works.

### AIStream

| code | model |
|---|---|
| the goroutine of `StreamComplete`, its `select` in `sendStreamResult` | `llm`; `MakeToken`, `SendToken`, `Complete`, `Fail`, `ReportError`, `SendError` |
| the 15 s; the request's context | `Timeout`; `ctx` |
| `resultChan` | `chan` |
| `handleComplete`, `writeSSE` | `Relay`, `Finish`, `Abort`; `wire` |
| `aiDebounceTimer`, `requestAICompletion` | `due`, `requestAICompletion`, `DontAsk` |
| reading the body | `StartRead`, `ReadEvent`, `ReadEnd` |
| `currentSuggestion`, `suggestionCursorPos` | `suggestion`, `pos` |
| input, remote operations, `full_sync`, Tab, Escape | `Type`, `RemoteEdit`, `FullSync`, `acceptSuggestion`, `Dismiss` |

Texts are a counter of changes (`edits`), tokens their number in their answer. `flaw` is a
history variable, which no action reads but those that record it: what made the suggestion
unfit for the text it would be put into, if anything did.

| flaw | what happened | where |
|---|---|---|
| `overlapped` | an answer began while another was read or awaited; both add to one suggestion | `app.js:1023` |
| `cleared` | the suggestion and its cursor were cleared, by Escape, typing, Tab or somebody else's edit, while the answer was read or awaited; the fetch goes on, and what comes is suggested for the end of the text | `app.js:1056`, `app.js:1066` |
| `replaced` | a `full_sync` replaced the text and left suggestion and cursor | `app.js:625` |

## 3. What is checked

| run | question | answer |
|---|---|---|
| `room_edit` | Two clients edit, in batches too, join with any number, leave, and the server crashes anywhere. Are identifiers fresh, the log contiguous, the row up to date with all that anybody was told, echoed positions those where the text changed, nodes where they were, and is all of it one shared text? | yes |
| `room_faults` | The same with failing loads and saves, restores, and channels full of chatter: are identifiers unique and channels in the order of the numbers? | yes |
| `editor_tabs` | Two tabs type, break off, type offline, merge, restore and live through a crash. Do they show the room's text under the room's names unless one of the causes above parted them, discard only what they show already, get their restores answered, and merge offline edits where they were typed? | yes |
| `hub_rooms` | Three connections: does no room leak, and is the race of `removeRoomIfEmpty`, with a database that works, the only way to separate users, to lose an edit and to hide a connection from `Shutdown`? | yes |
| `conn_close` | Goroutines of two connections, a worker and `Shutdown`: does nobody panic, is everything that was taken for sending written, presence true, every connection that is over cleaned up, and the room never kept locked by sending? | yes |
| `ai_stream` | Two completions that overlap, fail, time out, get lost and meet edits: does `[DONE]` mean it, is whatever Tab would insert the answer to the text, at its place and without a gap, unless one of the three flaws above is on record, does everything end? | yes |
| `pool_backlog` | With at most as many operations on their way as channel and workers hold: does nobody jam, is every room unlocked again, does `Stop` leave nothing unreported, and what alone keeps it from returning? | yes |
| `document_converge` | Are the links consistent, do sites converge, and does the list implement `Document`? | yes |
| `editor_crossed` | Do two who type at the same time end with one text? | no |
| `editor_restart` | Do tabs that come back after a restart end with the server's text? | no |
| `hub_two_rooms` | Do all who edit a document do it in one room? | no |
| `pool_jam` | Is submitting asynchronous? | no |

The four runs that end in a violation are disagreements between the code and
what the repository says of it:

- `editor_crossed` (`app.js:657`, against `AUTH_READY_PLAN.md:61`): a tab types, and before the server
  has handled that, gets an operation of another tab at its position in the server's text.
  Neither is transformed. No later message repairs it, only the next `full_sync`.
- `editor_restart` (`app.js:835`, against `README.md:165`): the server restarts, the tab comes back by
  `replay_sync` with its old shadow, and the loaded room has numbered its characters anew. An
  edit names an old OpID that is now another character's, and the server prefers the OpID
  to the position.
- `hub_two_rooms` (`hub.go:207`, against `AUTH_READY_PLAN.md:6`): A leaves and counts zero, B enters, A
  removes the room, C gets a new one. B and C overwrite each other's saves.
- `pool_jam` (`main.go:59`, against `main.go:58`): one batch with more operations than the channel and the
  workers take is enough, since the workers report to the room the batch has locked.

`editor_tabs`, `hub_rooms` and `pool_backlog` say the other half: outside the named causes, the race and
that load, the same code is right. Other divergences that the models show are conditions
of the properties, and taking one away makes TLC find it:

| take away | what TLC shows |
|---|---|
| allow `skipped` in `SettledSameText` | a channel that is full drops an operation and nobody closes the connection (`client.go:52`); the next one moves `lastSeq` past the gap, so that not even a reconnection repairs it. Or: everybody leaves, others edit the next room, and the tab's number is in range of a log that begins later (`hub.go:394`) |
| allow `early`, `torn` or `untold` there | typing between `onopen` and the greeting; operations lost with a connection that came back by replay; a restored text of which the other tabs hear nothing |
| allow `relabelled` in `SettledSameNames` | type a character and replace it before its echo comes: the echo names the character that replaced it |
| allow `retyped` there | with a longer document than that of `editor_tabs`: a tab makes `aab`, `ab` and again `abb` of `abb` while it is away, and comes back with the text it left, by a replay; its shadow has a placeholder and the identifiers behind it one place off |
| allow `cleared` in `SuggestionFits` | with one request and an unchanged text: the first token is shown, Escape dismisses it, the second token is read and is a suggestion of its own (`app.js:1023`), without a cursor, so that Tab puts it at the end of the document (`app.js:1066`): the answer's tail, in the wrong place. Typing, Tab or a remote operation while the answer comes does the same with an answer to a text that is gone. (The status line offers "Esc Dismiss", `index.html:95`) |
| allow `overlapped` there | type and ask, type again before the answer begins and ask again: the tokens of both answers stand in one suggestion, in the order they come |
| allow `replaced` there | a `full_sync` while a suggestion is shown: it stays, and Tab puts it where the cursor was in the text that was replaced |
| the timeout in `DoneIsTrue` | `sendStreamResult` refuses the error when the 15 s are over, and the tab is told `[DONE]` (`assistant.go:88`) |
| the panicked handler in `StopReturns` | a handler submits after `close(jobs)` (`worker.go:68`) and keeps its room locked, and a worker with a job of that room never ends |
| check `SavesAdvance` of `Room` with `LoadMayFail = TRUE` | a load that fails is logged, the room starts empty at number 0, and its first operation is saved over the document (`hub.go:168`) |

### Bounds

| run | instance | why it is enough |
|---|---|---|
| `room_edit` | 2 clients, 2 characters, positions before, inside and behind every text, channels of 3, log of 2, 3 operations, 2 joins per process | three operations overflow log and channels, make tombstones in front of, between and behind visible nodes, and leave one operation after each reload; batches of two include one that is refused and one that names a position past the end |
| `room_faults` | as above with 1 character, 1 position, channels of 2, log of 1, 2 numbered operations, clock up to 4 | every operation trims the log, every message finds a full channel; a restore, a restart and an edit fit the clock in any order |
| `editor_*` | 2 tabs, a document of one character, channels of 2 (4 for the violations, so that dropping is not the cause), 2 edits of one character each (one character that is inserted, two that may replace another), 3 edits and breaks together, 4 numbers, 3 joins | a replaced character is two operations, and replacing what was just typed makes an echo whose placeholder is gone; two edits may be of one tab or of both, before, while or after a connection is lost; a restore, a merge, and a batch each fit in with one break before them. The document starts at number 1, so that a tab can be told to replay |
| `hub_*` | 3 connections, 3 rooms, 3 edits, one `Shutdown` at any point | the race needs one that leaves, one that enters and one that finds nothing; a third room lets a late remover meet a later room; three edits are one in each room, or two that two rooms overwrite and one after them |
| `conn_close` | 2 connections, channels of 2, 1 message or report besides greeting and presence, one `Shutdown` at any point | a greeting and a presence fill a channel, so that the next message is dropped; closing races with sending by the connection itself, by the other one, by the worker and by `Shutdown` |
| `ai_stream` | 2 requests, channel of 1, 2 tokens, 2 changes of the text | the channel is full after one token; the second request is made while the first is read, and a change fits before and after each |
| `pool_*` | 3 handlers in 2 rooms, 2 workers, channel of 2, messages of 1 or 3 operations, backlog of 4 or 5 | all workers can be held by one room while handlers of the other one wait; 4 is the number channel and workers hold, 5 the first one above |
| `document_converge` | 2 sites, 5 operations, 1 of them a deletion | 3 operations make concurrent insertions behind one anchor, 4 insert between them, a fifth deletes one that others are anchored to |

`MaxSeq`, `MaxClock`, `MaxJoins`, `MaxTyped`, `MaxEvents`, `MaxRooms`, `MaxEdits`, `MaxMsgs`, `MaxTokens`,
`MaxOps`, `MaxDeletes` and `MaxBacklog` are the bounds of the models; all other constants are
sizes and inputs of the code. Clients and connections are symmetric where a cfg says
`SYMMETRY`; it is not used with a liveness property. Deadlock is not checked: every model may
stop, at its bounds and, for `ClientConn` and the pool, at the end of the process.

### Fairness

`ConnFairness` and `StreamFairness` are weak fairness of everything together that goes on by
itself. No behaviour of these two models is endless, so that it is enough to ask that something
happens as long as something can. The code justifies it: Go runs what can run, a mutex is
handed to whoever waits, reads and writes of sockets have deadlines (`pongWait`, `writeWait`),
and the context of a completion ends after 15 s, while the model itself is not assumed to
answer (`Running` leaves it out until the context is over). Nothing is assumed of messages,
new connections, typing, `Shutdown` or the end of the process.

`PoolFairSpec` takes each goroutine that can go on to do so. It is strong fairness because a worker
that waits for a mutex finds it free and taken again and again while messages keep coming, and
Go's mutexes hand over to a waiter after a millisecond; the same holds for a
handler that waits for a place in a channel, whose senders queue in order. Nothing is
assumed of `Lock` and `Close`: messages need not come, and the process need not end.

## 4. What is proved

| theorem | says |
|---|---|
| `DocumentListProofs!ListTypeCorrect` | `ListSpec => []ListTypeOK` |
| `DocumentListProofs!LinksAlwaysAgree` | `ListSpec => []LinksAgree` |
| `DocumentListProofs!LinksAlwaysConsistent` | `ListSpec => []LinksConsistent` |
| `DocumentListProofs!AlwaysConverged` | `ListSpec => []Converged` |
| `DocumentListProofs!ListImplementsDocument` | `ListSpec => ImplementsDocument` |
| `RoomProofs!TypeCorrect` | `Spec => []TypeOK` |
| `RoomProofs!IDsAreFresh` | `Spec => []FreshIDs` |
| `RoomProofs!LogIsContiguous` | `Spec => []LogContiguous` |
| `RoomProofs!SavedBeforeSentAlways` | `Spec => []SavedBeforeSent` |
| `RoomProofs!SavedTextAlways` | `Spec => []SavedText` |
| `RoomProofs!OutboxIsOrdered` | `Spec => []OutboxOrdered` |
| `RoomProofs!NodesAlwaysStay` | `Spec => NodesStay` |
| `RoomProofs!EchoIsRight` | `Spec => EchoMatches` |
| `RoomProofs!RoomImplementsSharedText` | `Spec => SharedTextSpec`, if the database works and nobody restores |
| `EditorProofs!TabsTypeCorrect` | `EditorSpec => []EditorTypeOK` |
| `EditorProofs!MergeAlwaysKeepsPlace` | `EditorSpec => MergeKeepsPlace` |
| `EditorProofs!FreshOpsAlwaysShown` | `EditorSpec => []FreshOpsShown`, if the database works |
| `EditorProofs!RestoreAlwaysAnswered` | `EditorSpec => []RestoreAnswered` |
| `EditorProofs!SettledAlwaysSameText` | `EditorSpec => []SettledSameText`, if the database works |
| `EditorProofs!SettledAlwaysSameNames` | `EditorSpec => []SettledSameNames`, if the database works |
| `HubProofs!HubTypeCorrect` | `HubSpec => []HubTypeOK` |
| `HubProofs!RoomsAreHeld` | `HubSpec => []RegisteredIsHeld` |
| `HubProofs!UsersShareRoomAlways` | `HubSpec => []UsersShareRoom` |
| `HubProofs!NoEditLost` | `HubSpec => []EditsStaySaved` |
| `HubProofs!ShutdownReaches` | `HubSpec => []ShutdownReachesAll` |
| `ClientConnProofs!ConnTypeCorrect` | `ConnSpec => []ConnTypeOK` |
| `ClientConnProofs!NoPanic` | `ConnSpec => []NeverPanics` |
| `ClientConnProofs!AllWritten` | `ConnSpec => []WrittenOut` |
| `ClientConnProofs!PresenceTold` | `ConnSpec => []PresenceIsTrue` |
| `AIStreamProofs!StreamTypeCorrect` | `StreamSpec => []StreamTypeOK` |
| `AIStreamProofs!DoneIsAlwaysTrue` | `StreamSpec => []DoneIsTrue` |
| `AIStreamProofs!SuggestionAlwaysFits` | `StreamSpec => []SuggestionFits` |
| `WorkerPoolProofs!PoolTypeCorrect` | `PoolSpec => []PoolTypeOK` |
| `WorkerPoolProofs!StopHasDrained` | `PoolSpec => []StopDrains` |
| `WorkerPoolProofs!PoolNeverJams` | `PoolSpec => []NeverJammed`, for finitely many workers and at most `JobBuf + Cardinality(Workers)` operations on their way |

They hold for any clients, characters, positions, batches, restores, buffer sizes
and bounds (the named assumptions of the modules say only that sizes are positive,
that actors differ and that inputs have the type of a message), hence also for SyncWave's
own sizes.

*Induction.* The theorems of the library that take a predicate cannot be used, but a set of naturals
has a least element (`LeastOf`, from well-foundedness), and what holds of 0 and of every number with the one before it
holds up to any `n` (`UpTo`). With them the proofs go along a list, through the operations of a replay and
over the sites' histories.

*List.* `ListInv` says, node by node, that its neighbours know it (`Agree`), that an insertion in
progress stands at a node of the list with a node the list has not (in `ListTypeOK`), and that what it
inserts was issued, with an identifier that is not `Nil` (`Inserting`, `Issuing`). `SpliceLinksIn` is the
splice of `Insert` in its three places. `OrderInv` adds for every site that there is an order of its
nodes along which the pointers lead (`Order`, and `OrderIsWalk`: it is what `Walk` returns, whence
`LinksConsistent`); that identifiers are issued once and nodes and received operations tell of each other
(`IssuedOnce`, `NodesAreApplied`); and that every node stands behind its anchor with nothing between but nodes
its insertion would have walked over (`Placed`, which `SpliceInserts` keeps because the loop walked over just
these, `Standing`). Two orders of the same nodes that are both `Placed` are one (`OneOrder`): of the
pairs they have the other way round take one with the least sum of clocks; the anchor of the node with
the higher priority, whose clock is smaller, is then the other way round too (`EarlierCrossing`), which cannot be. So sites with the same operations hold
the same list, `Converged`. For `ImplementsDocument`, `CursorIsCounted` shows that the cursor of the loop stands
where `Document` counts to, and `SpliceInserts` and `DeleteDeletes` that the step then makes the sequence `Document` returns.

*Room.* `TypeOK` is not inductive: that an echoed position is a natural number needs
that the list did take the new node, which it refuses when it knows the identifier. So
types come with `FreshIDs`, and with `Occupied` (a room with clients is live, the sender
of a batch is a client): `RoomInv == TypeOK /\ FreshIDs /\ Occupied`. `DocumentProofs`
has the lemmas below it: positions of visible nodes count up without gaps
(`VisibleAtPosition`, `VisiblePosType`), an insertion under a clock above all others
lands right behind its anchor (`InsertBehindAnchor`), insertions, deletions and chains
keep clocks distinct (`SplicedFresh`, `DeletedFresh`, `ChainFresh`), and a text that was
saved and loaded is the same text (`ChainText`). `StepKinds` sums up every step as one
that applies an operation, opens a room, closes it, or leaves number, log and row alone;
`LogContiguous`, `SavedBeforeSent` and `SavedText` follow from it. `OutboxOrdered` is proved
channel by channel: a message above the room's number, or one that is no operation and not
ahead of it, may be appended (`SafeSendOrdered`), dropped or not. `NodesStay` is proved by giving every step a
map from old places to new ones that keeps order, identifier, character and deletion (`KeptAt`); with distinct
clocks `IndexOf` finds a node where the map puts it. All invariants are proved of `RoomStep`, the steps of a
room under any inputs, so that they hold for `Editor` too.

*Shared text.* A node at a place of the list stands at the position of the text that counts the
visible nodes before it (`PositionOfPlace`). `SplicedText` and `DeletedText` say that a new node puts
one character there and a tombstone takes one away, and no other place changes: the visible
nodes on both sides are as many as before (`ShiftCardinality`). So every operation that is accepted
`Fits` what it echoes (`ApplyOpShows`), whether a position or an OpID named its place. `TextSteps` then
gives four kinds of steps: the text changes as echoed, stays, is loaded, or goes with its room; the row
holds the same text and number when it does (`SavedText`, `SavedBeforeSent`), which makes the last
two stutter. That needs `Dependable`, a working database and no restores: otherwise a room may
open with another text than the last one had, and does in `room_faults`.

*Editor.* Every step of the editor is a step of its room (`EditorIsRoomStep`), so all that is proved
of a room holds in it, and `ChannelStep` adds what one step does to one channel: something is appended, dropped,
taken, or all of it goes. `EditorInv == RoomInv /\ EditorTypeOK /\ ChannelsOK` is inductive: a shadow is as long as its
text because a `full_sync` brings as many identifiers as characters, which `ChannelsOK` says of those on their
way; `ReplayExists` shows that the recursive function of `Replayed` exists for any operations, and
`ReplayedAligned` that its end is a tab like any other. `MergeKeepsPlace` needs no invariant but types: the
ends that `PrefixLen` and `SuffixLen` measure are shared and do not overlap (`EndsShared`), and when no character comes twice and
what the server replaced is gone, a character that both have is in the prefix or in the suffix (`SharedPlace`), so that `MergePos` is
the place between them (`MergeKeeps`). `FreshOpsShown` follows from `NumbersAhead`: no tab is ahead of the
document's number, even while there is no room, and operations in a channel are above what their tab has seen.
That takes `SavedBeforeSent`, so that a room that is loaded again does not begin with lower numbers, and
`OutboxOrdered`, so that what a message moves `lastSeq` to stays below what comes after it; the database has to work, or the
numbers do go back. `RestoreAnswered` follows the request from the tab to the server and its answer back (`Awaits`): a tab asks
when a `full_sync` reaches it with its connection open, so that only the end of the connection, which ends
the waiting too, or a full channel loses either.

*Convergence.* `SettledSameText` speaks of tabs for which nothing is on its way, and its invariant `TabsInv` has to
speak of all others. `Orderly` says what may be on its way in which order: a join comes first, a
`replay_sync` is the first message of a connection, there is at most one `full_sync`, and a tab asks for one restore
at a time, when it has no `full_sync` to wait for. `Followed` says of every tab that has not strayed that there is a history `T`, a text for every number,
which ends with the document's text and which every operation in the log and in the tab's channel makes (`Record`), such
that the tab stands in it (`Follows`) in one of four ways. A `full_sync` on its way to it has the text of its number (`FullAt`). Or a
`replay_sync` on its way takes the text of the tab's number to that of its own (`ReplayAt`). Or the tab is away
and what it last agreed on is the text of its number. Or it is connected, and then either `Keeps`: what the room has beyond
the tab's number, up to some `k`, are the tab's own operations, and from the text of `k` the rest of its batch and of what it sent lead to what
it shows; or `Lost`: an operation of somebody else came before the end of its own work, so that the tab will
be shown it out of turn (`crossed`) or miss it (`skipped`) before it can settle. `Lost` is needed because a tab strays
only when the other operation is shown to it, and until then what it sent may have been applied to texts it never had.
`ElsewhereFollows` does the steps of others, at once for all of them; the tab's own have a lemma each. That typing fits is
`DiffShows` (the operations of `diffToOps` make the new text of the old one), that a `full_sync` does is `ReceivedFull`, that a
greeting leaves no gap is `MissedProperties`. The database has to work, because a row that lags behind, or an
empty room, would give a number two texts.

*Names.* `SettledSameNames` says of the shadow what `SettledSameText` says of the text, and its invariant is
`NamesInv == TabsInv /\ NamesFollowed`. `NamesFollowed` gives every tab to which nothing happened (`strayed[t] = {}`) a history `N`
of the identifiers of the visible characters, one sequence for every number, which operations make as they make texts
(`MakesNames`: the text of a document whose characters are its identifiers, `NamesText`, so that all that was proved of
texts holds of names). `Bears` says that a shadow has the names of such a sequence, save where it has placeholders of its own. What is on its way both to
and from a tab decides what stands there (`Carries`): the names of number `k`, changed by what the tab has
asked for and the room has still to do, with the tab's own placeholders in place of identifiers that do not exist yet
(`NameSteps`), are a sequence `v` that the shadow bears; at a placeholder whose echo is on its way `v` has the
identifier that the echo brings (`Told`), and at one that is still asked for it has the placeholder itself (`Untold`), which no
two requests share. When the room does the first request, `v` gets the identifier in place of the placeholder everywhere (`CarriesServed`, by `Rename`);
when the echo comes, the shadow gets it (`CarriesTold`); when the tab types, requests and shadow change alike (`CarriesTyped`).
With nothing on its way `v` is what the room has. That takes more than convergence of texts does: an echo whose character
was replaced since (`relabelled`), and a replay on top of what was typed while away (`retyped`), leave the text right
and the identifiers beside their characters. Both are causes by which a tab strays, and have to be.

*Hub.* `HubInv` adds to the three invariants that the content of the registered room is
what is saved (`RegisteredIsSaved`), without which an edit made in a room that was removed
and loaded again could not be followed. `ShutdownInv` follows a connection that is not late
through both halves of `Shutdown`: it is in the room that was listed, and closed once that
room has been.

*Connections.* `ConnInv` adds who may hold what: a `readPump` that holds `room.mu` is in a section
that locked it (`RoomMuHeld`), the `Once` is run by `Main` or by the connection's own reader (`OnceOwner`), the channel
is shut when the `Once` is done and never before the flag is set (`ShutLast`), and who holds `sendMu` to send found
the flag unset, which stays so (`SendersFirst`). The flag is what keeps the panics away: `Shutdown` closes
connections that are still in the room and are sent to afterwards. The calls themselves would not
overlap without `sendMu` either, since `Shutdown` closes and everybody sends under `room.mu`, and a `readPump`
closes its connection only after it left the room. `PresenceTold` needs in addition that a connection that presence
has not reached is in `todo` (`PresenceKept`).

*Completions.* `DoneInv`: when the goroutine has ended without completing the answer and somebody still
waits for it, the error is in the channel or the 15 s have passed (`ErrorWaits`); so a handler that
finds the channel closed and empty may write `[DONE]`, which is written last (`ToldDone`). A context is
only cancelled when the tab reads no more (`LostIsClosed`). For `SuggestionFits`, `LineInv` counts the tokens of an
answer along their whole way: those the tab has read, those on the wire, those in the channel and the one in
the goroutine's hands are `1 .. made[r]`, in this order and without a gap, as long as somebody can read them;
`ShownInv` says that as long as `flaw` is "none", an answer that is read is the only one read or awaited and was asked
for in the text as it is, with the cursor where it was (`Lonely`); that what is suggested is what was read of the request whose
cursor is kept (`Stands`), all of it after `[DONE]` (`Whole`); and that the timer runs only without a cursor (`DueInv`), so that no new
request takes the cursor from under a suggestion. Nothing is assumed of the states in which the cursor is cleared: they are in `flaw`'s
record or there is nothing to insert.

*Pool.* `Ending`: a worker ends only when the channel is closed and empty, which it stays. `NeverJammed` comes
from an account of the operations (`Accounted`): those that handlers have still to submit, those in the channel and those
workers report add up to `backlog`. In a jam the channel is full, every worker reports and some handler has one more, so
that `backlog` is above `JobBuf + Cardinality(Workers)`. The bound is sharp: with one more `pool_jam` has the jam.

So every safety property of every passing run is proved. Model-checked only, on the instances above, is
liveness (`RoomsUnlock`, `StopReturns`, `ConnectionsEnd`, `RoomMuReleased`, `StreamsEnd`), since TLAPS does
not prove liveness under fairness.

## 5. Hazards and the properties that answer them

`PROJECT.json` lists every place of the code where something can go wrong that a test would
hardly reach, with the properties about it. What no property denies, because the code does it:

- The browser counts UTF-16 units and the server runes (`app.js:859`). A character outside the basic
  plane is two operations, and positions behind it differ after the next `full_sync`. Characters are
  abstract here, one unit on both sides.
- `main` returns while `writePump`s may still have messages: `http.Server.Shutdown` does not wait for
  connections that were upgraded (`main.go:91`), although `README.md:17` promises draining. `ConnectionsEnd` has
  its exception for that.
- An operation that was applied and whose echo was lost is not in `lastSyncedContent`: after the
  reconnection the merge sends it again, and the text has it twice. Tab and room agree on that text, so
  that `SettledSameText` holds.
- `mergeTexts` returns the server's text when the local change only deletes: deletions made offline
  are taken back. Again both sides agree.
- A load that fails loses the document at the next save (`hub.go:168`); the room itself stays sound.

## 6. Running

    tlc -config Room_edit.cfg MCRoom
    tlc -config Editor_tabs.cfg MCEditor
    tlc -config Hub_rooms.cfg MCHub
    tlc -config Conn_close.cfg MCClientConn
    tlc -config AI_stream.cfg MCAIStream
    tlc -config Pool_backlog.cfg MCWorkerPool
    tlc -config Document_converge.cfg DocumentList
    tlapm EditorProofs.tla

The longest runs, `editor_tabs` (2.2 million states), `ai_stream` (1.1 million) and `document_converge` (half a million),
take about two minutes each. `EditorProofs` takes about twenty minutes from nothing, the other proofs a few.

The operators marked "Bug variant" are not part of the models: each is a plausible mistake in
the definition that follows it, and a property of a run has to notice when it is put in its place.

## 7. Not modelled

- HTTP API, accounts, rate limiter (`internal/web`): each request is one statement on the store; the
  limiter counts under one mutex and resets every minute.
- Text analysis and the building of prompts: pure functions of a text. Configuration, pages and
  styles: no state of the system.
- Cursors, toasts, titles and layout of the tab: no other part reads them.
- Keepalive and message size limits: each ends a connection, which may end at any time here.
- Origin check and statistics of the hub: they change nothing.
- Listing, naming and creating documents, and users (`postgres.go`): single statements that nothing
  else here reads.
- The load tester: a client that measures; what it sends, operations by position from a new
  connection, are inputs of `Room`.
