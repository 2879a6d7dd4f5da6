-------------------------------- MODULE Room --------------------------------
(***************************************************************************)
(* One document on the server: the Room of internal/hub/hub.go, the send   *)
(* channel of every ClientConn in it (internal/hub/client.go) and the row  *)
(* of the documents table it is saved to (internal/docs/postgres.go).      *)
(*                                                                         *)
(* Every handler runs under room.mu.  The handlers of one message are one  *)
(* step, except batch_sync, which saves and broadcasts once per operation: *)
(* it holds the lock (task) over one step per operation, so that a crash   *)
(* or a writePump can come between two of them.  Creating and removing the *)
(* room is one step with joining and leaving it here; Hub.tla takes those  *)
(* apart.                                                                  *)
(***************************************************************************)
EXTENDS Integers, Sequences, FiniteSets, Document

CONSTANTS
    Clients,        \* connections that may join the room
    Chars,          \* characters that may be typed
    SendBuf,        \* sendBufSize, the capacity of ClientConn.send
    MaxOpLog,       \* maxOpLogSize
    Positions,      \* the values clients put in Message.Position
    Batches,        \* the operation lists clients put in a batch_sync
    Restores,       \* the texts clients put in a restore
    Chatter,        \* the kinds of message that only fill send channels
    SaveMayFail,    \* whether SaveState may return an error
    LoadMayFail,    \* whether LoadStateOrCreate may return an error
    MaxSeq,         \* bound: operations accepted on the document
    MaxClock,       \* bound: Lamport clock of a room
    MaxJoins        \* bound: connections served by one server process

NoID == [clock |-> -1, site |-> RootSite]

\* insert and delete as a client sends them; ID is anchorID or targetID, and
\* NoID when the client gave none.  clientOpID is what the sender knows its
\* insertion by; it comes back in the echo, and the room does not look at it.
InsertRequest == [type : {"insert"}, Char : Chars, Position : Int, ID : OpID, clientOpID : Nat]
DeleteRequest == [type : {"delete"}, Position : Int, ID : OpID]
Request == InsertRequest \cup DeleteRequest

ASSUME BufferAssumption == SendBuf \in Nat \ {0} /\ MaxOpLog \in Nat \ {0}
ASSUME InputAssumption ==
    /\ Positions \subseteq Int
    /\ Batches \subseteq Seq(Request)
    /\ Restores \subseteq Seq(Chars)
    /\ Chatter \subseteq {"ping", "cursor", "typing", "activity"}
ASSUME FaultAssumption == SaveMayFail \in BOOLEAN /\ LoadMayFail \in BOOLEAN
ASSUME BoundAssumption == MaxSeq \in Nat /\ MaxClock \in Nat /\ MaxJoins \in Nat

\* The SiteID "persist", above every user in Go's byte order.
PersistSite == MaxJoins + 1

VARIABLES
    live,       \* hub.rooms holds a room for the document
    clients,    \* Room.clients
    doc,        \* Room.doc
    clock,      \* Room.clock
    seqNum,     \* Room.seqNum
    opLog,      \* Room.opLog; a LogEntry is its Msg, which carries the same Seq
    send,       \* ClientConn.send of every connection
    user,       \* ClientConn.user.ID of every connection
    userSeq,    \* Hub.userSeq
    task,       \* the batch_sync that holds room.mu, if any
    db          \* content and seq_num of the document's row

roomVars == <<live, doc, clock, seqNum, opLog>>
vars == <<live, clients, doc, clock, seqNum, opLog, send, user, userSeq, task, db>>

NoTask == [todo |-> << >>]
Task == {NoTask} \cup [who : Clients, todo : Seq(Request)]

InsertOp == [type : {"insert"}, seq : Nat, userID : Nat, position : Nat,
             Char : Chars, newID : OpID, clientOpID : Nat]
DeleteOp == [type : {"delete"}, seq : Nat, userID : Nat, position : Nat, targetID : OpID]
Op == InsertOp \cup DeleteOp
FullSync == [type : {"full_sync"}, seq : Nat, content : Seq(Chars), nodeIDs : Seq(OpID)]
ReplaySync == [type : {"replay_sync"}, seq : Nat, ops : Seq(Op)]
\* presence, pong, cursor, typing and activity: they carry no number and no
\* text, and no property tells them apart.
Signal == [type |-> "signal", seq |-> 0]
Message == Op \cup FullSync \cup ReplaySync \cup {Signal}

IsOp(m) == m.type \in {"insert", "delete"}

TypeOK ==
    /\ live \in BOOLEAN
    /\ clients \in SUBSET Clients
    /\ doc \in Seq(Node(Chars))
    /\ clock \in Nat
    /\ seqNum \in Nat
    /\ opLog \in Seq(Op)
    /\ send \in [Clients -> Seq(Message)]
    /\ user \in [Clients -> Nat]
    /\ userSeq \in Nat
    /\ task \in Task
    /\ db \in [content : Seq(Chars), seq : Nat]

\* A server without rooms, and the row that it finds.
InitWith(row) ==
    /\ live = FALSE
    /\ clients = {}
    /\ doc = EmptyDocument
    /\ clock = 0
    /\ seqNum = 0
    /\ opLog = << >>
    /\ send = [c \in Clients |-> << >>]
    /\ user = [c \in Clients |-> 0]
    /\ userSeq = 0
    /\ task = NoTask
    /\ db = row

\* EnsureDocument makes an empty row.
Init == InitWith([content |-> << >>, seq |-> 0])

Unlocked == task = NoTask

-----------------------------------------------------------------------------
(***************************************************************************)
(* Sending.                                                                *)
(***************************************************************************)

\* safeSend: a full channel silently drops the message.
safeSend(q, m) == IF Len(q) < SendBuf THEN Append(q, m) ELSE q

\* The send channels after m was sent to every connection in to.
Broadcast(to, m) ==
    [c \in Clients |-> IF c \in to THEN safeSend(send[c], m) ELSE send[c]]

-----------------------------------------------------------------------------
(***************************************************************************)
(* applyOp: resolving, applying, logging and saving one operation.         *)
(***************************************************************************)

Clamped(pos) == IF pos < 0 THEN 0 ELSE IF pos > DocLen(doc) THEN DocLen(doc) ELSE pos

ResolvedAnchor(r) ==
    IF Known(doc, r.ID) THEN r.ID ELSE GetAnchorIDForPos(doc, Clamped(r.Position))

ResolvedTarget(r) ==
    IF Known(doc, r.ID) THEN r.ID ELSE GetNodeIDAtVisiblePos(doc, r.Position)

\* Bug variant: a deletion that resolves to nothing is not refused.
AcceptedAlways(r) == r.type \in {"insert", "delete"}

\* The delete branch of applyOp returns false otherwise.  RootID, what
\* GetNodeIDAtVisiblePos gives out of range, is never visible.
Accepted(r) ==
    r.type = "delete" => GetVisiblePosOfNode(doc, ResolvedTarget(r)) >= 0

\* Bug variant: the newest entries are trimmed.
TrimmedNewest(log) == IF Len(log) > MaxOpLog THEN SubSeq(log, 1, MaxOpLog) ELSE log

Trimmed(log) ==
    IF Len(log) > MaxOpLog THEN SubSeq(log, Len(log) - MaxOpLog + 1, Len(log)) ELSE log

\* Bug variants: the number, or the text, is saved as it was before the operation.
SaveOldSeq == db' = [content |-> DocString(doc'), seq |-> seqNum]
SaveOldText == db' = [content |-> DocString(doc), seq |-> seqNum']

\* SaveState with the new text and number, or its error, which is only logged.
Save ==
    \/ db' = [content |-> DocString(doc'), seq |-> seqNum']
    \/ SaveMayFail /\ UNCHANGED db

\* The tail of applyOp, and the fanout of its caller to the whole room.
Publish(op) ==
    /\ seqNum' = op.seq
    /\ opLog' = Trimmed(Append(opLog, op))
    /\ Save
    /\ send' = Broadcast(clients, op)

\* Bug variant: the number is not spent.
SameSeq == seqNum

NextSeq == seqNum + 1

\* Bug variant: the echo carries the position that was asked for.
AskedPosition(r, newID) == Clamped(r.Position)

EchoPosition(r, newID) == GetVisiblePosOfNode(doc', newID)

ApplyInsert(c, r) ==
    LET newID == [clock |-> clock + 1, site |-> user[c]]
    IN  /\ clock' = clock + 1
        /\ doc' = Insert(doc, r.Char, ResolvedAnchor(r), newID)
        /\ Publish([type |-> "insert", seq |-> NextSeq, userID |-> user[c],
                    position |-> EchoPosition(r, newID), Char |-> r.Char,
                    newID |-> newID, clientOpID |-> r.clientOpID])

ApplyDelete(c, r) ==
    LET target == ResolvedTarget(r)
    IN  /\ doc' = Delete(doc, target)
        /\ Publish([type |-> "delete", seq |-> NextSeq, userID |-> user[c],
                    position |-> GetVisiblePosOfNode(doc, target), targetID |-> target])
        /\ UNCHANGED clock

applyOp(c, r) ==
    \/ r.type = "insert" /\ ApplyInsert(c, r)
    \/ r.type = "delete" /\ Accepted(r) /\ ApplyDelete(c, r)

\* The bounds MaxSeq and MaxClock leave room for n more operations.
Within(n) == seqNum + n <= MaxSeq /\ clock + n <= MaxClock

-----------------------------------------------------------------------------
(***************************************************************************)
(* The handlers of handleMessage.                                          *)
(***************************************************************************)

Free(c) == c \in clients /\ Unlocked

HandleOp(c, r) ==
    /\ Free(c)
    /\ Within(1)
    /\ applyOp(c, r)
    /\ UNCHANGED <<live, clients, user, userSeq, task>>

\* The identifiers a client can name and the room resolve: any other falls
\* back to the position, as NoID does.
Nameable == {NoID, RootID} \cup IDs(doc)

HandleInsert(c) ==
    \E char \in Chars, pos \in Positions, id \in Nameable :
        HandleOp(c, [type |-> "insert", Char |-> char, Position |-> pos, ID |-> id,
                     clientOpID |-> 0])

HandleDelete(c) ==
    \E pos \in Positions, id \in Nameable :
        HandleOp(c, [type |-> "delete", Position |-> pos, ID |-> id])

StartBatch(c, ops) ==
    /\ Free(c)
    /\ ops # << >> /\ Within(Len(ops))
    /\ task' = [who |-> c, todo |-> ops]
    /\ UNCHANGED <<roomVars, clients, send, user, userSeq, db>>

\* One turn of the loop over a batch; the last one unlocks room.mu.
BatchStep ==
    /\ ~Unlocked
    /\ \/ applyOp(task.who, Head(task.todo))
       \/ ~Accepted(Head(task.todo)) /\ UNCHANGED <<doc, clock, seqNum, opLog, send, db>>
    /\ task' = IF Len(task.todo) = 1 THEN NoTask ELSE [task EXCEPT !.todo = Tail(@)]
    /\ UNCHANGED <<live, clients, user, userSeq>>

\* Bug variant: the clock is not moved past the new nodes.
RebuildSameClock(c, content) ==
    doc' = Chain(content, clock, user[c]) \o doc /\ UNCHANGED clock

\* The loop of restore: the text comes in front of the tombstones.
Rebuild(c, content) ==
    /\ doc' = Chain(content, clock, user[c]) \o doc
    /\ clock' = clock + Len(content)

\* buildFullSync, with the text after the step.
buildFullSync ==
    [type |-> "full_sync", seq |-> seqNum',
     content |-> DocString(doc'), nodeIDs |-> GetVisibleNodeIDs(doc')]

\* restore rebuilds the text of an empty document and answers its sender alone:
\* no number is spent, nothing is saved.
HandleRestore(c, content) ==
    /\ Free(c)
    /\ clock + Len(content) <= MaxClock
    /\ IF DocLen(doc) = 0 THEN Rebuild(c, content) ELSE UNCHANGED <<doc, clock>>
    /\ UNCHANGED seqNum
    /\ send' = [send EXCEPT ![c] = safeSend(@, buildFullSync)]
    /\ UNCHANGED <<live, clients, opLog, user, userSeq, task, db>>

\* ping is answered to its sender, cursor and typing are relayed to the others,
\* activity comes from an analytics worker through BroadcastToRoom.
Chat(c) ==
    /\ Free(c)
    /\ \/ "ping" \in Chatter /\ send' = Broadcast({c}, Signal)
       \/ Chatter \cap {"cursor", "typing"} # {} /\ send' = Broadcast(clients \ {c}, Signal)
       \/ "activity" \in Chatter /\ send' = Broadcast(clients, Signal)
    /\ UNCHANGED <<roomVars, clients, user, userSeq, task, db>>

-----------------------------------------------------------------------------
(***************************************************************************)
(* Joining, leaving, and the end of the process.                           *)
(***************************************************************************)

\* Bug variant: the clock of the new room starts behind its nodes.
HydrateSameClock == doc' = Chain(db.content, 0, PersistSite) /\ UNCHANGED clock

hydrateRoomFromContent ==
    /\ doc' = Chain(db.content, 0, PersistSite)
    /\ clock' = Len(db.content)

\* Bug variant: the text is restored and its number is not.
LoadContentOnly == hydrateRoomFromContent /\ UNCHANGED seqNum

LoadDocument == hydrateRoomFromContent /\ seqNum' = db.seq

\* getOrCreateRoom: the room that exists, or a new one, loaded from the row.
\* An error of the load is only logged: the room then starts empty.
OpenRoom ==
    /\ live' = TRUE
    /\ \/ live /\ UNCHANGED <<doc, clock, seqNum, opLog>>
       \/ ~live /\ LoadDocument /\ UNCHANGED opLog
       \/ ~live /\ LoadMayFail /\ UNCHANGED <<doc, clock, seqNum, opLog>>

\* The logged operations after number since.  The log is in the order of its
\* numbers (LogContiguous), so they are its tail.
Missed(log, since) ==
    SubSeq(log, Cardinality({i \in DOMAIN log : log[i].seq <= since}) + 1, Len(log))

\* The answer to a join that named the last number it saw.
Greeting(since, offlineEdits) ==
    IF since > 0 /\ ~offlineEdits /\ since <= seqNum'
    THEN [type |-> "replay_sync", seq |-> seqNum',
          ops |-> Missed(opLog', since)]
    ELSE buildFullSync

\* A new connection's channel is empty, and its join reaches it before the
\* presence that every member is sent.
Join(c, since, offlineEdits) ==
    /\ c \notin clients
    /\ Unlocked
    /\ userSeq < MaxJoins
    /\ OpenRoom
    /\ clients' = clients \cup {c}
    /\ userSeq' = userSeq + 1
    /\ user' = [user EXCEPT ![c] = userSeq + 1]
    /\ send' = [Broadcast(clients, Signal) EXCEPT ![c] =
          safeSend(<<Greeting(since, offlineEdits)>>, Signal)]
    /\ UNCHANGED <<task, db>>

\* The fields of a room that hub.rooms does not hold.
NoRoom ==
    /\ live' = FALSE
    /\ doc' = EmptyDocument
    /\ clock' = 0
    /\ seqNum' = 0
    /\ opLog' = << >>

\* The deferred end of readPump, with removeRoomIfEmpty.
Leave(c) ==
    /\ Free(c)
    /\ clients' = clients \ {c}
    /\ send' = [Broadcast(clients', Signal) EXCEPT ![c] = << >>]
    /\ user' = [user EXCEPT ![c] = 0]
    /\ IF clients' = {} THEN NoRoom ELSE UNCHANGED roomVars
    /\ UNCHANGED <<userSeq, task, db>>

\* writePump: the oldest message of a connection goes to its browser.
Pump(c) ==
    /\ send[c] # << >>
    /\ send' = [send EXCEPT ![c] = Tail(@)]
    /\ UNCHANGED <<roomVars, clients, user, userSeq, task, db>>

\* The process dies, at any point of any handler, and a new one starts.
Crash ==
    /\ NoRoom
    /\ clients' = {}
    /\ send' = [c \in Clients |-> << >>]
    /\ user' = [c \in Clients |-> 0]
    /\ userSeq' = 0
    /\ task' = NoTask
    /\ UNCHANGED db

-----------------------------------------------------------------------------

Next ==
    \/ \E c \in Clients :
        \/ \E since \in 0 .. MaxSeq, offlineEdits \in BOOLEAN : Join(c, since, offlineEdits)
        \/ Leave(c)
        \/ HandleInsert(c)
        \/ HandleDelete(c)
        \/ \E ops \in Batches : StartBatch(c, ops)
        \/ \E content \in Restores : HandleRestore(c, content)
        \/ Chat(c)
        \/ Pump(c)
    \/ BatchStep
    \/ Crash

Spec == Init /\ [][Next]_vars

-----------------------------------------------------------------------------
(***************************************************************************)
(* What must be true of a room.                                            *)
(***************************************************************************)

\* Every node has a clock of its own, none ahead of Room.clock: the identifier
\* that applyOp builds is new, Insert never takes an accepted insertion for a
\* duplicate, and the character lands right behind its anchor.
FreshIDs ==
    /\ \A i \in DOMAIN doc : doc[i].ID.clock \in 1 .. clock
    /\ \A i, j \in DOMAIN doc : doc[i].ID.clock = doc[j].ID.clock => i = j

\* The log is the last operations applied, without a gap, whatever was trimmed.
LogContiguous ==
    \A i \in DOMAIN opLog : opLog[i].seq = seqNum - Len(opLog) + i

\* A browser ignores an operation whose number it has already reached
\* (app.js).  That loses nothing as long as every operation waiting in a
\* channel has a higher number than all that waits before it, greetings
\* and full_sync answers included, and none is ahead of the room.
OutboxOrdered ==
    \A c \in Clients : \A j \in DOMAIN send[c] :
        /\ send[c][j].seq <= seqNum
        /\ IsOp(send[c][j]) => \A i \in 1 .. j - 1 : send[c][i].seq < send[c][j].seq

\* When saving works, an operation some channel holds or held is in the row, and a
\* crash cannot take it back.  applyOp saves before its caller broadcasts; both are one
\* step here, so that this says nothing of their order.
SavedBeforeSent ==
    ~SaveMayFail /\ ~LoadMayFail /\ live => db.seq = seqNum

\* The row holds the text everybody edits, also in the middle of a batch.
\* Only restore, which does not save, can part them.
SavedText ==
    ~SaveMayFail /\ ~LoadMayFail /\ Restores = {} /\ live => db.content = DocString(doc)

\* s with x put at position pos, and without what is there: substring and splice
\* of the browser stop at the end of the text.
PutAt(s, pos, x) ==
    LET p == IF pos > Len(s) THEN Len(s) ELSE pos
    IN  SubSeq(s, 1, p) \o <<x>> \o SubSeq(s, p + 1, Len(s))

CutAt(s, pos) ==
    LET p == IF pos > Len(s) THEN Len(s) ELSE pos
    IN  SubSeq(s, 1, p) \o SubSeq(s, p + 2, Len(s))

\* The text after a browser showed somebody else's operation (app.js, the cases
\* insert and delete of onmessage).
Shown(text, op) ==
    IF op.type = "insert" THEN PutAt(text, op.position, op.Char) ELSE CutAt(text, op.position)

\* The position applyOp resolves is the one that takes the old text to the new
\* one: what browsers do with the echo is what the list did with the OpIDs.
EchoMatches ==
    [][live /\ live' /\ seqNum' # seqNum
        => DocString(doc') = Shown(DocString(doc), opLog'[Len(opLog')])]_vars

\* As long as the room lives, no node is lost, revived or moved around another:
\* identifiers a client holds keep meaning the same character.
NodesStay ==
    [][live /\ live' =>
        /\ IDs(doc) \subseteq IDs(doc')
        /\ \A i \in DOMAIN doc :
            LET now == IndexOf(doc', doc[i].ID)
            IN  /\ doc'[now].Char = doc[i].Char
                /\ doc[i].IsDeleted => doc'[now].IsDeleted
                /\ \A j \in i + 1 .. Len(doc) : now < IndexOf(doc', doc[j].ID)]_vars

\* The text and the number a document has: those of its room, and of its row
\* while there is no room.
DocumentText == IF live THEN DocString(doc) ELSE db.content
DocumentNumber == IF live THEN seqNum ELSE db.seq

\* As long as the database works and nobody restores, all that rooms, batches,
\* removals, reloads and crashes do to a document is one character and one
\* number at a time: none is lost, applied twice, or half applied.
Shared == INSTANCE SharedText WITH text <- DocumentText, number <- DocumentNumber
SharedTextSpec == Shared!Spec

\* A save never replaces a newer text of the document with an older one.
SavesAdvance == [][db' # db => db'.seq > db.seq]_vars
=============================================================================
