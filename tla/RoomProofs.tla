----------------------------- MODULE RoomProofs -----------------------------
(***************************************************************************)
(* Proofs about Room, for any clients, characters, inputs, channel and log *)
(* sizes, and bounds.                                                      *)
(*                                                                         *)
(* Types and fresh identifiers need each other: the position that an       *)
(* insertion is echoed with is a number only if Insert did not refuse its  *)
(* identifier, and it does not because no clock in the list is ahead of    *)
(* Room.clock.  Both need to know what a room that is not in hub.rooms and *)
(* a connection that is not in Room.clients hold, which is nothing.        *)
(*                                                                         *)
(* Every invariant is proved of RoomStep, a step of the room under any     *)
(* inputs, so that it holds in Editor too.  The numbers, the log, the row  *)
(* and the channels come first, then that nodes stay where they are, and   *)
(* then the text: that an operation changes it as it is echoed, and that a *)
(* room on a database that works is a SharedText.                          *)
(*                                                                         *)
(* Last comes what the proofs about tabs take from here: what operations   *)
(* do one after the other, and what a step puts into the channels.         *)
(***************************************************************************)
EXTENDS Room, DocumentProofs

\* Only a room that is registered and clients that are in it have state, and
\* a batch_sync that holds room.mu has operations left.
Occupied ==
    /\ ~live => /\ clients = {} /\ task = NoTask
                /\ doc = EmptyDocument /\ clock = 0 /\ seqNum = 0 /\ opLog = << >>
    /\ \A c \in Clients \ clients : send[c] = << >>
    /\ task # NoTask => task.todo # << >>

\* What every proof about the room relies on.
RoomInv == TypeOK /\ FreshIDs /\ Occupied

\* FreshIDs is Fresh of the room's list and clock.
LEMMA FreshIDsIsFresh == FreshIDs <=> Fresh(doc, clock)
BY DEF FreshIDs, Fresh

\* The same after a step.
LEMMA FreshIDsIsFreshNext == FreshIDs' <=> Fresh(doc', clock')
BY DEF FreshIDs, Fresh

-----------------------------------------------------------------------------
(***************************************************************************)
(* Sending and logging.                                                    *)
(***************************************************************************)

\* A channel stays a sequence of messages, whether the message is taken or dropped.
LEMMA SafeSendType ==
    ASSUME NEW S, NEW q \in Seq(S), NEW m \in S
    PROVE  safeSend(q, m) \in Seq(S)
BY DEF safeSend

\* So do all channels when a message is broadcast.
LEMMA BroadcastType ==
    ASSUME send \in [Clients -> Seq(Message)], NEW m \in Message, NEW to
    PROVE  Broadcast(to, m) \in [Clients -> Seq(Message)]
BY SafeSendType DEF Broadcast

\* Operations and signals may be sent.
LEMMA MessageKinds == Op \subseteq Message /\ Signal \in Message
BY DEF Message

\* Trimming keeps the end of the log, no more than MaxOpLog of it.
LEMMA TrimmedProperties ==
    ASSUME NEW log \in Seq(Op)
    PROVE  /\ Trimmed(log) \in Seq(Op)
           /\ Len(Trimmed(log)) <= Len(log)
           /\ Len(log) > 0 => Len(Trimmed(log)) > 0
           /\ \A i \in 1 .. Len(Trimmed(log)) :
                Trimmed(log)[i] = log[Len(log) - Len(Trimmed(log)) + i]
<1>1. CASE Len(log) > MaxOpLog
  <2> DEFINE m == Len(log) - MaxOpLog + 1
  <2>1. MaxOpLog \in Nat \ {0} /\ Len(log) \in Nat /\ m \in Int
    BY BufferAssumption
  <2>2. \A i \in m .. Len(log) : log[i] \in Op
    BY <1>1, <2>1
  <2>3. /\ SubSeq(log, m, Len(log)) \in Seq(Op)
        /\ Len(SubSeq(log, m, Len(log))) = IF m <= Len(log) THEN Len(log) - m + 1 ELSE 0
        /\ \A i \in 1 .. Len(log) - m + 1 : SubSeq(log, m, Len(log))[i] = log[m + i - 1]
    BY <2>1, <2>2, SubSeqProperties
  <2>4. Trimmed(log) = SubSeq(log, m, Len(log))
    BY <1>1 DEF Trimmed
  <2>5. Len(Trimmed(log)) = MaxOpLog
    BY <1>1, <2>1, <2>3, <2>4
  <2>6. ASSUME NEW i \in 1 .. MaxOpLog PROVE Trimmed(log)[i] = log[Len(log) - MaxOpLog + i]
    <3>1. i \in 1 .. Len(log) - m + 1 /\ m + i - 1 = Len(log) - MaxOpLog + i
      BY <2>1
    <3> QED BY <2>3, <2>4, <3>1
  <2> QED BY <1>1, <2>1, <2>3, <2>4, <2>5, <2>6
<1>2. CASE ~(Len(log) > MaxOpLog)
  <2>1. Trimmed(log) = log /\ Len(log) \in Nat
    BY <1>2 DEF Trimmed
  <2> QED BY <2>1
<1> QED BY <1>1, <1>2

\* Publishing an operation keeps the types of all it writes.
LEMMA PublishTypes ==
    ASSUME TypeOK, NEW op \in Op, Publish(op), doc' \in Seq(Node(Chars))
    PROVE  /\ seqNum' \in Nat
           /\ opLog' \in Seq(Op)
           /\ send' \in [Clients -> Seq(Message)]
           /\ db' \in [content : Seq(Chars), seq : Nat]
<1>1. seqNum' = op.seq /\ op.seq \in Nat
  BY DEF Publish, Op, InsertOp, DeleteOp
<1>2. opLog' \in Seq(Op)
  <2>1. Append(opLog, op) \in Seq(Op)
    BY DEF TypeOK
  <2> QED BY <2>1, TrimmedProperties DEF Publish
<1>3. send' \in [Clients -> Seq(Message)]
  BY BroadcastType, MessageKinds DEF Publish, TypeOK
<1>4. db' \in [content : Seq(Chars), seq : Nat]
  <2>1. DocString(doc') \in Seq(Chars)
    BY DocStringType
  <2> QED BY <1>1, <2>1 DEF Publish, Save, TypeOK
<1> QED BY <1>1, <1>2, <1>3, <1>4

-----------------------------------------------------------------------------
(***************************************************************************)
(* applyOp.                                                                *)
(***************************************************************************)

\* What a request resolves to is a node of the list, or the root.
LEMMA ResolvedKnown ==
    ASSUME TypeOK, NEW r \in Request
    PROVE  Known(doc, ResolvedAnchor(r)) /\ Known(doc, ResolvedTarget(r))
<1>1. r.Position \in Int /\ doc \in Seq(Node(Chars))
  BY DEF Request, InsertRequest, DeleteRequest, TypeOK
<1>2. Clamped(r.Position) \in Int
  BY <1>1, VisibleFinite DEF Clamped
<1>3. Known(doc, GetAnchorIDForPos(doc, Clamped(r.Position)))
  BY <1>1, <1>2, AnchorKnown
<1>4. Known(doc, GetNodeIDAtVisiblePos(doc, r.Position))
  BY <1>1, NodeAtPositionKnown
<1> QED BY <1>3, <1>4 DEF ResolvedAnchor, ResolvedTarget

\* An identifier the list knows is an identifier.
LEMMA KnownIsOpID ==
    ASSUME NEW C, NEW d \in Seq(Node(C)), NEW id, Known(d, id)
    PROVE  id \in OpID
<1>1. RootID \in OpID
  BY DEF RootID, RootSite, OpID
<1>2. ASSUME NEW i \in DOMAIN d PROVE d[i].ID \in OpID
  <2>1. d[i] \in Node(C)
    OBVIOUS
  <2> QED BY <2>1 DEF Node
<1> QED BY <1>1, <1>2 DEF Known, IDs

\* An insertion puts one fresh, visible node behind a node of the list.
LEMMA ApplyInsertEffect ==
    ASSUME TypeOK, FreshIDs, NEW c \in Clients, NEW r \in InsertRequest, ApplyInsert(c, r)
    PROVE  /\ doc' \in Seq(Node(Chars)) /\ clock' \in Nat
           /\ Fresh(doc', clock')
           /\ \E op \in Op : op.seq = seqNum + 1 /\ Publish(op)
<1> DEFINE newID == [clock |-> clock + 1, site |-> user[c]]
           n == [ID |-> newID, Char |-> r.Char, IsDeleted |-> FALSE]
           p == IndexOf(doc, ResolvedAnchor(r))
<1>1. /\ clock \in Nat /\ user[c] \in Nat /\ doc \in Seq(Node(Chars)) /\ seqNum \in Nat
      /\ r.Char \in Chars /\ r \in Request /\ r.clientOpID \in Nat
  BY DEF TypeOK, InsertRequest, Request
<1>2. newID \in OpID /\ newID.clock = clock + 1 /\ n \in Node(Chars) /\ n.ID.clock = clock + 1
  BY <1>1 DEF OpID, Node
<1>3. \A i \in DOMAIN doc : doc[i].ID.clock < newID.clock
  BY <1>1 DEF FreshIDs
<1>4. clock' = clock + 1 /\ doc' = Insert(doc, r.Char, ResolvedAnchor(r), newID)
  BY DEF ApplyInsert
<1>5. Known(doc, ResolvedAnchor(r))
  BY <1>1, ResolvedKnown
<1>6. /\ doc' \in Seq(Node(Chars))
      /\ p \in 0 .. Len(doc)
      /\ Spliced(doc', doc, p, n)
  <2> HIDE DEF newID
  <2> QED BY <1>1, <1>2, <1>3, <1>4, <1>5, InsertProperties
<1> HIDE DEF n, p
<1>7. Fresh(doc', clock')
  BY <1>1, <1>2, <1>4, <1>6, SplicedFresh, FreshIDsIsFresh
<1>8. GetVisiblePosOfNode(doc', newID) \in Nat
  <2>1. p + 1 \in DOMAIN doc' /\ doc'[p + 1] = n
    BY <1>1, <1>6 DEF Spliced
  <2>2. p + 1 \in Visible(doc') /\ doc'[p + 1].ID = newID
    BY <2>1 DEF Visible, n
  <2> QED BY <1>6, <2>2, VisiblePosType
<1>9. \E op \in Op : op.seq = seqNum + 1 /\ Publish(op)
  <2> DEFINE op == [type |-> "insert", seq |-> NextSeq, userID |-> user[c],
                    position |-> EchoPosition(r, newID), Char |-> r.Char,
                    newID |-> newID, clientOpID |-> r.clientOpID]
  <2>1. Publish(op)
    BY DEF ApplyInsert
  <2>2. op \in Op /\ op.seq = seqNum + 1
    BY <1>1, <1>2, <1>8 DEF Op, InsertOp, NextSeq, EchoPosition
  <2> HIDE DEF op
  <2> QED BY <2>1, <2>2
<1> QED BY <1>1, <1>4, <1>6, <1>7, <1>9

\* A deletion that is accepted marks a visible node.
LEMMA ApplyDeleteEffect ==
    ASSUME TypeOK, FreshIDs, NEW c \in Clients, NEW r \in DeleteRequest,
           Accepted(r), ApplyDelete(c, r)
    PROVE  /\ doc' \in Seq(Node(Chars)) /\ clock' \in Nat
           /\ Fresh(doc', clock')
           /\ \E op \in Op : op.seq = seqNum + 1 /\ Publish(op)
<1>1. /\ clock \in Nat /\ user[c] \in Nat /\ doc \in Seq(Node(Chars)) /\ seqNum \in Nat
      /\ r.type = "delete" /\ r \in Request
  BY DEF TypeOK, DeleteRequest, Request
<1>2. clock' = clock /\ doc' = Delete(doc, ResolvedTarget(r))
  BY DEF ApplyDelete
<1>3. doc' \in Seq(Node(Chars))
  BY <1>1, <1>2, DeleteProperties
<1>4. Fresh(doc', clock')
  BY <1>1, <1>2, DeletedFresh, FreshIDsIsFresh
<1>5. GetVisiblePosOfNode(doc, ResolvedTarget(r)) \in Nat
  BY <1>1, VisiblePosType DEF Accepted
<1>6. ResolvedTarget(r) \in OpID
  BY <1>1, ResolvedKnown, KnownIsOpID
<1>7. \E op \in Op : op.seq = seqNum + 1 /\ Publish(op)
  <2> DEFINE op == [type |-> "delete", seq |-> NextSeq, userID |-> user[c],
                    position |-> GetVisiblePosOfNode(doc, ResolvedTarget(r)),
                    targetID |-> ResolvedTarget(r)]
  <2>1. Publish(op)
    BY DEF ApplyDelete
  <2>2. op \in Op /\ op.seq = seqNum + 1
    BY <1>1, <1>5, <1>6 DEF Op, DeleteOp, NextSeq
  <2> HIDE DEF op
  <2> QED BY <2>1, <2>2
<1> QED BY <1>1, <1>2, <1>3, <1>4, <1>7

\* An operation that is applied takes the next number, in a room of the right
\* types and with fresh identifiers.
LEMMA ApplyOpEffect ==
    ASSUME TypeOK, FreshIDs, NEW c \in Clients, NEW r \in Request, applyOp(c, r)
    PROVE  /\ doc' \in Seq(Node(Chars)) /\ clock' \in Nat
           /\ FreshIDs'
           /\ \E op \in Op : op.seq = seqNum + 1 /\ Publish(op)
<1>1. CASE r.type = "insert" /\ ApplyInsert(c, r)
  <2>1. r \in InsertRequest
    BY <1>1 DEF Request, DeleteRequest
  <2> QED BY <1>1, <2>1, ApplyInsertEffect, FreshIDsIsFreshNext
<1>2. CASE r.type = "delete" /\ Accepted(r) /\ ApplyDelete(c, r)
  <2>1. r \in DeleteRequest
    BY <1>2 DEF Request, InsertRequest
  <2> QED BY <1>2, <2>1, ApplyDeleteEffect, FreshIDsIsFreshNext
<1> QED BY <1>1, <1>2 DEF applyOp

-----------------------------------------------------------------------------
(***************************************************************************)
(* Every action keeps RoomInv.                                             *)
(***************************************************************************)

\* Without a room, a client or a message, the invariant holds, whatever the row.
LEMMA RoomInvInitWith ==
    ASSUME NEW row \in [content : Seq(Chars), seq : Nat], InitWith(row)
    PROVE  RoomInv
<1>1. TypeOK
  <2>1. << >> \in Seq(Node(Chars)) /\ << >> \in Seq(Op) /\ << >> \in Seq(Chars)
        /\ << >> \in Seq(Message)
    OBVIOUS
  <2> QED BY <2>1 DEF InitWith, TypeOK, EmptyDocument, Task
<1>2. FreshIDs
  BY DEF InitWith, FreshIDs, EmptyDocument
<1>3. Occupied
  BY DEF InitWith, Occupied
<1> QED BY <1>1, <1>2, <1>3 DEF RoomInv

\* It holds before the first step.
LEMMA RoomInvInit == ASSUME Init PROVE RoomInv
<1>1. [content |-> << >>, seq |-> 0] \in [content : Seq(Chars), seq : Nat]
  OBVIOUS
<1> QED BY <1>1, RoomInvInitWith DEF Init

\* Nothing outside a room changes when an operation is published in it.
LEMMA PublishOccupied ==
    ASSUME RoomInv, live, NEW op, Publish(op), UNCHANGED <<live, clients>>,
           task' # NoTask => task'.todo # << >>
    PROVE  Occupied'
<1>1. \A c \in Clients \ clients : send'[c] = send[c]
  BY DEF Publish, Broadcast
<1> QED BY <1>1 DEF RoomInv, Occupied

\* What HandleInsert and HandleDelete take from a client is a request.
LEMMA RequestTypes ==
    ASSUME TypeOK, NEW id \in Nameable
    PROVE  id \in OpID
<1>1. NoID \in OpID /\ RootID \in OpID
  BY DEF NoID, RootID, RootSite, OpID
<1>2. ASSUME NEW i \in DOMAIN doc PROVE doc[i].ID \in OpID
  <2>1. doc[i] \in Node(Chars)
    BY DEF TypeOK
  <2> QED BY <2>1 DEF Node
<1> QED BY <1>1, <1>2 DEF Nameable, IDs

\* One operation of a client, applied, saved and sent, keeps the invariant.
LEMMA HandleOpKeeps ==
    ASSUME RoomInv, NEW c \in Clients, NEW r \in Request, HandleOp(c, r)
    PROVE  RoomInv'
<1>1. TypeOK /\ FreshIDs /\ applyOp(c, r) /\ UNCHANGED <<live, clients, user, userSeq, task>>
  BY DEF RoomInv, HandleOp
<1>2. live /\ task = NoTask
  BY DEF RoomInv, Occupied, HandleOp, Free, Unlocked
<1>3. /\ doc' \in Seq(Node(Chars)) /\ clock' \in Nat /\ FreshIDs'
      /\ \E op \in Op : op.seq = seqNum + 1 /\ Publish(op)
  BY <1>1, ApplyOpEffect
<1>4. PICK op \in Op : Publish(op)
  BY <1>3
<1>5. TypeOK'
  BY <1>1, <1>3, <1>4, PublishTypes DEF TypeOK
<1>6. Occupied'
  BY <1>1, <1>2, <1>4, PublishOccupied
<1> QED BY <1>3, <1>5, <1>6 DEF RoomInv

\* A batch_sync that holds the lock has a sender and requests.
LEMMA TaskTypes ==
    ASSUME TypeOK, Occupied, task # NoTask
    PROVE  /\ task \in [who : Clients, todo : Seq(Request)]
           /\ task.who \in Clients /\ task.todo \in Seq(Request) /\ task.todo # << >>
           /\ Head(task.todo) \in Request /\ Tail(task.todo) \in Seq(Request)
           /\ Len(task.todo) # 1 => Tail(task.todo) # << >>
           /\ live
<1>1. task \in [who : Clients, todo : Seq(Request)]
  BY DEF TypeOK, Task
<1>2. task.who \in Clients /\ task.todo \in Seq(Request)
  BY <1>1
<1>3. task.todo # << >> /\ live
  BY DEF Occupied
<1> HIDE DEF Request
<1>4. Head(task.todo) \in Request /\ Tail(task.todo) \in Seq(Request)
      /\ Len(Tail(task.todo)) = Len(task.todo) - 1 /\ Len(task.todo) \in Nat
  BY <1>2, <1>3, HeadTailProperties
<1>5. Len(task.todo) # 1 => Tail(task.todo) # << >>
  <2> DEFINE rest == Tail(task.todo)
  <2>1. Len(rest) = Len(task.todo) - 1 /\ Len(task.todo) \in Nat
    BY <1>4
  <2> HIDE DEF rest
  <2>2. Len(<< >>) = 0
    OBVIOUS
  <2>3. rest = << >> => Len(rest) = 0
    BY <2>2, Zenon
  <2>4. Len(task.todo) # 1 => Len(rest) # 0
    BY <2>1
  <2>5. Len(task.todo) # 1 => rest # << >>
    BY <2>3, <2>4, Zenon
  <2> QED BY <2>5 DEF rest
<1> QED BY <1>1, <1>2, <1>3, <1>4, <1>5

\* Taking the lock for a batch changes nothing but the task.
LEMMA StartBatchKeeps ==
    ASSUME RoomInv, NEW c \in Clients, NEW ops \in Seq(Request), StartBatch(c, ops)
    PROVE  RoomInv'
<1>1. ops # << >> /\ task' = [who |-> c, todo |-> ops]
  BY DEF StartBatch
<1>2. task' \in Task /\ task'.todo # << >>
  BY <1>1 DEF Task
<1>3. UNCHANGED <<live, doc, clock, seqNum, opLog, clients, send, user, userSeq, db>> /\ c \in clients
  BY DEF StartBatch, roomVars, Free
<1>4. TypeOK'
  BY <1>2, <1>3 DEF RoomInv, TypeOK
<1>5. FreshIDs'
  BY <1>3 DEF RoomInv, FreshIDs
<1>6. Occupied'
  BY <1>2, <1>3 DEF RoomInv, Occupied
<1> QED BY <1>4, <1>5, <1>6 DEF RoomInv

\* One operation of a batch keeps the invariant, applied or refused.
LEMMA BatchStepKeeps ==
    ASSUME RoomInv, BatchStep
    PROVE  RoomInv'
<1>1. /\ TypeOK /\ FreshIDs /\ Occupied /\ task # NoTask
      /\ UNCHANGED <<live, clients, user, userSeq>>
  BY DEF RoomInv, BatchStep, Unlocked
<1>2. /\ task.who \in Clients /\ Head(task.todo) \in Request
      /\ live
  BY <1>1, TaskTypes
<1>3. task' \in Task /\ (task' # NoTask => task'.todo # << >>)
  <2>1. CASE Len(task.todo) = 1
    BY <2>1 DEF BatchStep, Task
  <2>2. CASE Len(task.todo) # 1
    <3>1. task' = [task EXCEPT !.todo = Tail(task.todo)]
      BY <2>2 DEF BatchStep
    <3>2. /\ task \in [who : Clients, todo : Seq(Request)]
          /\ Tail(task.todo) \in Seq(Request) /\ Tail(task.todo) # << >>
      BY <1>1, <2>2, TaskTypes
    <3>3. task' \in [who : Clients, todo : Seq(Request)] /\ task'.todo = Tail(task.todo)
      BY <3>1, <3>2
    <3> QED BY <3>2, <3>3 DEF Task
  <2> QED BY <2>1, <2>2
<1>4. CASE applyOp(task.who, Head(task.todo))
  <2>1. /\ doc' \in Seq(Node(Chars)) /\ clock' \in Nat /\ FreshIDs'
        /\ \E op \in Op : op.seq = seqNum + 1 /\ Publish(op)
    BY <1>1, <1>2, <1>4, ApplyOpEffect
  <2>2. PICK op \in Op : Publish(op)
    BY <2>1
  <2>3. TypeOK'
    BY <1>1, <1>3, <2>1, <2>2, PublishTypes DEF TypeOK
  <2>4. Occupied'
    BY <1>1, <1>2, <1>3, <2>2, PublishOccupied
  <2> QED BY <2>1, <2>3, <2>4 DEF RoomInv
<1>5. CASE UNCHANGED <<doc, clock, seqNum, opLog, send, db>>
  <2>1. TypeOK'
    BY <1>1, <1>3, <1>5 DEF TypeOK
  <2>2. FreshIDs'
    BY <1>1, <1>5 DEF FreshIDs
  <2>3. Occupied'
    BY <1>1, <1>2, <1>3, <1>5 DEF Occupied
  <2> QED BY <2>1, <2>2, <2>3 DEF RoomInv
<1> QED BY <1>4, <1>5 DEF BatchStep

\* A full_sync is a message.
LEMMA FullSyncType ==
    ASSUME seqNum' \in Nat, doc' \in Seq(Node(Chars))
    PROVE  buildFullSync \in Message
BY DocStringType, VisibleNodeIDsType DEF buildFullSync, Message, FullSync

\* The answer to a join is a message: what it replays was in the log.
LEMMA GreetingType ==
    ASSUME seqNum' \in Nat, opLog' \in Seq(Op), doc' \in Seq(Node(Chars)),
           NEW since \in Nat, NEW offlineEdits \in BOOLEAN
    PROVE  Greeting(since, offlineEdits) \in Message
<1>1. DocString(doc') \in Seq(Chars)
  BY DocStringType
<1>2. Missed(opLog', since) \in Seq(Op)
  <2> DEFINE seen == {i \in DOMAIN opLog' : opLog'[i].seq <= since}
  <2>1. IsFiniteSet(1 .. Len(opLog'))
    BY FS_Interval
  <2>2. seen \subseteq 1 .. Len(opLog')
    OBVIOUS
  <2> HIDE DEF seen
  <2>3. Cardinality(seen) \in Nat
    BY <2>1, <2>2, FS_Subset, FS_CardinalityType
  <2>4. \A i \in Cardinality(seen) + 1 .. Len(opLog') : opLog'[i] \in Op
    BY <2>3
  <2> HIDE DEF Op
  <2>5. SubSeq(opLog', Cardinality(seen) + 1, Len(opLog')) \in Seq(Op)
    BY <2>3, <2>4, SubSeqProperties
  <2> QED BY <2>5 DEF Missed, seen
<1>3. [type |-> "replay_sync", seq |-> seqNum', ops |-> Missed(opLog', since)] \in Message
  BY <1>2 DEF Message, ReplaySync
<1>4. buildFullSync \in Message
  BY FullSyncType
<1> QED BY <1>3, <1>4 DEF Greeting

\* Rebuilding the text puts it on clocks the list does not have.
LEMMA HandleRestoreKeeps ==
    ASSUME RoomInv, NEW c \in Clients, NEW content \in Seq(Chars), HandleRestore(c, content)
    PROVE  RoomInv'
<1>1. /\ IF DocLen(doc) = 0 THEN Rebuild(c, content) ELSE UNCHANGED <<doc, clock>>
      /\ send' = [send EXCEPT ![c] = safeSend(@, buildFullSync)]
  BY DEF HandleRestore
<1>2. /\ UNCHANGED <<live, clients, seqNum, opLog, user, userSeq, task, db>>
      /\ c \in clients
      /\ TypeOK /\ FreshIDs /\ Occupied
  BY DEF HandleRestore, Free, RoomInv
<1>3. doc' \in Seq(Node(Chars)) /\ clock' \in Nat /\ FreshIDs'
  <2>1. CASE Rebuild(c, content)
    <3>1. /\ doc' = Chain(content, clock, user[c]) \o doc
          /\ clock' = clock + Len(content)
      BY <2>1 DEF Rebuild
    <3>2. clock \in Nat /\ user[c] \in Nat /\ doc \in Seq(Node(Chars)) /\ Len(content) \in Nat
      BY <1>2 DEF TypeOK
    <3>3. doc' \in Seq(Node(Chars)) /\ Fresh(doc', clock')
      BY <1>2, <3>1, <3>2, ChainFresh, FreshIDsIsFresh
    <3> QED BY <3>1, <3>2, <3>3, FreshIDsIsFreshNext
  <2>2. CASE UNCHANGED <<doc, clock>>
    BY <1>2, <2>2 DEF TypeOK, FreshIDs
  <2> QED BY <1>1, <2>1, <2>2
<1>4. send' \in [Clients -> Seq(Message)]
  <2>1. buildFullSync \in Message
    BY <1>2, <1>3, FullSyncType DEF TypeOK
  <2>2. send \in [Clients -> Seq(Message)]
    BY <1>2 DEF TypeOK
  <2> HIDE DEF Message
  <2> QED BY <1>1, <2>1, <2>2, SafeSendType
<1>5. TypeOK'
  BY <1>2, <1>3, <1>4 DEF TypeOK
<1>6. Occupied'
  <2>1. live
    BY <1>2 DEF Occupied
  <2>2. \A d \in Clients \ clients : send'[d] = send[d]
    BY <1>1, <1>2 DEF TypeOK
  <2> QED BY <1>2, <2>1, <2>2 DEF Occupied
<1> QED BY <1>3, <1>5, <1>6 DEF RoomInv

\* Sending something to some of the clients keeps the invariant.
LEMMA SendingKeeps ==
    ASSUME RoomInv, NEW to \in SUBSET clients, NEW m \in Message,
           send' = Broadcast(to, m),
           UNCHANGED <<live, clients, doc, clock, seqNum, opLog, user, userSeq, task, db>>
    PROVE  RoomInv'
<1>1. TypeOK'
  BY BroadcastType DEF RoomInv, TypeOK
<1>2. FreshIDs'
  BY DEF RoomInv, FreshIDs
<1>3. Occupied'
  <2>1. \A d \in Clients \ clients : send'[d] = send[d]
    BY DEF Broadcast
  <2> QED BY <2>1 DEF RoomInv, Occupied
<1> QED BY <1>1, <1>2, <1>3 DEF RoomInv

\* Signals keep the invariant.
LEMMA ChatKeeps ==
    ASSUME RoomInv, NEW c \in Clients, Chat(c)
    PROVE  RoomInv'
<1>1. /\ UNCHANGED <<live, clients, doc, clock, seqNum, opLog, user, userSeq, task, db>>
      /\ \E to \in SUBSET clients : send' = Broadcast(to, Signal)
  BY DEF Chat, Free, roomVars
<1> QED BY <1>1, SendingKeeps, MessageKinds

\* Taking a message out of a channel does.
LEMMA PumpKeeps ==
    ASSUME RoomInv, NEW c \in Clients, Pump(c)
    PROVE  RoomInv'
<1>1. /\ UNCHANGED <<live, clients, doc, clock, seqNum, opLog, user, userSeq, task, db>>
      /\ send[c] # << >> /\ send' = [send EXCEPT ![c] = Tail(@)]
      /\ TypeOK /\ FreshIDs /\ Occupied
  BY DEF Pump, roomVars, RoomInv
<1>2. send' \in [Clients -> Seq(Message)]
  <2>1. send \in [Clients -> Seq(Message)]
    BY <1>1 DEF TypeOK
  <2> HIDE DEF Message
  <2> QED BY <1>1, <2>1
<1>3. TypeOK'
  BY <1>1, <1>2 DEF TypeOK
<1>4. FreshIDs'
  BY <1>1 DEF FreshIDs
<1>5. Occupied'
  <2>1. \A d \in Clients : d # c => send'[d] = send[d]
    BY <1>1 DEF TypeOK
  <2>2. c \in clients
    BY <1>1 DEF Occupied
  <2> QED BY <1>1, <2>1, <2>2 DEF Occupied
<1> QED BY <1>3, <1>4, <1>5 DEF RoomInv

\* A room without clients, and the connections that have left it.
LEMMA NoRoomKeeps ==
    ASSUME RoomInv, NoRoom, clients' = {}, task' = NoTask,
           send' = [c \in Clients |-> << >>],
           user' \in [Clients -> Nat], userSeq' \in Nat, UNCHANGED db
    PROVE  RoomInv'
<1>1. TypeOK'
  <2>1. << >> \in Seq(Node(Chars)) /\ << >> \in Seq(Op) /\ << >> \in Seq(Message)
    OBVIOUS
  <2> QED BY <2>1 DEF RoomInv, NoRoom, TypeOK, EmptyDocument, Task
<1>2. FreshIDs'
  BY DEF NoRoom, FreshIDs, EmptyDocument
<1>3. Occupied'
  BY DEF NoRoom, Occupied
<1> QED BY <1>1, <1>2, <1>3 DEF RoomInv

\* A restart leaves no room, and the row it leaves has the right type.
LEMMA CrashKeeps == ASSUME RoomInv, Crash PROVE RoomInv'
BY NoRoomKeeps DEF Crash

\* A connection that leaves takes its channel along, and the last one the room.
LEMMA LeaveKeeps ==
    ASSUME RoomInv, NEW c \in Clients, Leave(c)
    PROVE  RoomInv'
<1>1. /\ c \in clients /\ task = NoTask /\ live /\ clients \in SUBSET Clients
      /\ clients' = clients \ {c}
      /\ send' = [Broadcast(clients', Signal) EXCEPT ![c] = << >>]
      /\ user' = [user EXCEPT ![c] = 0]
      /\ UNCHANGED <<userSeq, task, db>>
      /\ TypeOK /\ FreshIDs /\ Occupied
  BY DEF Leave, Free, Unlocked, RoomInv, Occupied, TypeOK
<1>2. Broadcast(clients', Signal) \in [Clients -> Seq(Message)]
  BY <1>1, BroadcastType, MessageKinds DEF TypeOK
<1>3. /\ send' \in [Clients -> Seq(Message)]
      /\ send'[c] = << >>
      /\ \A d \in Clients \ clients : send'[d] = << >>
  <2>1. << >> \in Seq(Message)
    OBVIOUS
  <2> HIDE DEF Message
  <2>2. \A d \in Clients \ clients : Broadcast(clients', Signal)[d] = << >>
    BY <1>1 DEF Broadcast, Occupied
  <2> QED BY <1>1, <1>2, <2>1, <2>2
<1>4. user' \in [Clients -> Nat] /\ userSeq' \in Nat
  BY <1>1 DEF TypeOK
<1>5. CASE clients' = {}
  <2>1. NoRoom
    BY <1>5 DEF Leave
  <2>2. \A d \in Clients : send'[d] = << >>
    BY <1>1, <1>3, <1>5
  <2>3. send' = [d \in Clients |-> << >>]
    BY <1>3, <2>2
  <2> QED BY <1>1, <1>4, <1>5, <2>1, <2>3, NoRoomKeeps
<1>6. CASE clients' # {}
  <2>1. UNCHANGED <<live, doc, clock, seqNum, opLog>>
    BY <1>6 DEF Leave, roomVars
  <2>2. TypeOK'
    BY <1>1, <1>3, <1>4, <2>1 DEF TypeOK
  <2>3. FreshIDs'
    BY <1>1, <2>1 DEF FreshIDs
  <2>4. Occupied'
    BY <1>1, <1>3, <2>1 DEF Occupied
  <2> QED BY <2>2, <2>3, <2>4 DEF RoomInv
<1> QED BY <1>5, <1>6

\* A room that is opened has the types and the identifiers it needs, whether it
\* was there, was loaded, or could not be loaded.
LEMMA OpenRoomEffect ==
    ASSUME RoomInv, OpenRoom
    PROVE  /\ live' /\ doc' \in Seq(Node(Chars)) /\ clock' \in Nat /\ seqNum' \in Nat
           /\ opLog' \in Seq(Op) /\ FreshIDs'
<1>1. TypeOK /\ FreshIDs /\ Occupied /\ live'
  BY DEF RoomInv, OpenRoom
<1>2. CASE UNCHANGED <<doc, clock, seqNum, opLog>>
  BY <1>1, <1>2 DEF TypeOK, FreshIDs
<1>3. CASE LoadDocument /\ UNCHANGED opLog
  <2>1. /\ doc' = Chain(db.content, 0, PersistSite)
        /\ clock' = Len(db.content)
        /\ seqNum' = db.seq
    BY <1>3 DEF LoadDocument, hydrateRoomFromContent
  <2>2. db.content \in Seq(Chars) /\ db.seq \in Nat /\ PersistSite \in Nat
    BY <1>1, BoundAssumption DEF TypeOK, PersistSite
  <2>3. Fresh(<< >>, 0) /\ << >> \in Seq(Node(Chars))
    BY DEF Fresh
  <2> DEFINE ch == Chain(db.content, 0, PersistSite)
  <2>4. ch \in Seq(Node(Chars))
    BY <2>2, ChainProperties
  <2>5. ch \o << >> = ch
    BY <2>4, ConcatEmptySeq
  <2>6. Fresh(ch \o << >>, 0 + Len(db.content))
    <3> HIDE DEF ch
    <3> QED BY <2>2, <2>3, ChainFresh DEF ch
  <2>7. Len(db.content) \in Nat /\ 0 + Len(db.content) = Len(db.content)
    BY <2>2
  <2>8. FreshIDs'
    BY <2>1, <2>5, <2>6, <2>7, FreshIDsIsFreshNext
  <2> QED BY <1>1, <1>3, <2>1, <2>2, <2>4, <2>7, <2>8 DEF TypeOK
<1> QED BY <1>2, <1>3 DEF OpenRoom

\* A connection that joins finds or opens the room.
LEMMA JoinKeeps ==
    ASSUME RoomInv, NEW c \in Clients, NEW since \in Nat, NEW offlineEdits \in BOOLEAN,
           Join(c, since, offlineEdits)
    PROVE  RoomInv'
<1>1. /\ TypeOK /\ Occupied /\ OpenRoom /\ task = NoTask
      /\ clients' = clients \cup {c}
      /\ userSeq' = userSeq + 1
      /\ user' = [user EXCEPT ![c] = userSeq + 1]
      /\ send' = [Broadcast(clients, Signal) EXCEPT ![c] =
              safeSend(<<Greeting(since, offlineEdits)>>, Signal)]
      /\ UNCHANGED <<task, db>>
  BY DEF Join, RoomInv, Unlocked
<1>2. /\ live' /\ doc' \in Seq(Node(Chars)) /\ clock' \in Nat /\ seqNum' \in Nat
      /\ opLog' \in Seq(Op) /\ FreshIDs'
  BY <1>1, OpenRoomEffect
<1>3. Greeting(since, offlineEdits) \in Message
  BY <1>2, GreetingType
<1>4. send' \in [Clients -> Seq(Message)] /\ \A d \in Clients \ clients' : send'[d] = << >>
  <2>1. Broadcast(clients, Signal) \in [Clients -> Seq(Message)]
    BY <1>1, BroadcastType, MessageKinds DEF TypeOK
  <2>2. safeSend(<<Greeting(since, offlineEdits)>>, Signal) \in Seq(Message)
    <3> DEFINE g == Greeting(since, offlineEdits)
    <3>1. g \in Message /\ Signal \in Message
      BY <1>3, MessageKinds
    <3> HIDE DEF g
    <3>2. <<g>> \in Seq(Message)
      BY <3>1
    <3>3. safeSend(<<g>>, Signal) \in Seq(Message)
      BY <3>1, <3>2, SafeSendType
    <3> QED BY <3>3 DEF g
  <2>3. \A d \in Clients \ clients : Broadcast(clients, Signal)[d] = << >>
    BY <1>1 DEF Broadcast, Occupied
  <2> QED BY <1>1, <2>1, <2>2, <2>3
<1>5. TypeOK'
  BY <1>1, <1>2, <1>4 DEF TypeOK
<1>6. Occupied'
  BY <1>1, <1>2, <1>4 DEF Occupied
<1> QED BY <1>2, <1>5, <1>6 DEF RoomInv

\* A step of a room whose clients send any operations, and restore one of
\* contents.  Next is one, and so is every step of a module that puts clients
\* around the room.
RoomStep(contents) ==
    \/ \E c \in Clients :
        \/ \E since \in Nat, offlineEdits \in BOOLEAN : Join(c, since, offlineEdits)
        \/ Leave(c)
        \/ \E r \in Request : HandleOp(c, r)
        \/ \E ops \in Seq(Request) : StartBatch(c, ops)
        \/ \E content \in contents : HandleRestore(c, content)
        \/ Chat(c)
        \/ Pump(c)
    \/ BatchStep
    \/ Crash
    \/ UNCHANGED vars

\* What the clients of Next send are operations and texts.
LEMMA NextIsRoomStep ==
    ASSUME TypeOK, [Next]_vars
    PROVE  RoomStep(Restores)
<1>1. ASSUME NEW c \in Clients, HandleInsert(c) PROVE \E r \in Request : HandleOp(c, r)
  <2>1. PICK char \in Chars, pos \in Positions, id \in Nameable :
          HandleOp(c, [type |-> "insert", Char |-> char, Position |-> pos, ID |-> id,
                       clientOpID |-> 0])
    BY <1>1 DEF HandleInsert
  <2>2. [type |-> "insert", Char |-> char, Position |-> pos, ID |-> id, clientOpID |-> 0]
        \in Request
    BY InputAssumption, RequestTypes DEF Request, InsertRequest
  <2> QED BY <2>1, <2>2
<1>2. ASSUME NEW c \in Clients, HandleDelete(c) PROVE \E r \in Request : HandleOp(c, r)
  <2>1. PICK pos \in Positions, id \in Nameable :
          HandleOp(c, [type |-> "delete", Position |-> pos, ID |-> id])
    BY <1>2 DEF HandleDelete
  <2>2. [type |-> "delete", Position |-> pos, ID |-> id] \in Request
    BY InputAssumption, RequestTypes DEF Request, DeleteRequest
  <2> QED BY <2>1, <2>2
<1>3. 0 .. MaxSeq \subseteq Nat /\ Batches \subseteq Seq(Request)
  BY BoundAssumption, InputAssumption
<1> HIDE DEF Request
<1> QED BY <1>1, <1>2, <1>3 DEF Next, RoomStep

\* Every step keeps the invariant.
LEMMA RoomInvStep == ASSUME RoomInv, RoomStep(Seq(Chars)) PROVE RoomInv'
<1>1. CASE UNCHANGED vars
  BY <1>1 DEF vars, RoomInv, TypeOK, FreshIDs, Occupied
<1> QED BY <1>1, JoinKeeps, LeaveKeeps, HandleOpKeeps, StartBatchKeeps, HandleRestoreKeeps,
        ChatKeeps, PumpKeeps, BatchStepKeeps, CrashKeeps DEF RoomStep

\* So does a step with some texts to restore.
LEMMA SomeTexts ==
    ASSUME NEW contents \in SUBSET Seq(Chars), RoomStep(contents)
    PROVE  RoomStep(Seq(Chars))
BY DEF RoomStep

\* It holds after every step of the room.
LEMMA RoomInvNext == ASSUME RoomInv, [Next]_vars PROVE RoomInv'
<1>1. RoomStep(Restores) /\ Restores \in SUBSET Seq(Chars)
  BY NextIsRoomStep, InputAssumption DEF RoomInv
<1> QED BY <1>1, SomeTexts, RoomInvStep

\* The invariant holds in every reachable state.
LEMMA RoomInvCorrect == Spec => []RoomInv
BY RoomInvInit, RoomInvNext, PTL DEF Spec

\* Everything the room and its connections hold has the type it should: among
\* the rest, an echoed position is never negative, because no insertion is
\* refused and no deletion is accepted that hits nothing.
THEOREM TypeCorrect == Spec => []TypeOK
BY RoomInvCorrect, PTL DEF RoomInv

\* Room.clock is never behind the list: applyOp never builds an identifier that
\* the list has, through hydration, restore, failed loads and restarts.
THEOREM IDsAreFresh == Spec => []FreshIDs
BY RoomInvCorrect, PTL DEF RoomInv

-----------------------------------------------------------------------------
(***************************************************************************)
(* What a step does to the numbers, the log and the row.                   *)
(***************************************************************************)

\* The steps of the room, as its number and its log see them.
Applies ==
    /\ live /\ UNCHANGED <<live, clients>>
    /\ \E op \in Op : op.seq = seqNum + 1 /\ Publish(op)

Opens == OpenRoom /\ UNCHANGED db

Closes == ~live' /\ opLog' = << >>

Stays(contents) ==
    /\ UNCHANGED <<live, seqNum, opLog, db>>
    /\ doc' = doc \/ contents # {}

\* What a step may do to the log and to the row.
LEMMA StepKinds ==
    ASSUME RoomInv, NEW contents \in SUBSET Seq(Chars), RoomStep(contents)
    PROVE  Applies \/ Opens \/ Closes \/ Stays(contents)
<1> USE DEF Stays
<1>0. TypeOK /\ FreshIDs /\ Occupied
  BY DEF RoomInv
<1>1. ASSUME NEW c \in Clients, NEW r \in Request, HandleOp(c, r) PROVE Applies
  <2>1. live /\ UNCHANGED <<live, clients>>
    BY <1>0, <1>1 DEF HandleOp, Free, Occupied
  <2>2. \E op \in Op : op.seq = seqNum + 1 /\ Publish(op)
    BY <1>0, <1>1, ApplyOpEffect DEF HandleOp
  <2> QED BY <2>1, <2>2 DEF Applies
<1>2. ASSUME BatchStep PROVE Applies \/ Stays(contents)
  <2>1. CASE applyOp(task.who, Head(task.todo))
    <3>1. task # NoTask /\ UNCHANGED <<live, clients>>
      BY <1>2 DEF BatchStep, Unlocked
    <3>2. task.who \in Clients /\ Head(task.todo) \in Request /\ live
      BY <1>0, <3>1, TaskTypes
    <3> QED BY <1>0, <2>1, <3>1, <3>2, ApplyOpEffect DEF Applies
  <2>2. CASE UNCHANGED <<doc, clock, seqNum, opLog, send, db>>
    BY <1>2, <2>2 DEF BatchStep
  <2> QED BY <1>2, <2>1, <2>2 DEF BatchStep
<1>3. ASSUME NEW c \in Clients, NEW content \in contents, HandleRestore(c, content)
      PROVE  Stays(contents)
  BY <1>3 DEF HandleRestore
<1>4. ASSUME NEW c \in Clients, Chat(c) \/ Pump(c) \/ \E ops \in Seq(Request) : StartBatch(c, ops)
      PROVE  Stays(contents)
  BY <1>4 DEF StartBatch, Chat, Pump, roomVars
<1>5. ASSUME NEW c \in Clients, NEW since, NEW offlineEdits, Join(c, since, offlineEdits)
      PROVE  Opens
  BY <1>5 DEF Join, Opens
<1>6. ASSUME NEW c \in Clients, Leave(c) PROVE Closes \/ Stays(contents)
  BY <1>6 DEF Leave, Closes, NoRoom, roomVars
<1>7. ASSUME Crash PROVE Closes
  BY <1>7 DEF Crash, Closes, NoRoom
<1>8. CASE UNCHANGED vars
  BY <1>8 DEF vars
<1> QED BY <1>1, <1>2, <1>3, <1>4, <1>5, <1>6, <1>7, <1>8 DEF RoomStep

-----------------------------------------------------------------------------

\* An empty log has no gap.
LEMMA LogContiguousInit == ASSUME NEW row, InitWith(row) PROVE LogContiguous
BY DEF InitWith, LogContiguous

\* The log grows by the next number, is trimmed in front, or is emptied.
LEMMA LogContiguousStep ==
    ASSUME RoomInv, LogContiguous, NEW contents \in SUBSET Seq(Chars), RoomStep(contents)
    PROVE  LogContiguous'
<1>0. opLog \in Seq(Op) /\ seqNum \in Nat /\ Len(opLog) \in Nat
  BY DEF RoomInv, TypeOK
<1>1. CASE Applies
  <2>1. PICK op \in Op : op.seq = seqNum + 1 /\ Publish(op)
    BY <1>1 DEF Applies
  <2> DEFINE log == Append(opLog, op)
  <2>2. /\ log \in Seq(Op) /\ Len(log) = Len(opLog) + 1
        /\ \A i \in 1 .. Len(opLog) : log[i] = opLog[i]
        /\ log[Len(opLog) + 1] = op
    BY <1>0, AppendProperties
  <2>3. \A i \in 1 .. Len(opLog) : opLog[i].seq = seqNum - Len(opLog) + i
    BY <1>0 DEF LogContiguous
  <2> HIDE DEF log
  <2>4. \A i \in 1 .. Len(log) : log[i].seq = (seqNum + 1) - Len(log) + i
    <3> SUFFICES ASSUME NEW i \in 1 .. Len(log)
                 PROVE  log[i].seq = (seqNum + 1) - Len(log) + i
      OBVIOUS
    <3>1. CASE i <= Len(opLog)
      BY <1>0, <2>2, <2>3, <3>1
    <3>2. CASE i = Len(opLog) + 1
      BY <1>0, <2>1, <2>2, <3>2
    <3> QED BY <1>0, <2>2, <3>1, <3>2
  <2>5. opLog' = Trimmed(log) /\ seqNum' = seqNum + 1
    BY <2>1 DEF Publish, log
  <2>6. /\ Trimmed(log) \in Seq(Op) /\ Len(Trimmed(log)) <= Len(log)
        /\ \A i \in 1 .. Len(Trimmed(log)) :
              Trimmed(log)[i] = log[Len(log) - Len(Trimmed(log)) + i]
    BY <2>2, TrimmedProperties
  <2>7. ASSUME NEW i \in 1 .. Len(Trimmed(log))
        PROVE  Trimmed(log)[i].seq = (seqNum + 1) - Len(Trimmed(log)) + i
    <3> DEFINE k == Len(log) - Len(Trimmed(log)) + i
    <3>1. k \in 1 .. Len(log) /\ Len(log) \in Nat /\ Len(Trimmed(log)) \in Nat
      BY <2>2, <2>6
    <3>2. log[k].seq = (seqNum + 1) - Len(log) + k
      BY <2>4, <3>1
    <3>3. Trimmed(log)[i] = log[k]
      BY <2>6
    <3> QED BY <1>0, <3>1, <3>2, <3>3
  <2>8. DOMAIN Trimmed(log) = 1 .. Len(Trimmed(log))
    BY <2>6
  <2> QED BY <2>5, <2>7, <2>8 DEF LogContiguous
<1>2. CASE Opens
  BY <1>2 DEF Opens, OpenRoom, RoomInv, Occupied, LogContiguous
<1>3. CASE Closes
  BY <1>3 DEF Closes, LogContiguous
<1>4. CASE Stays(contents)
  BY <1>4 DEF Stays, LogContiguous
<1> QED BY <1>1, <1>2, <1>3, <1>4, StepKinds

\* The log is always the last operations of the room without a gap, so what
\* buildReplaySync picks from it is a tail, whatever was trimmed, loaded or lost.
THEOREM LogIsContiguous == Spec => []LogContiguous
<1>1. Init => LogContiguous
  BY LogContiguousInit DEF Init
<1>2. RoomInv /\ LogContiguous /\ [Next]_vars => LogContiguous'
  BY LogContiguousStep, NextIsRoomStep, InputAssumption DEF RoomInv
<1> QED BY <1>1, <1>2, RoomInvCorrect, PTL DEF Spec

\* No room differs from its row.
LEMMA SavedInit == ASSUME NEW row, InitWith(row) PROVE SavedBeforeSent /\ SavedText
BY DEF InitWith, SavedBeforeSent, SavedText

\* A step that changes the number saves it.
LEMMA SavedBeforeSentStep ==
    ASSUME RoomInv, SavedBeforeSent, NEW contents \in SUBSET Seq(Chars), RoomStep(contents)
    PROVE  SavedBeforeSent'
<1>1. CASE Applies
  BY <1>1 DEF Applies, Publish, Save, SavedBeforeSent
<1>2. CASE Opens
  BY <1>2 DEF Opens, OpenRoom, LoadDocument, SavedBeforeSent
<1>3. CASE Closes
  BY <1>3 DEF Closes, SavedBeforeSent
<1>4. CASE Stays(contents)
  BY <1>4 DEF Stays, SavedBeforeSent
<1> QED BY <1>1, <1>2, <1>3, <1>4, StepKinds

\* A step that changes the text saves it, when nothing can be restored.
LEMMA SavedTextStep ==
    ASSUME RoomInv, SavedText, RoomStep(Restores)
    PROVE  SavedText'
<1>1. CASE Applies
  BY <1>1 DEF Applies, Publish, Save, SavedText
<1>2. CASE Opens
  <2>1. CASE live /\ UNCHANGED <<doc, clock, seqNum, opLog>>
    BY <1>2, <2>1 DEF Opens, SavedText
  <2>2. CASE LoadDocument
    <3>1. db.content \in Seq(Chars) /\ PersistSite \in Nat
      BY BoundAssumption DEF RoomInv, TypeOK, PersistSite
    <3>2. DocString(doc') = db.content
      BY <2>2, <3>1, ChainText DEF LoadDocument, hydrateRoomFromContent
    <3> QED BY <1>2, <3>2 DEF Opens, SavedText
  <2>3. CASE LoadMayFail
    BY <2>3 DEF SavedText
  <2> QED BY <1>2, <2>1, <2>2, <2>3 DEF Opens, OpenRoom
<1>3. CASE Closes
  BY <1>3 DEF Closes, SavedText
<1>4. CASE Stays(Restores)
  BY <1>4 DEF Stays, SavedText
<1> QED BY <1>1, <1>2, <1>3, <1>4, StepKinds, InputAssumption

\* When the database works, every operation a client may have seen is in the
\* row, so that a crash at any point takes none of them back.
THEOREM SavedBeforeSentAlways == Spec => []SavedBeforeSent
<1>1. Init => SavedBeforeSent
  BY SavedInit DEF Init
<1>2. RoomInv /\ SavedBeforeSent /\ [Next]_vars => SavedBeforeSent'
  BY SavedBeforeSentStep, NextIsRoomStep, InputAssumption DEF RoomInv
<1> QED BY <1>1, <1>2, RoomInvCorrect, PTL DEF Spec

\* When the database works and nobody restores, the row holds the text of the
\* room after every operation, and a room that is loaded holds that of the row.
THEOREM SavedTextAlways == Spec => []SavedText
<1>1. Init => SavedText
  BY SavedInit DEF Init
<1>2. RoomInv /\ SavedText /\ [Next]_vars => SavedText'
  BY SavedTextStep, NextIsRoomStep DEF RoomInv
<1> QED BY <1>1, <1>2, RoomInvCorrect, PTL DEF Spec

-----------------------------------------------------------------------------
(***************************************************************************)
(* The order of what waits in a channel.                                   *)
(***************************************************************************)

\* OutboxOrdered of one channel, in a room that has reached number n.
Ordered(q, n) ==
    \A j \in DOMAIN q :
        /\ q[j].seq <= n
        /\ IsOp(q[j]) => \A i \in 1 .. j - 1 : q[i].seq < q[j].seq

\* OutboxOrdered is Ordered of every channel.
LEMMA OutboxOrderedIsOrdered ==
    OutboxOrdered <=> \A c \in Clients : Ordered(send[c], seqNum)
BY DEF OutboxOrdered, Ordered

\* The same after a step.
LEMMA OutboxOrderedIsOrderedNext ==
    OutboxOrdered' <=> \A c \in Clients : Ordered(send'[c], seqNum')
BY DEF OutboxOrdered, Ordered

\* Every message has a number.
LEMMA MessageSeq == ASSUME NEW m \in Message PROVE m.seq \in Nat
BY DEF Message, Op, InsertOp, DeleteOp, FullSync, ReplaySync, Signal

\* An empty channel is in order.
LEMMA EmptyOrdered == ASSUME NEW n PROVE Ordered(<< >>, n)
BY DEF Ordered

\* An operation whose number is above the room's, or anything else that is not
\* ahead of the room, may be sent.
LEMMA SafeSendOrdered ==
    ASSUME NEW q \in Seq(Message), NEW n \in Nat, Ordered(q, n),
           NEW k \in Nat, n <= k, NEW m \in Message, m.seq <= k, IsOp(m) => n < m.seq
    PROVE  Ordered(safeSend(q, m), k) /\ Ordered(q, k)
<1> HIDE DEF Message
<1>0. \A x \in Message : x.seq \in Nat
  BY MessageSeq
<1>1. Len(q) \in Nat /\ DOMAIN q = 1 .. Len(q) /\ \A j \in 1 .. Len(q) : q[j] \in Message
  OBVIOUS
<1>2. Ordered(q, k)
  BY <1>0, <1>1 DEF Ordered
<1>3. Ordered(Append(q, m), k)
  <2> DEFINE a == Append(q, m)
  <2>1. /\ DOMAIN a = 1 .. Len(q) + 1
        /\ \A j \in 1 .. Len(q) : a[j] = q[j]
        /\ a[Len(q) + 1] = m
    BY <1>1
  <2> HIDE DEF a
  <2>2. ASSUME NEW j \in 1 .. Len(q) + 1
        PROVE  /\ a[j].seq <= k
               /\ IsOp(a[j]) => \A i \in 1 .. j - 1 : a[i].seq < a[j].seq
    <3>1. CASE j <= Len(q)
      <4>1. j \in 1 .. Len(q) /\ a[j] = q[j] /\ \A i \in 1 .. j - 1 : a[i] = q[i]
        BY <1>1, <2>1, <3>1
      <4> QED BY <1>1, <1>2, <4>1 DEF Ordered
    <3>2. CASE j = Len(q) + 1
      <4>1. a[j] = m /\ \A i \in 1 .. j - 1 : a[i] = q[i] /\ q[i].seq <= n /\ q[i].seq \in Nat
        BY <1>0, <1>1, <2>1, <3>2 DEF Ordered
      <4>2. m.seq \in Nat
        BY <1>0
      <4> QED BY SMTT(30), <4>1, <4>2
    <3> QED BY <1>1, <3>1, <3>2
  <2> QED BY <2>1, <2>2 DEF Ordered, a
<1> QED BY <1>2, <1>3 DEF safeSend

\* A message that may be sent to one may be sent to all.
LEMMA BroadcastOrdered ==
    ASSUME TypeOK, OutboxOrdered, NEW to, NEW k \in Nat, seqNum <= k,
           NEW m \in Message, m.seq <= k, IsOp(m) => seqNum < m.seq
    PROVE  \A c \in Clients : Ordered(Broadcast(to, m)[c], k)
<1> SUFFICES ASSUME NEW c \in Clients PROVE Ordered(Broadcast(to, m)[c], k)
  OBVIOUS
<1>1. send[c] \in Seq(Message) /\ seqNum \in Nat
  BY DEF TypeOK
<1>2. Ordered(send[c], seqNum)
  BY OutboxOrderedIsOrdered
<1>3. Ordered(safeSend(send[c], m), k) /\ Ordered(send[c], k)
  BY <1>1, <1>2, SafeSendOrdered
<1> QED BY <1>3 DEF Broadcast

\* A signal has no number.
LEMMA SignalProperties == Signal \in Message /\ Signal.seq = 0 /\ ~IsOp(Signal)
BY DEF Message, Signal, IsOp

\* Sending an answer that is not an operation.
LEMMA AnswersOrdered ==
    ASSUME RoomInv, OutboxOrdered, UNCHANGED seqNum,
           NEW to, NEW m \in Message, m.seq <= seqNum, ~IsOp(m),
           \A c \in Clients : send'[c] = Broadcast(to, m)[c] \/ send'[c] = << >>
    PROVE  OutboxOrdered'
<1>1. TypeOK /\ seqNum \in Nat
  BY DEF RoomInv, TypeOK
<1>2. \A c \in Clients : Ordered(Broadcast(to, m)[c], seqNum)
  BY <1>1, BroadcastOrdered
<1>3. ASSUME NEW c \in Clients PROVE Ordered(send'[c], seqNum')
  BY <1>2, EmptyOrdered
<1> QED BY <1>3, OutboxOrderedIsOrderedNext

\* A new channel starts with its greeting.
LEMMA JoinOrdered ==
    ASSUME RoomInv, RoomInv', OutboxOrdered,
           NEW c \in Clients, NEW since \in Nat, NEW offlineEdits \in BOOLEAN,
           Join(c, since, offlineEdits)
    PROVE  OutboxOrdered'
<1> DEFINE g == Greeting(since, offlineEdits)
<1>1. /\ TypeOK /\ Occupied /\ OpenRoom /\ seqNum \in Nat /\ seqNum' \in Nat
      /\ opLog' \in Seq(Op) /\ doc' \in Seq(Node(Chars))
      /\ send' = [Broadcast(clients, Signal) EXCEPT ![c] = safeSend(<<g>>, Signal)]
      /\ send' \in [Clients -> Seq(Message)]
  BY DEF Join, RoomInv, TypeOK
<1>2. g \in Message /\ g.seq = seqNum' /\ ~IsOp(g)
  <2>1. g \in Message
    BY <1>1, GreetingType
  <2> QED BY <2>1 DEF Greeting, buildFullSync, IsOp
<1> HIDE DEF g
<1>3. Ordered(safeSend(<<g>>, Signal), seqNum')
  <2>1. <<g>> \in Seq(Message) /\ DOMAIN <<g>> = 1 .. 1 /\ <<g>>[1] = g
    BY <1>2
  <2>2. Ordered(<<g>>, seqNum')
    BY <1>1, <1>2, <2>1 DEF Ordered
  <2>3. /\ seqNum' \in Nat /\ seqNum' <= seqNum' /\ Signal \in Message
        /\ Signal.seq <= seqNum' /\ (IsOp(Signal) => seqNum' < Signal.seq)
    BY <1>1, SignalProperties
  <2> QED BY <2>1, <2>2, <2>3, SafeSendOrdered, Zenon
<1>4. ASSUME NEW d \in Clients PROVE Ordered(Broadcast(clients, Signal)[d], seqNum')
  <2>1. CASE live
    <3>1. seqNum' = seqNum
      BY <1>1, <2>1 DEF OpenRoom
    <3>2. /\ seqNum \in Nat /\ seqNum <= seqNum /\ Signal \in Message
          /\ Signal.seq <= seqNum /\ (IsOp(Signal) => seqNum < Signal.seq)
      BY <1>1, SignalProperties
    <3>3. Ordered(Broadcast(clients, Signal)[d], seqNum)
      BY <1>1, <3>2, BroadcastOrdered, Zenon
    <3> QED BY <3>1, <3>3
  <2>2. CASE ~live
    <3>1. d \notin clients /\ send[d] = << >>
      BY <1>1, <2>2 DEF Occupied
    <3>2. Broadcast(clients, Signal)[d] = << >>
      BY <3>1 DEF Broadcast
    <3> QED BY <3>2, EmptyOrdered
  <2> QED BY <1>1, <2>1, <2>2 DEF TypeOK
<1>5. ASSUME NEW d \in Clients PROVE Ordered(send'[d], seqNum')
  <2>1. Broadcast(clients, Signal) = [e \in Clients |-> Broadcast(clients, Signal)[e]]
    BY DEF Broadcast
  <2>2. send'[d] = IF d = c THEN safeSend(<<g>>, Signal) ELSE Broadcast(clients, Signal)[d]
    BY <1>1, <2>1
  <2> QED BY <1>3, <1>4, <2>2
<1> QED BY <1>5, OutboxOrderedIsOrderedNext

\* The channels of those who stay get a signal, that of the one who leaves is emptied.
LEMMA LeaveOrdered ==
    ASSUME RoomInv, OutboxOrdered, NEW c \in Clients, Leave(c)
    PROVE  OutboxOrdered'
<1>1. send' = [Broadcast(clients', Signal) EXCEPT ![c] = << >>] /\ seqNum \in Nat
  BY DEF Leave, RoomInv, TypeOK
<1>2. ASSUME NEW d \in Clients
      PROVE  send'[d] = Broadcast(clients', Signal)[d] \/ send'[d] = << >>
  <2>1. Broadcast(clients', Signal) = [e \in Clients |-> Broadcast(clients', Signal)[e]]
    BY DEF Broadcast
  <2> QED BY <1>1, <2>1
<1>3. CASE clients' = {}
  <2>1. clients \subseteq {c}
    BY <1>3 DEF Leave
  <2>2. ASSUME NEW d \in Clients PROVE send'[d] = << >>
    <3>1. d # c => send[d] = << >>
      BY <2>1 DEF RoomInv, Occupied
    <3>2. Broadcast(clients', Signal)[d] = send[d]
      BY <1>3 DEF Broadcast
    <3>3. Broadcast(clients', Signal) = [e \in Clients |-> Broadcast(clients', Signal)[e]]
      BY DEF Broadcast
    <3> QED BY <1>1, <3>1, <3>2, <3>3
  <2> QED BY <2>2, EmptyOrdered, OutboxOrderedIsOrderedNext
<1>4. CASE clients' # {}
  <2>1. UNCHANGED seqNum
    BY <1>4 DEF Leave, roomVars
  <2> QED BY <1>1, <1>2, <2>1, AnswersOrdered, SignalProperties
<1> QED BY <1>3, <1>4

\* The full_sync that answers a restore carries the number of the room.
LEMMA RestoreOrdered ==
    ASSUME RoomInv, RoomInv', OutboxOrdered, NEW c \in Clients,
           NEW content, HandleRestore(c, content)
    PROVE  OutboxOrdered'
<1> DEFINE m == buildFullSync
<1>1. /\ send' = [send EXCEPT ![c] = safeSend(@, m)] /\ UNCHANGED seqNum
      /\ seqNum \in Nat /\ doc' \in Seq(Node(Chars)) /\ send \in [Clients -> Seq(Message)]
  BY DEF HandleRestore, RoomInv, TypeOK
<1>2. m \in Message /\ m.seq = seqNum /\ ~IsOp(m)
  BY <1>1, FullSyncType DEF buildFullSync, IsOp
<1> HIDE DEF m
<1>3. \A d \in Clients : send'[d] = Broadcast({c}, m)[d]
  BY <1>1 DEF Broadcast
<1> QED BY SMTT(30), <1>1, <1>2, <1>3, AnswersOrdered

\* Signals are never out of order.
LEMMA ChatOrdered ==
    ASSUME RoomInv, OutboxOrdered, NEW c \in Clients, Chat(c)
    PROVE  OutboxOrdered'
<1>1. PICK to \in SUBSET clients : send' = Broadcast(to, Signal)
  BY DEF Chat, Free
<1>2. UNCHANGED seqNum /\ seqNum \in Nat
  BY DEF Chat, roomVars, RoomInv, TypeOK
<1> QED BY <1>1, <1>2, AnswersOrdered, SignalProperties

\* What is left of a channel is in order.
LEMMA PumpOrdered ==
    ASSUME RoomInv, OutboxOrdered, NEW c \in Clients, Pump(c)
    PROVE  OutboxOrdered'
<1>1. /\ send' = [send EXCEPT ![c] = Tail(@)] /\ UNCHANGED seqNum /\ send[c] # << >>
      /\ send \in [Clients -> Seq(Message)]
  BY DEF Pump, roomVars, RoomInv, TypeOK
<1>2. Ordered(send[c], seqNum) /\ send[c] \in Seq(Message)
  BY <1>1, OutboxOrderedIsOrdered
<1>3. Ordered(Tail(send[c]), seqNum)
  <2> DEFINE q == send[c]
             t == Tail(send[c])
  <2>1. /\ DOMAIN t = 1 .. Len(q) - 1 /\ Len(q) \in Nat
        /\ \A i \in 1 .. Len(q) - 1 : t[i] = q[i + 1]
    <3> HIDE DEF Message
    <3> QED BY <1>1, <1>2, HeadTailProperties
  <2>2. Ordered(q, seqNum) /\ DOMAIN q = 1 .. Len(q)
    BY <1>2
  <2> HIDE DEF q, t
  <2>3. ASSUME NEW j \in 1 .. Len(q) - 1
        PROVE  /\ t[j].seq <= seqNum
               /\ IsOp(t[j]) => \A i \in 1 .. j - 1 : t[i].seq < t[j].seq
    <3>1. j + 1 \in DOMAIN q /\ t[j] = q[j + 1]
      BY <2>1, <2>2
    <3>2. \A i \in 1 .. j - 1 : i + 1 \in 1 .. (j + 1) - 1 /\ t[i] = q[i + 1]
      BY <2>1
    <3> QED BY <2>2, <3>1, <3>2 DEF Ordered
  <2> QED BY <2>1, <2>3 DEF Ordered, t
<1>4. ASSUME NEW d \in Clients PROVE Ordered(send'[d], seqNum')
  BY <1>1, <1>3, OutboxOrderedIsOrdered
<1> QED BY <1>4, OutboxOrderedIsOrderedNext

\* An operation carries a number above all that was sent.
LEMMA PublishOrdered ==
    ASSUME RoomInv, OutboxOrdered, NEW op \in Op, op.seq = seqNum + 1, Publish(op)
    PROVE  OutboxOrdered'
<1>1. TypeOK /\ seqNum \in Nat /\ seqNum' = seqNum + 1 /\ send' = Broadcast(clients, op)
  BY DEF RoomInv, TypeOK, Publish
<1>2. op \in Message /\ seqNum' \in Nat /\ seqNum <= seqNum' /\ op.seq <= seqNum'
      /\ (IsOp(op) => seqNum < op.seq)
  BY <1>1, MessageKinds
<1>3. \A c \in Clients : Ordered(Broadcast(clients, op)[c], seqNum')
  BY <1>1, <1>2, BroadcastOrdered, Zenon
<1> QED BY <1>1, <1>3, OutboxOrderedIsOrderedNext

\* No channel holds anything.
LEMMA OutboxOrderedInit == ASSUME NEW row, InitWith(row) PROVE OutboxOrdered
BY EmptyOrdered, OutboxOrderedIsOrdered DEF InitWith

\* Every step keeps the channels in order.
LEMMA OutboxOrderedStep ==
    ASSUME RoomInv, RoomInv', OutboxOrdered, NEW contents \in SUBSET Seq(Chars), RoomStep(contents)
    PROVE  OutboxOrdered'
<1>0. TypeOK /\ FreshIDs /\ Occupied
  BY DEF RoomInv
<1>1. ASSUME NEW c \in Clients, NEW r \in Request, applyOp(c, r) PROVE OutboxOrdered'
  BY <1>0, <1>1, ApplyOpEffect, PublishOrdered
<1>2. ASSUME NEW c \in Clients, NEW r \in Request, HandleOp(c, r) PROVE OutboxOrdered'
  BY <1>1, <1>2 DEF HandleOp
<1>3. ASSUME BatchStep PROVE OutboxOrdered'
  <2>1. CASE applyOp(task.who, Head(task.todo))
    <3>1. task.who \in Clients /\ Head(task.todo) \in Request
      BY <1>0, <1>3, TaskTypes DEF BatchStep, Unlocked
    <3> QED BY <1>1, <2>1, <3>1
  <2>2. CASE UNCHANGED <<seqNum, send>>
    BY <2>2 DEF OutboxOrdered
  <2> QED BY <1>3, <2>1, <2>2 DEF BatchStep
<1>4. ASSUME NEW c \in Clients, NEW ops, StartBatch(c, ops) PROVE OutboxOrdered'
  BY <1>4 DEF StartBatch, roomVars, OutboxOrdered
<1>5. ASSUME Crash PROVE OutboxOrdered'
  <2>1. \A c \in Clients : send'[c] = << >>
    BY <1>5 DEF Crash
  <2> QED BY <2>1, EmptyOrdered, OutboxOrderedIsOrderedNext
<1>6. CASE UNCHANGED vars
  BY <1>6 DEF vars, OutboxOrdered
<1> QED BY <1>2, <1>3, <1>4, <1>5, <1>6, JoinOrdered, LeaveOrdered, RestoreOrdered,
        ChatOrdered, PumpOrdered DEF RoomStep

\* Everything that waits in a channel is in the order of its numbers, and every
\* operation is above all that waits before it: a browser that ignores numbers
\* it has reached ignores nothing new, through greetings, restores and drops.
THEOREM OutboxIsOrdered == Spec => []OutboxOrdered
<1>1. Init => OutboxOrdered
  BY OutboxOrderedInit DEF Init
<1>2. RoomInv /\ RoomInv' /\ OutboxOrdered /\ [Next]_vars => OutboxOrdered'
  BY OutboxOrderedStep, NextIsRoomStep, InputAssumption DEF RoomInv
<1> QED BY <1>1, <1>2, RoomInvCorrect, PTL DEF Spec

-----------------------------------------------------------------------------
(***************************************************************************)
(* No node of a living room is lost, revived or moved around another.      *)
(* Every operation has a map from the old places to the new ones that keeps *)
(* their order; because identifiers are fresh, the place of an identifier  *)
(* in the new list is where the map sends it.                              *)
(***************************************************************************)

\* e has every node of d, at the place f gives it, in the order of d.
KeptAt(f, d, e) ==
    /\ \A i \in DOMAIN d :
          /\ f[i] \in DOMAIN e
          /\ e[f[i]].ID = d[i].ID
          /\ e[f[i]].Char = d[i].Char
          /\ d[i].IsDeleted => e[f[i]].IsDeleted
    /\ \A i, j \in DOMAIN d : i < j => f[i] < f[j]

\* What NodesStay says of one step, for two lists.
StillThere(d, e) ==
    /\ IDs(d) \subseteq IDs(e)
    /\ \A i \in DOMAIN d :
        LET now == IndexOf(e, d[i].ID)
        IN  /\ e[now].Char = d[i].Char
            /\ d[i].IsDeleted => e[now].IsDeleted
            /\ \A j \in i + 1 .. Len(d) : now < IndexOf(e, d[j].ID)

\* In a list with fresh identifiers, IndexOf finds the place of a node.
LEMMA FreshPlace ==
    ASSUME NEW C, NEW e \in Seq(Node(C)), NEW k, Fresh(e, k), NEW i \in DOMAIN e
    PROVE  IndexOf(e, e[i].ID) = i
<1>1. e[i].ID # RootID
  BY DEF Fresh, RootID
<1>2. \A j \in DOMAIN e : e[j].ID = e[i].ID => j = i
  BY DEF Fresh
<1> QED BY <1>1, <1>2 DEF IndexOf

\* A map that keeps the nodes and their order shows that all are still there.
LEMMA KeptIsStillThere ==
    ASSUME NEW C, NEW d \in Seq(Node(C)), NEW e \in Seq(Node(C)), NEW k, Fresh(e, k),
           NEW f, KeptAt(f, d, e)
    PROVE  StillThere(d, e)
<1>1. ASSUME NEW i \in DOMAIN d
      PROVE  f[i] \in DOMAIN e /\ e[f[i]].ID = d[i].ID /\ IndexOf(e, d[i].ID) = f[i]
  <2>1. f[i] \in DOMAIN e /\ e[f[i]].ID = d[i].ID
    BY DEF KeptAt
  <2>2. IndexOf(e, e[f[i]].ID) = f[i]
    BY <2>1, FreshPlace
  <2> QED BY <2>1, <2>2
<1>2. IDs(d) \subseteq IDs(e)
  BY <1>1 DEF IDs
<1>3. ASSUME NEW i \in DOMAIN d, NEW j \in i + 1 .. Len(d)
      PROVE  IndexOf(e, d[i].ID) < IndexOf(e, d[j].ID)
  <2>1. j \in DOMAIN d /\ i < j
    OBVIOUS
  <2>2. f[i] < f[j]
    BY <2>1 DEF KeptAt
  <2> QED BY <1>1, <2>1, <2>2
<1> QED BY <1>1, <1>2, <1>3 DEF StillThere, KeptAt

\* A list that did not change keeps its nodes.
LEMMA SameKept ==
    ASSUME NEW C, NEW d \in Seq(Node(C))
    PROVE  KeptAt([i \in DOMAIN d |-> i], d, d)
BY DEF KeptAt

\* A node that is spliced in moves those behind it one place on.
LEMMA SplicedKept ==
    ASSUME NEW C, NEW d \in Seq(Node(C)), NEW e \in Seq(Node(C)),
           NEW p \in 0 .. Len(d), NEW n, Spliced(e, d, p, n)
    PROVE  KeptAt([i \in DOMAIN d |-> IF i <= p THEN i ELSE i + 1], d, e)
<1> DEFINE f == [i \in DOMAIN d |-> IF i <= p THEN i ELSE i + 1]
<1>1. Len(d) \in Nat /\ DOMAIN d = 1 .. Len(d) /\ DOMAIN e = 1 .. Len(d) + 1
  BY DEF Spliced
<1>2. ASSUME NEW i \in DOMAIN d PROVE f[i] \in DOMAIN e /\ e[f[i]] = d[i]
  <2>1. CASE i <= p
    <3>1. i \in 1 .. Len(d) + 1 /\ f[i] = i
      BY <1>1, <2>1
    <3> QED BY <1>1, <2>1, <3>1 DEF Spliced
  <2>2. CASE ~(i <= p)
    <3>1. i + 1 \in 1 .. Len(d) + 1 /\ ~(i + 1 <= p) /\ i + 1 # p + 1 /\ f[i] = i + 1
          /\ (i + 1) - 1 = i
      BY <1>1, <2>2
    <3> QED BY <1>1, <3>1 DEF Spliced
  <2> QED BY <2>1, <2>2
<1>3. ASSUME NEW i \in DOMAIN d, NEW j \in DOMAIN d, i < j PROVE f[i] < f[j]
  BY <1>1, <1>3
<1> HIDE DEF f
<1>4. KeptAt(f, d, e)
  BY <1>2, <1>3 DEF KeptAt
<1> QED BY <1>4 DEF f

\* Delete marks a node and moves none.
LEMMA DeletedKept ==
    ASSUME NEW C, NEW d \in Seq(Node(C)), NEW id
    PROVE  KeptAt([i \in DOMAIN d |-> i], d, Delete(d, id))
<1>1. ASSUME NEW i \in DOMAIN d
      PROVE  /\ i \in DOMAIN Delete(d, id)
             /\ Delete(d, id)[i].ID = d[i].ID
             /\ Delete(d, id)[i].Char = d[i].Char
             /\ d[i].IsDeleted => Delete(d, id)[i].IsDeleted
  <2>1. d[i] \in Node(C) /\ i \in 1 .. Len(d)
    OBVIOUS
  <2>2. Delete(d, id)[i] = IF d[i].ID = id THEN [d[i] EXCEPT !.IsDeleted = TRUE] ELSE d[i]
    BY DEF Delete
  <2>3. [d[i] EXCEPT !.IsDeleted = TRUE].IsDeleted = TRUE
    BY <2>1 DEF Node
  <2> QED BY <2>1, <2>2, <2>3, DeleteProperties
<1> QED BY <1>1 DEF KeptAt

\* A text that comes in front of the list moves all of it on by its length.
LEMMA ChainKept ==
    ASSUME NEW C, NEW d \in Seq(Node(C)), NEW ch \in Seq(Node(C))
    PROVE  KeptAt([i \in DOMAIN d |-> Len(ch) + i], d, ch \o d)
<1> DEFINE S == Node(C)
<1>1. /\ Len(d) \in Nat /\ Len(ch) \in Nat /\ DOMAIN d = 1 .. Len(d)
      /\ DOMAIN (ch \o d) = 1 .. Len(ch) + Len(d)
      /\ \A i \in 1 .. Len(ch) + Len(d) : (ch \o d)[i] = IF i <= Len(ch) THEN ch[i] ELSE d[i - Len(ch)]
  <2> HIDE DEF S
  <2>1. d \in Seq(S) /\ ch \in Seq(S)
    BY DEF S
  <2> QED BY <2>1, ConcatProperties
<1>2. ASSUME NEW i \in DOMAIN d
      PROVE  Len(ch) + i \in DOMAIN (ch \o d) /\ (ch \o d)[Len(ch) + i] = d[i]
  <2>1. Len(ch) + i \in 1 .. Len(ch) + Len(d) /\ ~(Len(ch) + i <= Len(ch))
        /\ (Len(ch) + i) - Len(ch) = i
    BY <1>1
  <2> QED BY <1>1, <2>1
<1>3. \A i, j \in DOMAIN d : i < j => Len(ch) + i < Len(ch) + j
  BY <1>1
<1> QED BY <1>2, <1>3 DEF KeptAt

\* Deleted or inserted, an operation keeps the nodes of the room.
LEMMA ApplyOpKeepsNodes ==
    ASSUME TypeOK, FreshIDs, NEW c \in Clients, NEW r \in Request, applyOp(c, r)
    PROVE  StillThere(doc, doc')
<1>1. /\ clock \in Nat /\ user[c] \in Nat /\ doc \in Seq(Node(Chars))
      /\ doc' \in Seq(Node(Chars)) /\ Fresh(doc', clock')
  <2>1. doc' \in Seq(Node(Chars)) /\ FreshIDs'
    BY ApplyOpEffect
  <2> QED BY <2>1, FreshIDsIsFreshNext DEF TypeOK
<1>2. ASSUME r.type = "insert", ApplyInsert(c, r) PROVE StillThere(doc, doc')
  <2> DEFINE newID == [clock |-> clock + 1, site |-> user[c]]
             n == [ID |-> newID, Char |-> r.Char, IsDeleted |-> FALSE]
             p == IndexOf(doc, ResolvedAnchor(r))
  <2>1. r \in InsertRequest /\ r.Char \in Chars /\ Known(doc, ResolvedAnchor(r))
    BY <1>2, ResolvedKnown DEF Request, InsertRequest, DeleteRequest
  <2>2. newID \in OpID /\ newID.clock > 0 /\ \A i \in DOMAIN doc : doc[i].ID.clock < newID.clock
    BY <1>1 DEF OpID, FreshIDs
  <2>3. doc' = Insert(doc, r.Char, ResolvedAnchor(r), newID)
    BY <1>2 DEF ApplyInsert
  <2>4. p \in 0 .. Len(doc) /\ Spliced(doc', doc, p, n)
    <3> HIDE DEF newID
    <3> QED BY <1>1, <2>1, <2>2, <2>3, InsertProperties
  <2> HIDE DEF n, p
  <2> QED BY <1>1, <2>4, SplicedKept, KeptIsStillThere
<1>3. ASSUME r.type = "delete", ApplyDelete(c, r) PROVE StillThere(doc, doc')
  <2>1. doc' = Delete(doc, ResolvedTarget(r))
    BY <1>3 DEF ApplyDelete
  <2> QED BY <1>1, <2>1, DeletedKept, KeptIsStillThere
<1> QED BY <1>2, <1>3 DEF applyOp

\* A list that is what it was has all its nodes.
LEMMA UnchangedKeepsNodes ==
    ASSUME TypeOK, FreshIDs, UNCHANGED doc
    PROVE  StillThere(doc, doc')
<1>1. doc \in Seq(Node(Chars)) /\ Fresh(doc, clock)
  BY FreshIDsIsFresh DEF TypeOK
<1> QED BY <1>1, SameKept, KeptIsStillThere

\* Only operations, restores, and the opening and removing of the room change
\* the list; while the room lives, all of them keep its nodes.
LEMMA NodesStayStep ==
    ASSUME RoomInv, RoomInv', NEW contents \in SUBSET Seq(Chars), RoomStep(contents), live, live'
    PROVE  StillThere(doc, doc')
<1>0. TypeOK /\ FreshIDs /\ Occupied
  BY DEF RoomInv
<1>1. ASSUME NEW c \in Clients, NEW r \in Request, HandleOp(c, r) PROVE StillThere(doc, doc')
  BY <1>0, <1>1, ApplyOpKeepsNodes DEF HandleOp
<1>2. ASSUME BatchStep PROVE StillThere(doc, doc')
  <2>1. CASE applyOp(task.who, Head(task.todo))
    <3>1. task.who \in Clients /\ Head(task.todo) \in Request
      BY <1>0, <1>2, TaskTypes DEF BatchStep, Unlocked
    <3> QED BY <1>0, <2>1, <3>1, ApplyOpKeepsNodes
  <2>2. CASE UNCHANGED doc
    BY <1>0, <2>2, UnchangedKeepsNodes
  <2> QED BY <1>2, <2>1, <2>2 DEF BatchStep
<1>3. ASSUME NEW c \in Clients, NEW content \in contents, HandleRestore(c, content)
      PROVE  StillThere(doc, doc')
  <2>1. CASE Rebuild(c, content)
    <3> DEFINE ch == Chain(content, clock, user[c])
    <3>1. /\ doc' = ch \o doc /\ content \in Seq(Chars) /\ clock \in Nat /\ user[c] \in Nat
          /\ doc \in Seq(Node(Chars)) /\ doc' \in Seq(Node(Chars)) /\ Fresh(doc', clock')
      BY <1>0, <2>1, FreshIDsIsFreshNext DEF Rebuild, RoomInv, TypeOK
    <3>2. ch \in Seq(Node(Chars))
      BY <3>1, ChainProperties
    <3> HIDE DEF ch
    <3> QED BY <3>1, <3>2, ChainKept, KeptIsStillThere
  <2>2. CASE UNCHANGED <<doc, clock>>
    BY <1>0, <2>2, UnchangedKeepsNodes
  <2> QED BY <1>3, <2>1, <2>2 DEF HandleRestore
<1>4. ASSUME NEW c \in Clients, NEW since, NEW offlineEdits, Join(c, since, offlineEdits)
      PROVE  StillThere(doc, doc')
  BY <1>0, <1>4, UnchangedKeepsNodes DEF Join, OpenRoom
<1>5. ASSUME NEW c \in Clients,
             \/ Chat(c) \/ Pump(c) \/ Leave(c)
             \/ \E ops \in Seq(Request) : StartBatch(c, ops)
      PROVE  StillThere(doc, doc')
  <2>1. UNCHANGED doc
    BY <1>5 DEF Chat, Pump, Leave, StartBatch, NoRoom, roomVars
  <2> QED BY <1>0, <2>1, UnchangedKeepsNodes
<1>6. ~Crash
  BY DEF Crash, NoRoom
<1>7. CASE UNCHANGED vars
  BY <1>0, <1>7, UnchangedKeepsNodes DEF vars
<1> QED BY <1>1, <1>2, <1>3, <1>4, <1>5, <1>6, <1>7 DEF RoomStep

\* As long as a room lives, no node of its list is lost, revived or moved around
\* another: an identifier a client got means the same character in every
\* operation it will send, through batches, restores and joins.
THEOREM NodesAlwaysStay == Spec => NodesStay
<1>1. ASSUME RoomInv, RoomInv', [Next]_vars
      PROVE  [live /\ live' => StillThere(doc, doc')]_vars
  BY <1>1, NodesStayStep, NextIsRoomStep, InputAssumption DEF RoomInv
<1>2. Spec => [][live /\ live' => StillThere(doc, doc')]_vars
  BY <1>1, RoomInvCorrect, PTL DEF Spec
<1> QED BY <1>2 DEF NodesStay, StillThere

-----------------------------------------------------------------------------
(***************************************************************************)
(* Texts: what PutAt and CutAt return, place by place.                     *)
(***************************************************************************)

\* s with x put behind its first k elements.
LEMMA PutProperties ==
    ASSUME NEW S, NEW s \in Seq(S), NEW x \in S, NEW k \in 0 .. Len(s)
    PROVE  /\ PutAt(s, k, x) = SubSeq(s, 1, k) \o <<x>> \o SubSeq(s, k + 1, Len(s))
           /\ PutAt(s, k, x) \in Seq(S)
           /\ Spliced(PutAt(s, k, x), s, k, x)
<1> DEFINE front == SubSeq(s, 1, k)
           back == SubSeq(s, k + 1, Len(s))
           mid == front \o <<x>>
<1>1. front \in Seq(S) /\ Len(front) = k /\ \A i \in 1 .. k : front[i] = s[i]
  BY SubSeqProperties
<1>2. back \in Seq(S) /\ Len(back) = Len(s) - k /\ \A i \in 1 .. Len(s) - k : back[i] = s[k + i]
  BY SubSeqProperties
<1>3. <<x>> \in Seq(S) /\ Len(<<x>>) = 1 /\ <<x>>[1] = x
  OBVIOUS
<1>0. (IF k > Len(s) THEN Len(s) ELSE k) = k /\ k \in Nat
  OBVIOUS
<1>8. PutAt(s, k, x) = SubSeq(s, 1, k) \o <<x>> \o SubSeq(s, k + 1, Len(s))
  BY <1>0, Zenon DEF PutAt
<1>4. PutAt(s, k, x) = mid \o back
  BY <1>8
<1> HIDE DEF front, back
<1>5. /\ mid \in Seq(S) /\ Len(mid) = k + 1
      /\ \A i \in 1 .. k + 1 : mid[i] = IF i <= k THEN front[i] ELSE <<x>>[i - k]
  BY <1>1, <1>3, ConcatProperties
<1> HIDE DEF mid
<1>6. /\ mid \o back \in Seq(S)
      /\ Len(mid \o back) = Len(s) + 1
      /\ \A i \in 1 .. Len(s) + 1 :
            (mid \o back)[i] = IF i <= k + 1 THEN mid[i] ELSE back[i - (k + 1)]
  <2>1. /\ mid \o back \in Seq(S)
        /\ Len(mid \o back) = Len(mid) + Len(back)
        /\ \A i \in 1 .. Len(mid) + Len(back) :
              (mid \o back)[i] = IF i <= Len(mid) THEN mid[i] ELSE back[i - Len(mid)]
    BY <1>2, <1>5, ConcatProperties
  <2>2. Len(mid) = k + 1 /\ Len(mid) + Len(back) = Len(s) + 1
    BY <1>2, <1>5
  <2> QED BY <2>1, <2>2
<1>7. ASSUME NEW q \in 1 .. Len(s) + 1
      PROVE  PutAt(s, k, x)[q] = IF q <= k THEN s[q] ELSE IF q = k + 1 THEN x ELSE s[q - 1]
  <2>1. CASE q <= k
    <3>1. q \in 1 .. k /\ q <= k + 1
      BY <2>1
    <3>2. PutAt(s, k, x)[q] = mid[q] /\ mid[q] = front[q] /\ front[q] = s[q]
      BY <1>1, <1>4, <1>5, <1>6, <3>1
    <3> QED BY <2>1, <3>2
  <2>2. CASE q = k + 1
    <3>1. PutAt(s, k, x)[q] = mid[q] /\ mid[q] = <<x>>[1]
      BY <1>4, <1>5, <1>6, <2>2
    <3> QED BY <1>3, <2>2, <3>1
  <2>3. CASE q > k + 1
    <3>1. q - (k + 1) \in 1 .. Len(s) - k /\ k + (q - (k + 1)) = q - 1
      BY <2>3
    <3>2. back[q - (k + 1)] = s[q - 1]
      BY <1>2, <3>1
    <3> QED BY <1>4, <1>6, <2>3, <3>2
  <2> QED BY <1>0, <2>1, <2>2, <2>3
<1> QED BY <1>4, <1>6, <1>7, <1>8 DEF Spliced

\* new is s without the element behind its first k.
Without(new, s, k) ==
    /\ Len(new) = Len(s) - 1
    /\ \A q \in 1 .. Len(s) - 1 : new[q] = IF q <= k THEN s[q] ELSE s[q + 1]

\* And that is what CutAt returns.
LEMMA CutProperties ==
    ASSUME NEW S, NEW s \in Seq(S), NEW k \in 0 .. Len(s) - 1
    PROVE  /\ CutAt(s, k) = SubSeq(s, 1, k) \o SubSeq(s, k + 2, Len(s))
           /\ CutAt(s, k) \in Seq(S)
           /\ Without(CutAt(s, k), s, k)
<1> DEFINE front == SubSeq(s, 1, k)
           back == SubSeq(s, k + 2, Len(s))
<1>1. front \in Seq(S) /\ Len(front) = k /\ \A i \in 1 .. k : front[i] = s[i]
  BY SubSeqProperties
<1>2. back \in Seq(S) /\ Len(back) = Len(s) - k - 1
      /\ \A i \in 1 .. Len(s) - k - 1 : back[i] = s[k + 1 + i]
  <2>1. k + 2 \in 1 .. Len(s) + 1 /\ Len(s) \in Nat
    OBVIOUS
  <2>2. CASE k + 2 <= Len(s)
    <3>1. /\ back \in Seq(S) /\ Len(back) = Len(s) - (k + 2) + 1
          /\ \A i \in 1 .. Len(s) - (k + 2) + 1 : back[i] = s[(k + 2) + i - 1]
      BY <2>2, SubSeqProperties
    <3> QED BY <3>1
  <2>3. CASE k + 2 > Len(s)
    <3>1. k + 2 = Len(s) + 1
      BY <2>3
    <3>2. back = << >>
      BY <2>1, <3>1, SubSeqEmpty
    <3>3. back \in Seq(S) /\ Len(back) = 0
      <4> HIDE DEF back
      <4> QED BY <3>2
    <3> QED BY <3>1, <3>3
  <2> QED BY <2>1, <2>2, <2>3
<1>0. (IF k > Len(s) THEN Len(s) ELSE k) = k /\ k \in Nat
  OBVIOUS
<1>6. CutAt(s, k) = SubSeq(s, 1, k) \o SubSeq(s, k + 2, Len(s))
  BY <1>0, Zenon DEF CutAt
<1>3. CutAt(s, k) = front \o back
  BY <1>6
<1> HIDE DEF front, back
<1>4. /\ front \o back \in Seq(S)
      /\ Len(front \o back) = Len(s) - 1
      /\ \A i \in 1 .. Len(s) - 1 :
            (front \o back)[i] = IF i <= k THEN front[i] ELSE back[i - k]
  <2>1. /\ front \o back \in Seq(S)
        /\ Len(front \o back) = Len(front) + Len(back)
        /\ \A i \in 1 .. Len(front) + Len(back) :
              (front \o back)[i] = IF i <= Len(front) THEN front[i] ELSE back[i - Len(front)]
    BY <1>1, <1>2, ConcatProperties
  <2>2. Len(front) = k /\ Len(front) + Len(back) = Len(s) - 1
    BY <1>1, <1>2
  <2> QED BY <2>1, <2>2
<1>5. ASSUME NEW q \in 1 .. Len(s) - 1
      PROVE  CutAt(s, k)[q] = IF q <= k THEN s[q] ELSE s[q + 1]
  <2>1. CASE q <= k
    <3>1. q \in 1 .. k /\ CutAt(s, k)[q] = front[q]
      BY <1>3, <1>4, <2>1
    <3> QED BY <1>1, <2>1, <3>1
  <2>2. CASE q > k
    <3>1. q - k \in 1 .. Len(s) - k - 1 /\ k + 1 + (q - k) = q + 1
      BY <2>2
    <3>2. back[q - k] = s[q + 1]
      BY <1>2, <3>1
    <3>3. ~(q <= k) /\ CutAt(s, k)[q] = back[q - k]
      BY <1>3, <1>4, <2>2
    <3> QED BY <3>2, <3>3
  <2> QED BY <1>0, <2>1, <2>2
<1> QED BY <1>3, <1>4, <1>5, <1>6 DEF Without

-----------------------------------------------------------------------------
(***************************************************************************)
(* The text of a list.                                                     *)
(***************************************************************************)

\* Every visible node is in the text, at its position.
LEMMA TextAt ==
    ASSUME NEW C, NEW doc0 \in Seq(Node(C)), NEW i \in Visible(doc0)
    PROVE  /\ VisibleBefore(doc0, i) + 1 \in 1 .. DocLen(doc0)
           /\ DocString(doc0)[VisibleBefore(doc0, i) + 1] = doc0[i].Char
<1> DEFINE k == VisibleBefore(doc0, i)
           j == VisibleAt(doc0, k)
<1>1. k \in 0 .. DocLen(doc0) - 1 /\ DocLen(doc0) \in Nat /\ Visible(doc0) \subseteq 1 .. Len(doc0)
  BY VisibleBeforeType, VisibleFinite
<1>2. j \in Visible(doc0) /\ VisibleBefore(doc0, j) = k
  BY <1>1, VisibleAtPosition
<1>3. j = i
  <2> HIDE DEF j
  <2>1. ~(i < j)
    BY <1>1, <1>2, VisibleBeforeMonotonic
  <2>2. ~(j < i)
    BY <1>1, <1>2, VisibleBeforeMonotonic
  <2> QED BY <1>1, <1>2, <2>1, <2>2
<1> HIDE DEF k
<1>4. k + 1 \in 1 .. DocLen(doc0) /\ (k + 1) - 1 = k
  BY <1>1
<1>5. DocString(doc0)[k + 1] = doc0[VisibleAt(doc0, (k + 1) - 1)].Char
  BY <1>4 DEF DocString
<1> QED BY <1>3, <1>4, <1>5 DEF k

\* And that is all that is in the text.
LEMMA TextIs ==
    ASSUME NEW C, NEW doc0 \in Seq(Node(C)), NEW s \in Seq(C), Len(s) = DocLen(doc0),
           \A i \in Visible(doc0) : s[VisibleBefore(doc0, i) + 1] = doc0[i].Char
    PROVE  DocString(doc0) = s
<1>1. DocString(doc0) \in Seq(C) /\ Len(DocString(doc0)) = DocLen(doc0) /\ DocLen(doc0) \in Nat
  BY DocStringType, VisibleFinite
<1>2. ASSUME NEW q \in 1 .. DocLen(doc0) PROVE DocString(doc0)[q] = s[q]
  <2>1. /\ VisibleAt(doc0, q - 1) \in Visible(doc0)
        /\ VisibleBefore(doc0, VisibleAt(doc0, q - 1)) = q - 1
    BY <1>1, VisibleAtPosition
  <2>2. s[(q - 1) + 1] = doc0[VisibleAt(doc0, q - 1)].Char
    BY <2>1
  <2> QED BY <1>1, <2>2 DEF DocString
<1> QED BY <1>1, <1>2, SeqEqual

\* The places above p, moved up by one.
Shift(A, p) == {IF i <= p THEN i ELSE i + 1 : i \in A}

\* A set that makes room for one number keeps its size.
LEMMA ShiftCardinality ==
    ASSUME NEW A \in SUBSET Int, IsFiniteSet(A), NEW p \in Int
    PROVE  /\ IsFiniteSet(Shift(A, p)) /\ Cardinality(Shift(A, p)) = Cardinality(A)
           /\ p + 1 \notin Shift(A, p)
<1> DEFINE f == [i \in A |-> IF i <= p THEN i ELSE i + 1]
<1>1. f \in [A -> Shift(A, p)]
  BY DEF Shift
<1>2. ASSUME NEW i \in A, NEW j \in A, f[i] = f[j] PROVE i = j
  BY <1>2
<1>3. ASSUME NEW y \in Shift(A, p) PROVE \E i \in A : f[i] = y
  BY DEF Shift
<1>4. f \in Bijection(A, Shift(A, p))
  BY <1>1, <1>2, <1>3 DEF Bijection, Injection, IsInjective, Surjection
<1>5. IsFiniteSet(Shift(A, p)) /\ Cardinality(Shift(A, p)) = Cardinality(A)
  <2> HIDE DEF f
  <2> QED BY <1>4, FS_Bijection DEF ExistsBijection
<1>6. p + 1 \notin Shift(A, p)
  <2>1. ASSUME NEW i \in A PROVE p + 1 # IF i <= p THEN i ELSE i + 1
    <3>1. i \in Int
      OBVIOUS
    <3> QED BY <3>1
  <2> QED BY <2>1 DEF Shift
<1> QED BY <1>5, <1>6

\* One visible node behind place p: what is visible, and where.
LEMMA SplicedVisible ==
    ASSUME NEW C, NEW d \in Seq(Node(C)), NEW after \in Seq(Node(C)), NEW p \in 0 .. Len(d),
           NEW n \in Node(C), ~n.IsDeleted, Spliced(after, d, p, n)
    PROVE  /\ Visible(after) = Shift(Visible(d), p) \cup {p + 1}
           /\ DocLen(after) = DocLen(d) + 1
           /\ \A i \in Visible(d) :
                IF i <= p THEN VisibleBefore(after, i) = VisibleBefore(d, i)
                          ELSE VisibleBefore(after, i + 1) = VisibleBefore(d, i) + 1
<1>1. /\ Visible(d) \subseteq 1 .. Len(d) /\ IsFiniteSet(Visible(d)) /\ Len(d) \in Nat
      /\ Visible(after) \subseteq 1 .. Len(after) /\ DocLen(d) \in Nat
      /\ DOMAIN after = 1 .. Len(d) + 1 /\ DOMAIN d = 1 .. Len(d)
  BY VisibleFinite DEF Spliced
<1>2. ASSUME NEW j \in 1 .. Len(d) + 1
      PROVE  j \in Visible(after) <=> j \in Shift(Visible(d), p) \cup {p + 1}
  <2>1. CASE j <= p
    <3>1. after[j] = d[j] /\ j \in 1 .. Len(d)
      BY <2>1 DEF Spliced
    <3>2. j \in Shift(Visible(d), p) <=> j \in Visible(d)
      BY <1>1, <2>1 DEF Shift
    <3> QED BY <1>1, <2>1, <3>1, <3>2 DEF Visible
  <2>2. CASE j = p + 1
    BY <1>1, <2>2 DEF Spliced, Visible
  <2>3. CASE j > p + 1
    <3>1. after[j] = d[j - 1] /\ j - 1 \in 1 .. Len(d)
      BY <2>3 DEF Spliced
    <3>2. j \in Shift(Visible(d), p) <=> j - 1 \in Visible(d)
      <4>1. ASSUME NEW i \in Visible(d), j = IF i <= p THEN i ELSE i + 1 PROVE i = j - 1
        BY <1>1, <2>3, <4>1
      <4>2. ASSUME j - 1 \in Visible(d) PROVE j = IF j - 1 <= p THEN j - 1 ELSE (j - 1) + 1
        BY <2>3
      <4> QED BY <4>1, <4>2 DEF Shift
    <3> QED BY <1>1, <2>3, <3>1, <3>2 DEF Visible
  <2> QED BY <2>1, <2>2, <2>3
<1>3. Visible(after) = Shift(Visible(d), p) \cup {p + 1}
  <2>1. Shift(Visible(d), p) \cup {p + 1} \subseteq 1 .. Len(d) + 1
    BY <1>1 DEF Shift
  <2>2. Visible(after) \subseteq 1 .. Len(d) + 1
    BY <1>1 DEF Visible
  <2> QED BY <1>2, <2>1, <2>2
<1>4. Visible(d) \in SUBSET Int /\ p \in Int
  BY <1>1
<1>5. DocLen(after) = DocLen(d) + 1
  <2>1. /\ IsFiniteSet(Shift(Visible(d), p)) /\ Cardinality(Shift(Visible(d), p)) = DocLen(d)
        /\ p + 1 \notin Shift(Visible(d), p)
    BY <1>1, <1>4, ShiftCardinality DEF DocLen
  <2> QED BY <1>3, <2>1, FS_AddElement DEF DocLen
<1>6. ASSUME NEW i \in Visible(d), i <= p PROVE VisibleBefore(after, i) = VisibleBefore(d, i)
  <2>1. {j \in Visible(after) : j < i} = {j \in Visible(d) : j < i}
    BY <1>1, <1>3, <1>6 DEF Shift
  <2> QED BY <2>1 DEF VisibleBefore
<1>7. ASSUME NEW i \in Visible(d), ~(i <= p)
      PROVE  VisibleBefore(after, i + 1) = VisibleBefore(d, i) + 1
  <2> DEFINE B == {j \in Visible(d) : j < i}
  <2>1. B \in SUBSET Int /\ IsFiniteSet(B)
    BY <1>1, FS_Subset
  <2>2. {j \in Visible(after) : j < i + 1} = Shift(B, p) \cup {p + 1}
    BY <1>1, <1>3, <1>7 DEF Shift
  <2> HIDE DEF B
  <2>3. /\ IsFiniteSet(Shift(B, p)) /\ Cardinality(Shift(B, p)) = Cardinality(B)
        /\ p + 1 \notin Shift(B, p)
    BY <1>4, <2>1, ShiftCardinality
  <2>4. Cardinality(Shift(B, p) \cup {p + 1}) = Cardinality(B) + 1
    BY <2>3, FS_AddElement
  <2> QED BY <2>2, <2>4 DEF VisibleBefore, B
<1> QED BY <1>3, <1>5, <1>6, <1>7

\* The text has one character more, at the position the node is given in it.
LEMMA SplicedText ==
    ASSUME NEW C, NEW d \in Seq(Node(C)), NEW after \in Seq(Node(C)), NEW p \in 0 .. Len(d),
           NEW n \in Node(C), ~n.IsDeleted, Spliced(after, d, p, n)
    PROVE  /\ VisibleBefore(after, p + 1) \in 0 .. Len(DocString(d))
           /\ DocString(after) = PutAt(DocString(d), VisibleBefore(after, p + 1), n.Char)
<1> DEFINE k == VisibleBefore(after, p + 1)
           text == DocString(d)
<1>1. /\ text \in Seq(C) /\ Len(text) = DocLen(d) /\ DocLen(d) \in Nat
      /\ Visible(d) \subseteq 1 .. Len(d) /\ Len(d) \in Nat /\ n.Char \in C
      /\ after[p + 1] = n
  <2>1. p + 1 \in 1 .. Len(d) + 1 /\ ~(p + 1 <= p)
    OBVIOUS
  <2>2. after[p + 1] = n
    BY <2>1 DEF Spliced
  <2>3. n.Char \in C
    BY DEF Node
  <2> QED BY <2>2, <2>3, DocStringType, VisibleFinite
<1>2. /\ Visible(after) = Shift(Visible(d), p) \cup {p + 1}
      /\ DocLen(after) = DocLen(d) + 1
      /\ \A i \in Visible(d) :
            IF i <= p THEN VisibleBefore(after, i) = VisibleBefore(d, i)
                      ELSE VisibleBefore(after, i + 1) = VisibleBefore(d, i) + 1
  BY SplicedVisible
<1>3. k \in 0 .. Len(text)
  <2>1. p + 1 \in Visible(after)
    BY <1>2
  <2>2. k \in 0 .. DocLen(after) - 1
    BY <2>1, VisibleBeforeType
  <2> QED BY <1>1, <1>2, <2>2
<1> HIDE DEF text
<1> DEFINE new == PutAt(text, k, n.Char)
<1>4. /\ new \in Seq(C) /\ Len(new) = Len(text) + 1
      /\ \A q \in 1 .. Len(text) + 1 :
            new[q] = IF q <= k THEN text[q] ELSE IF q = k + 1 THEN n.Char ELSE text[q - 1]
  <2>1. text \in Seq(C) /\ n.Char \in C /\ k \in 0 .. Len(text)
    BY <1>1, <1>3
  <2>2. new \in Seq(C) /\ Spliced(new, text, k, n.Char)
    <3> HIDE DEF k
    <3> QED BY <2>1, PutProperties
  <2> QED BY <1>1, <2>2 DEF Spliced
<1> HIDE DEF new
<1>5. ASSUME NEW j \in Visible(after) PROVE new[VisibleBefore(after, j) + 1] = after[j].Char
  <2>1. CASE j = p + 1
    <3>1. new[k + 1] = n.Char
      <4> HIDE DEF k
      <4> QED BY <1>1, <1>3, <1>4
    <3> QED BY <1>1, <2>1, <3>1
  <2>2. CASE j # p + 1
    <3>1. PICK i \in Visible(d) : j = IF i <= p THEN i ELSE i + 1
      BY <1>2, <2>2 DEF Shift
    <3> DEFINE b == VisibleBefore(d, i)
    <3>2. b + 1 \in 1 .. Len(text) /\ text[b + 1] = d[i].Char /\ b \in Int /\ i \in 1 .. Len(d)
      <4>1. b \in 0 .. DocLen(d) - 1
        BY VisibleBeforeType
      <4> QED BY <1>1, <4>1, TextAt DEF text
    <3>3. CASE i <= p
      <4>1. j = i /\ VisibleBefore(after, j) = b /\ after[j] = d[i]
        BY <1>2, <3>1, <3>2, <3>3 DEF Spliced
      <4>2. b < k
        <5>1. j < p + 1 /\ p + 1 \in Visible(after)
          BY <1>2, <3>2, <3>3, <4>1
        <5> QED BY <4>1, <5>1, VisibleBeforeMonotonic
      <4> HIDE DEF b, k
      <4>3. new[b + 1] = text[b + 1]
        BY <1>1, <1>3, <1>4, <3>2, <4>2
      <4> QED BY <3>2, <4>1, <4>3
    <3>4. CASE ~(i <= p)
      <4>1. j = i + 1 /\ VisibleBefore(after, j) = b + 1 /\ after[j] = d[i]
        BY <1>2, <3>1, <3>2, <3>4 DEF Spliced
      <4>2. k < b + 1
        <5>1. p + 1 < j /\ p + 1 \in Visible(after)
          BY <1>2, <3>2, <3>4, <4>1
        <5> QED BY <4>1, <5>1, VisibleBeforeMonotonic
      <4> HIDE DEF b, k
      <4>3. (b + 1) + 1 \in 1 .. Len(text) + 1 /\ ((b + 1) + 1) - 1 = b + 1
            /\ ~((b + 1) + 1 <= k) /\ (b + 1) + 1 # k + 1
        BY <1>1, <1>3, <3>2, <4>2
      <4>4. new[(b + 1) + 1] = text[b + 1]
        BY <1>4, <4>3
      <4> QED BY <3>2, <4>1, <4>4
    <3> QED BY <3>3, <3>4
  <2> QED BY <2>1, <2>2
<1>6. DocString(after) = new
  BY SMTT(30), <1>1, <1>2, <1>4, <1>5, TextIs
<1> QED BY <1>3, <1>6 DEF new, text

\* A visible node that is marked as deleted: what stays visible, and where.
LEMMA DeletedVisible ==
    ASSUME NEW C, NEW d \in Seq(Node(C)), NEW t \in Visible(d), NEW id, d[t].ID = id,
           \A i, j \in DOMAIN d : d[i].ID = d[j].ID => i = j
    PROVE  /\ Visible(Delete(d, id)) = Visible(d) \ {t}
           /\ DocLen(Delete(d, id)) = DocLen(d) - 1
           /\ \A i \in Visible(d) \ {t} :
                VisibleBefore(Delete(d, id), i) =
                    IF i < t THEN VisibleBefore(d, i) ELSE VisibleBefore(d, i) - 1
<1>1. /\ Visible(d) \subseteq 1 .. Len(d) /\ IsFiniteSet(Visible(d)) /\ Len(d) \in Nat
      /\ DOMAIN d = 1 .. Len(d) /\ DOMAIN Delete(d, id) = 1 .. Len(d)
  BY VisibleFinite DEF Delete
<1>2. ASSUME NEW i \in 1 .. Len(d)
      PROVE  Delete(d, id)[i].IsDeleted <=> d[i].IsDeleted \/ i = t
  <2>1. Delete(d, id)[i] = IF d[i].ID = id THEN [d[i] EXCEPT !.IsDeleted = TRUE] ELSE d[i]
    BY <1>1 DEF Delete
  <2>2. d[i].ID = id <=> i = t
    BY <1>1
  <2>3. d[i] \in Node(C)
    OBVIOUS
  <2> QED BY <2>1, <2>2, <2>3 DEF Node
<1>3. Visible(Delete(d, id)) = Visible(d) \ {t}
  BY <1>1, <1>2 DEF Visible
<1>4. DocLen(Delete(d, id)) = DocLen(d) - 1
  BY <1>1, <1>3, FS_RemoveElement DEF DocLen
<1>5. ASSUME NEW i \in Visible(d) \ {t}
      PROVE  VisibleBefore(Delete(d, id), i) =
                 IF i < t THEN VisibleBefore(d, i) ELSE VisibleBefore(d, i) - 1
  <2> DEFINE B == {j \in Visible(d) : j < i}
  <2>1. B \subseteq Visible(d) /\ i \in Int /\ t \in Int
    BY <1>1
  <2>2. {j \in Visible(Delete(d, id)) : j < i} = B \ {t}
    BY <1>3
  <2>3. t \in B <=> ~(i < t)
    BY <2>1
  <2> HIDE DEF B
  <2>4. IsFiniteSet(B)
    BY <1>1, <2>1, FS_Subset
  <2>5. Cardinality(B \ {t}) = IF t \in B THEN Cardinality(B) - 1 ELSE Cardinality(B)
    BY <2>4, FS_RemoveElement
  <2> QED BY <2>2, <2>3, <2>5 DEF VisibleBefore, B
<1> QED BY <1>3, <1>4, <1>5

\* The text has one character less, the one at the position of the node.
LEMMA DeletedText ==
    ASSUME NEW C, NEW d \in Seq(Node(C)), NEW t \in Visible(d), NEW id, d[t].ID = id,
           \A i, j \in DOMAIN d : d[i].ID = d[j].ID => i = j
    PROVE  /\ VisibleBefore(d, t) \in 0 .. Len(DocString(d)) - 1
           /\ DocString(Delete(d, id)) = CutAt(DocString(d), VisibleBefore(d, t))
<1> DEFINE k == VisibleBefore(d, t)
           text == DocString(d)
           after == Delete(d, id)
           new == CutAt(text, k)
<1>1. /\ text \in Seq(C) /\ Len(text) = DocLen(d) /\ DocLen(d) \in Nat
      /\ Visible(d) \subseteq 1 .. Len(d) /\ Len(d) \in Nat
  BY DocStringType, VisibleFinite
<1>2. k \in 0 .. Len(text) - 1
  BY <1>1, VisibleBeforeType
<1>3. /\ Visible(after) = Visible(d) \ {t} /\ DocLen(after) = DocLen(d) - 1
      /\ \A i \in Visible(d) \ {t} :
            VisibleBefore(after, i) = IF i < t THEN VisibleBefore(d, i) ELSE VisibleBefore(d, i) - 1
  BY DeletedVisible
<1>4. new \in Seq(C) /\ Without(new, text, k)
  <2> HIDE DEF k, text
  <2> QED BY <1>1, <1>2, CutProperties
<1>5. after \in Seq(Node(C)) /\ \A i \in 1 .. Len(d) : after[i].Char = d[i].Char
  BY DeleteProperties
<1> HIDE DEF new, text, after
<1>6. ASSUME NEW i \in Visible(after) PROVE new[VisibleBefore(after, i) + 1] = after[i].Char
  <2> DEFINE b == VisibleBefore(d, i)
  <2>1. i \in Visible(d) /\ i # t /\ i \in 1 .. Len(d) /\ t \in 1 .. Len(d)
    BY <1>1, <1>3
  <2>2. b \in 0 .. Len(text) - 1 /\ text[b + 1] = d[i].Char /\ after[i].Char = d[i].Char
    BY <1>1, <1>5, <2>1, VisibleBeforeType, TextAt DEF text
  <2>3. CASE i < t
    <3>1. b < k /\ VisibleBefore(after, i) = b
      BY <1>3, <2>1, <2>3, VisibleBeforeMonotonic
    <3> HIDE DEF b, k
    <3>2. new[b + 1] = text[b + 1]
      BY <1>1, <1>2, <1>4, <2>2, <3>1 DEF Without
    <3> QED BY <2>2, <3>1, <3>2
  <2>4. CASE ~(i < t)
    <3>1. k < b /\ VisibleBefore(after, i) = b - 1
      BY <1>3, <2>1, <2>4, VisibleBeforeMonotonic
    <3> HIDE DEF b, k
    <3>2. b \in 1 .. Len(text) - 1 /\ ~(b <= k) /\ (b - 1) + 1 = b
      BY <1>1, <1>2, <2>2, <3>1
    <3>3. new[b] = text[b + 1]
      BY <1>4, <3>2 DEF Without
    <3> QED BY <2>2, <3>1, <3>2, <3>3
  <2> QED BY <2>3, <2>4
<1>7. DocString(after) = new
  <2>1. Len(new) = DocLen(after)
    BY <1>1, <1>3, <1>4 DEF Without
  <2> QED BY <1>4, <1>5, <1>6, <2>1, TextIs
<1> QED BY <1>2, <1>7 DEF new, text, after

-----------------------------------------------------------------------------
(***************************************************************************)
(* Operations of a room.                                                   *)
(***************************************************************************)

\* The identifiers of the characters after op.
Renamed(ids, op) ==
    IF op.type = "insert" THEN PutAt(ids, op.position, op.newID) ELSE CutAt(ids, op.position)

\* op is one edit of the room's text, at a position that the text has, and the same
\* edit of the identifiers of its characters.
Fits(op) ==
    /\ op.type = "insert" => op.Char \in Chars /\ op.position \in 0 .. Len(DocString(doc))
    /\ op.type = "delete" => op.position \in 0 .. Len(DocString(doc)) - 1
    /\ DocString(doc') = Shown(DocString(doc), op)
    /\ op.type = "insert" => op.newID \in OpID /\ op.newID.clock > 0
    /\ GetVisibleNodeIDs(doc') = Renamed(GetVisibleNodeIDs(doc), op)

\* The list whose characters are the identifiers: its text is what they spell.
Names(d) == [i \in DOMAIN d |-> [ID |-> d[i].ID, Char |-> d[i].ID, IsDeleted |-> d[i].IsDeleted]]

\* It is as long, its visible characters are at the same places, and its text is what
\* GetVisibleNodeIDs returns.
LEMMA NamesText ==
    ASSUME NEW C, NEW d \in Seq(Node(C))
    PROVE  /\ Names(d) \in Seq(Node(OpID)) /\ Len(Names(d)) = Len(d)
           /\ Visible(Names(d)) = Visible(d)
           /\ \A i : VisibleBefore(Names(d), i) = VisibleBefore(d, i)
           /\ DocLen(Names(d)) = DocLen(d)
           /\ DocString(Names(d)) = GetVisibleNodeIDs(d)
<1>1. DOMAIN d = 1 .. Len(d) /\ Len(d) \in Nat
  OBVIOUS
<1>2. ASSUME NEW i \in 1 .. Len(d) PROVE d[i].ID \in OpID /\ d[i].IsDeleted \in BOOLEAN
  <2>1. d[i] \in Node(C)
    OBVIOUS
  <2> QED BY <2>1 DEF Node
<1>3. \A i \in 1 .. Len(d) :
        [ID |-> d[i].ID, Char |-> d[i].ID, IsDeleted |-> d[i].IsDeleted] \in Node(OpID)
  BY <1>2 DEF Node
<1>4. Names(d) \in Seq(Node(OpID)) /\ Len(Names(d)) = Len(d) /\ DOMAIN Names(d) = DOMAIN d
  BY <1>1, <1>3 DEF Names
<1>5. \A i \in DOMAIN d : Names(d)[i].Char = d[i].ID /\ Names(d)[i].IsDeleted = d[i].IsDeleted
  BY DEF Names
<1>6. Visible(Names(d)) = Visible(d)
  BY <1>4, <1>5 DEF Visible
<1>7. DocLen(Names(d)) = DocLen(d) /\ \A i : VisibleBefore(Names(d), i) = VisibleBefore(d, i)
  BY <1>6 DEF DocLen, VisibleBefore
<1>8. \A p \in 1 .. DocLen(d) : VisibleAt(Names(d), p - 1) = VisibleAt(d, p - 1)
  BY <1>6, <1>7 DEF VisibleAt
<1>9. ASSUME NEW p \in 1 .. DocLen(d)
      PROVE  Names(d)[VisibleAt(Names(d), p - 1)].Char = d[VisibleAt(d, p - 1)].ID
  <2>1. DocLen(d) \in Nat
    BY VisibleFinite
  <2>2. VisibleAt(d, p - 1) \in Visible(d)
    BY <2>1, VisibleAtPosition
  <2> QED
    BY <1>5, <1>8, <2>2 DEF Visible
<1>10. DocString(Names(d)) = GetVisibleNodeIDs(d)
  BY <1>7, <1>9 DEF DocString, GetVisibleNodeIDs
<1> QED BY <1>4, <1>6, <1>7, <1>10

\* One visible node more: one identifier more, at its position.
LEMMA SplicedNames ==
    ASSUME NEW C, NEW d \in Seq(Node(C)), NEW after \in Seq(Node(C)), NEW p \in 0 .. Len(d),
           NEW n \in Node(C), ~n.IsDeleted, Spliced(after, d, p, n)
    PROVE  GetVisibleNodeIDs(after) = PutAt(GetVisibleNodeIDs(d), VisibleBefore(after, p + 1), n.ID)
<1> DEFINE m == [ID |-> n.ID, Char |-> n.ID, IsDeleted |-> n.IsDeleted]
           e == Names(d)
           f == Names(after)
<1>1. /\ e \in Seq(Node(OpID)) /\ f \in Seq(Node(OpID)) /\ Len(e) = Len(d)
      /\ DocString(e) = GetVisibleNodeIDs(d) /\ DocString(f) = GetVisibleNodeIDs(after)
      /\ VisibleBefore(f, p + 1) = VisibleBefore(after, p + 1)
  BY NamesText
<1>2. m \in Node(OpID) /\ ~m.IsDeleted /\ m.Char = n.ID
  BY DEF Node
<1>3. Spliced(f, e, p, m)
  <2>1. Len(after) = Len(d) + 1 /\ Len(f) = Len(after) /\ Len(d) \in Nat
        /\ DOMAIN after = 1 .. Len(after) /\ DOMAIN d = 1 .. Len(d)
    BY NamesText DEF Spliced
  <2>2. ASSUME NEW i \in 1 .. Len(d) + 1
        PROVE  f[i] = IF i <= p THEN e[i] ELSE IF i = p + 1 THEN m ELSE e[i - 1]
    <3>1. after[i] = IF i <= p THEN d[i] ELSE IF i = p + 1 THEN n ELSE d[i - 1]
      BY DEF Spliced
    <3>2. f[i] = [ID |-> after[i].ID, Char |-> after[i].ID, IsDeleted |-> after[i].IsDeleted]
      BY <2>1 DEF Names
    <3>3. CASE i <= p
      BY <2>1, <3>1, <3>2, <3>3 DEF Names
    <3>4. CASE i = p + 1
      BY <2>1, <3>1, <3>2, <3>4
    <3>5. CASE ~(i <= p) /\ i # p + 1
      <4>1. i - 1 \in DOMAIN d
        BY <2>1, <3>5
      <4> QED BY <3>1, <3>2, <3>5, <4>1 DEF Names
    <3> QED BY <3>3, <3>4, <3>5
  <2> HIDE DEF e, f, m
  <2> QED BY <1>1, <2>1, <2>2 DEF Spliced
<1> HIDE DEF e, f, m
<1>4. DocString(f) = PutAt(DocString(e), VisibleBefore(f, p + 1), m.Char)
  BY <1>1, <1>2, <1>3, SplicedText
<1> QED BY <1>1, <1>2, <1>4

\* One node deleted: one identifier less.
LEMMA DeletedNames ==
    ASSUME NEW C, NEW d \in Seq(Node(C)), NEW t \in Visible(d), NEW id, d[t].ID = id,
           \A i, j \in DOMAIN d : d[i].ID = d[j].ID => i = j
    PROVE  GetVisibleNodeIDs(Delete(d, id)) = CutAt(GetVisibleNodeIDs(d), VisibleBefore(d, t))
<1> DEFINE e == Names(d)
<1>1. /\ e \in Seq(Node(OpID)) /\ Visible(e) = Visible(d)
      /\ DocString(e) = GetVisibleNodeIDs(d) /\ VisibleBefore(e, t) = VisibleBefore(d, t)
  BY NamesText
<1>2. Delete(d, id) \in Seq(Node(C))
  BY DeleteProperties
<1>3. DOMAIN e = DOMAIN d /\ \A i \in DOMAIN d : e[i].ID = d[i].ID
  BY DEF Names
<1>4. Names(Delete(d, id)) = Delete(e, id)
  <2>1. ASSUME NEW i \in DOMAIN d
        PROVE  [ID |-> Delete(d, id)[i].ID, Char |-> Delete(d, id)[i].ID,
                IsDeleted |-> Delete(d, id)[i].IsDeleted] = Delete(e, id)[i]
    <3> DEFINE x == Delete(d, id)[i]
               y == Delete(e, id)[i]
    <3>1. x \in Node(C) /\ y \in Node(OpID)
      <4>1. Delete(e, id) \in Seq(Node(OpID)) /\ DOMAIN Delete(e, id) = DOMAIN d
        <5>1. DOMAIN Delete(e, id) = DOMAIN e
          BY DEF Delete
        <5> HIDE DEF e
        <5> QED BY <1>1, <1>3, <5>1, DeleteProperties
      <4>2. DOMAIN Delete(d, id) = DOMAIN d
        BY DEF Delete
      <4> QED BY <1>2, <4>1, <4>2
    <3>2. x.ID = d[i].ID /\ y.ID = d[i].ID /\ y.Char = d[i].ID
      <4>1. i \in 1 .. Len(d) /\ i \in 1 .. Len(e) /\ e[i].Char = d[i].ID
        BY <1>3 DEF Names
      <4> HIDE DEF e
      <4> QED BY <1>1, <1>3, <4>1, DeleteProperties
    <3>3. x.IsDeleted = y.IsDeleted
      <4>1. /\ x = IF d[i].ID = id THEN [d[i] EXCEPT !.IsDeleted = TRUE] ELSE d[i]
            /\ y = IF e[i].ID = id THEN [e[i] EXCEPT !.IsDeleted = TRUE] ELSE e[i]
            /\ e[i].IsDeleted = d[i].IsDeleted
        BY DEF Delete, Names
      <4>2. d[i] \in Node(C) /\ e[i] \in Node(OpID) /\ e[i].ID = d[i].ID
        BY <1>1, <1>3
      <4> HIDE DEF e, x, y
      <4> QED BY <4>1, <4>2 DEF Node
    <3> HIDE DEF x, y
    <3>4. [ID |-> x.ID, Char |-> x.ID, IsDeleted |-> x.IsDeleted] = y
      BY <3>1, <3>2, <3>3 DEF Node
    <3> QED BY <3>4 DEF x, y
  <2>2. DOMAIN Delete(d, id) = DOMAIN d /\ DOMAIN Delete(e, id) = DOMAIN d
    BY DEF Delete, Names
  <2>3. Names(Delete(d, id)) = [i \in DOMAIN d |-> Delete(e, id)[i]]
    BY <2>1, <2>2 DEF Names
  <2>4. Delete(e, id) = [i \in DOMAIN d |-> Delete(e, id)[i]]
    BY <2>2 DEF Delete
  <2> QED BY <2>3, <2>4
<1>5. DocString(Names(Delete(d, id))) = GetVisibleNodeIDs(Delete(d, id))
  BY <1>2, NamesText
<1> HIDE DEF e
<1>6. DocString(Delete(e, id)) = CutAt(DocString(e), VisibleBefore(e, t))
  <2>1. t \in Visible(e) /\ e[t].ID = id /\ \A i, j \in DOMAIN e : e[i].ID = e[j].ID => i = j
    BY <1>1, <1>3 DEF Visible
  <2> QED BY <1>1, <2>1, DeletedText
<1> QED BY <1>1, <1>4, <1>5, <1>6

\* op is what became of request r of client c.
Echoes(op, c, r) ==
    /\ op.type = r.type /\ op.userID = user[c]
    /\ r.type = "insert" => op.Char = r.Char /\ op.clientOpID = r.clientOpID

\* A node that is alone with its identifier has the position of its place.
LEMMA PositionOfPlace ==
    ASSUME NEW d, NEW t \in Visible(d), NEW id, d[t].ID = id,
           \A i \in DOMAIN d : d[i].ID = id => i = t
    PROVE  GetVisiblePosOfNode(d, id) = VisibleBefore(d, t)
<1>1. \A i \in Visible(d) : d[i].ID = id => i = t
  BY DEF Visible
<1>2. (CHOOSE i \in Visible(d) : d[i].ID = id) = t
  BY <1>1
<1> QED BY <1>2 DEF GetVisiblePosOfNode

\* An insert publishes the operation that does to the text what it did to the nodes.
LEMMA InsertShows ==
    ASSUME TypeOK, FreshIDs, NEW c \in Clients, NEW r \in InsertRequest, ApplyInsert(c, r)
    PROVE  \E op \in Op : op.seq = seqNum + 1 /\ Publish(op) /\ Fits(op) /\ Echoes(op, c, r)
<1> DEFINE newID == [clock |-> clock + 1, site |-> user[c]]
           n == [ID |-> newID, Char |-> r.Char, IsDeleted |-> FALSE]
           p == IndexOf(doc, ResolvedAnchor(r))
           op == [type |-> "insert", seq |-> NextSeq, userID |-> user[c],
                  position |-> EchoPosition(r, newID), Char |-> r.Char,
                  newID |-> newID, clientOpID |-> r.clientOpID]
<1>1. /\ clock \in Nat /\ user[c] \in Nat /\ doc \in Seq(Node(Chars)) /\ seqNum \in Nat
      /\ r.Char \in Chars /\ r \in Request /\ r.clientOpID \in Nat
  BY DEF TypeOK, InsertRequest, Request
<1>2. newID \in OpID /\ newID.clock = clock + 1 /\ n \in Node(Chars) /\ n.ID.clock = clock + 1
  BY <1>1 DEF OpID, Node
<1>3. \A i \in DOMAIN doc : doc[i].ID.clock < newID.clock
  BY <1>1 DEF FreshIDs
<1>4. clock' = clock + 1 /\ doc' = Insert(doc, r.Char, ResolvedAnchor(r), newID) /\ Publish(op)
  BY DEF ApplyInsert
<1>5. Known(doc, ResolvedAnchor(r))
  BY <1>1, ResolvedKnown
<1>6. doc' \in Seq(Node(Chars)) /\ p \in 0 .. Len(doc) /\ Spliced(doc', doc, p, n)
  <2> HIDE DEF newID
  <2> QED BY <1>1, <1>2, <1>3, <1>4, <1>5, InsertProperties
<1>7. Fresh(doc', clock + 1)
  <2> HIDE DEF n, p
  <2> QED BY <1>1, <1>2, <1>6, SplicedFresh, FreshIDsIsFresh
<1> HIDE DEF p
<1>8. p + 1 \in Visible(doc') /\ doc'[p + 1].ID = newID
      /\ \A i \in DOMAIN doc' : doc'[i].ID = newID => i = p + 1
  <2>1. p + 1 \in 1 .. Len(doc) + 1 /\ ~(p + 1 <= p)
    BY <1>6
  <2>2. p + 1 \in DOMAIN doc' /\ doc'[p + 1] = n
    <3> HIDE DEF n
    <3>1. /\ Len(doc) \in Nat /\ Len(doc') = Len(doc) + 1 /\ DOMAIN doc' = 1 .. Len(doc')
          /\ \A i \in 1 .. Len(doc) + 1 : i = p + 1 => doc'[i] = n
      BY <1>1, <1>6 DEF Spliced
    <3> QED BY <2>1, <3>1
  <2>3. \A i \in DOMAIN doc' : doc'[i].ID = newID => doc'[i].ID.clock = doc'[p + 1].ID.clock
    BY <2>2
  <2> QED BY <1>7, <2>2, <2>3 DEF Fresh, Visible
<1>9. op.position = VisibleBefore(doc', p + 1)
  <2> HIDE DEF newID
  <2> QED BY <1>8, PositionOfPlace DEF EchoPosition
<1>10. /\ VisibleBefore(doc', p + 1) \in 0 .. Len(DocString(doc))
       /\ DocString(doc') = PutAt(DocString(doc), VisibleBefore(doc', p + 1), r.Char)
  <2>1. ~n.IsDeleted /\ n.Char = r.Char
    OBVIOUS
  <2> HIDE DEF n
  <2> QED BY <1>1, <1>2, <1>6, <2>1, SplicedText
<1>10a. GetVisibleNodeIDs(doc') = Renamed(GetVisibleNodeIDs(doc), op)
  <2>1. ~n.IsDeleted /\ n.ID = newID
    OBVIOUS
  <2>2. GetVisibleNodeIDs(doc') = PutAt(GetVisibleNodeIDs(doc), VisibleBefore(doc', p + 1), newID)
    <3> HIDE DEF n, newID
    <3> QED BY <1>1, <1>2, <1>6, <2>1, SplicedNames
  <2> QED BY <1>9, <2>2 DEF Renamed
<1>11. Fits(op)
  BY <1>1, <1>2, <1>9, <1>10, <1>10a DEF Fits, Shown
<1>12. op \in Op /\ op.seq = seqNum + 1
  <2>1. VisibleBefore(doc', p + 1) \in Nat
    BY <1>1, <1>10, DocStringType
  <2> QED BY <1>1, <1>2, <1>9, <2>1 DEF Op, InsertOp, NextSeq
<1>13. Echoes(op, c, r)
  BY DEF Echoes, InsertRequest
<1> HIDE DEF op
<1> QED BY <1>4, <1>11, <1>12, <1>13

\* So does a delete.
LEMMA DeleteShows ==
    ASSUME TypeOK, FreshIDs, NEW c \in Clients, NEW r \in DeleteRequest,
           Accepted(r), ApplyDelete(c, r)
    PROVE  \E op \in Op : op.seq = seqNum + 1 /\ Publish(op) /\ Fits(op) /\ Echoes(op, c, r)
<1> DEFINE id == ResolvedTarget(r)
           op == [type |-> "delete", seq |-> NextSeq, userID |-> user[c],
                  position |-> GetVisiblePosOfNode(doc, id), targetID |-> id]
<1>1. /\ clock \in Nat /\ user[c] \in Nat /\ doc \in Seq(Node(Chars)) /\ seqNum \in Nat
      /\ r.type = "delete" /\ r \in Request
  BY DEF TypeOK, DeleteRequest, Request
<1>2. doc' = Delete(doc, id) /\ Publish(op)
  BY DEF ApplyDelete
<1>3. id \in OpID
  BY <1>1, ResolvedKnown, KnownIsOpID
<1> HIDE DEF id
<1>4. PICK t \in Visible(doc) : doc[t].ID = id
  <2>1. GetVisiblePosOfNode(doc, id) >= 0
    BY <1>1 DEF Accepted, id
  <2> QED BY <2>1 DEF GetVisiblePosOfNode
<1>5. \A i, j \in DOMAIN doc : doc[i].ID = doc[j].ID => i = j
  BY DEF FreshIDs
<1>6. op.position = VisibleBefore(doc, t)
  <2>1. \A i \in DOMAIN doc : doc[i].ID = id => i = t
    BY <1>4, <1>5 DEF Visible
  <2> QED BY <1>4, <2>1, PositionOfPlace
<1>7. /\ VisibleBefore(doc, t) \in 0 .. Len(DocString(doc)) - 1
      /\ DocString(doc') = CutAt(DocString(doc), VisibleBefore(doc, t))
  BY <1>1, <1>2, <1>4, <1>5, DeletedText
<1>7a. GetVisibleNodeIDs(doc') = Renamed(GetVisibleNodeIDs(doc), op)
  BY <1>1, <1>2, <1>4, <1>5, <1>6, DeletedNames DEF Renamed
<1>8. Fits(op)
  BY <1>6, <1>7, <1>7a DEF Fits, Shown
<1>9. op \in Op /\ op.seq = seqNum + 1
  <2>1. VisibleBefore(doc, t) \in Nat
    BY <1>1, <1>7, DocStringType
  <2> QED BY <1>1, <1>3, <1>6, <2>1 DEF Op, DeleteOp, NextSeq
<1>10. Echoes(op, c, r)
  BY <1>1 DEF Echoes
<1> HIDE DEF op
<1> QED BY <1>2, <1>8, <1>9, <1>10

\* So does every request that is applied.
LEMMA ApplyOpShows ==
    ASSUME TypeOK, FreshIDs, NEW c \in Clients, NEW r \in Request, applyOp(c, r)
    PROVE  \E op \in Op : op.seq = seqNum + 1 /\ Publish(op) /\ Fits(op) /\ Echoes(op, c, r)
<1>1. CASE r.type = "insert" /\ ApplyInsert(c, r)
  <2>1. r \in InsertRequest
    BY <1>1 DEF Request, DeleteRequest
  <2> QED BY <1>1, <2>1, InsertShows
<1>2. CASE r.type = "delete" /\ Accepted(r) /\ ApplyDelete(c, r)
  <2>1. r \in DeleteRequest
    BY <1>2 DEF Request, InsertRequest
  <2> QED BY <1>2, <2>1, DeleteShows
<1> QED BY <1>1, <1>2 DEF applyOp

-----------------------------------------------------------------------------
(***************************************************************************)
(* What a step does to the text of the document.                           *)
(***************************************************************************)

\* The steps of the room, as its text sees them.
Shows ==
    /\ live /\ live'
    /\ \E op \in Op : op.seq = seqNum + 1 /\ Publish(op) /\ Fits(op)

Removes == ~live' /\ UNCHANGED db

\* There are no others.
LEMMA TextSteps ==
    ASSUME RoomInv, NEW contents \in SUBSET Seq(Chars), RoomStep(contents)
    PROVE  Shows \/ Opens \/ Removes \/ Stays(contents)
<1> USE DEF Stays
<1>0. TypeOK /\ FreshIDs /\ Occupied
  BY DEF RoomInv
<1>1. ASSUME NEW c \in Clients, NEW r \in Request, HandleOp(c, r) PROVE Shows
  <2>1. live /\ UNCHANGED live
    BY <1>0, <1>1 DEF HandleOp, Free, Occupied
  <2> QED BY <1>0, <1>1, <2>1, ApplyOpShows DEF HandleOp, Shows
<1>2. ASSUME BatchStep PROVE Shows \/ Stays(contents)
  <2>1. CASE applyOp(task.who, Head(task.todo))
    <3>1. task # NoTask /\ UNCHANGED live
      BY <1>2 DEF BatchStep, Unlocked
    <3>2. task.who \in Clients /\ Head(task.todo) \in Request /\ live
      BY <1>0, <3>1, TaskTypes
    <3> QED BY <1>0, <2>1, <3>1, <3>2, ApplyOpShows DEF Shows
  <2>2. CASE UNCHANGED <<doc, clock, seqNum, opLog, send, db>>
    BY <1>2, <2>2 DEF BatchStep
  <2> QED BY <1>2, <2>1, <2>2 DEF BatchStep
<1>3. ASSUME NEW c \in Clients, Leave(c) PROVE Removes \/ Stays(contents)
  BY <1>3 DEF Leave, Removes, NoRoom, roomVars
<1>4. ASSUME Crash PROVE Removes
  BY <1>4 DEF Crash, Removes, NoRoom
<1>5. ASSUME NEW c \in Clients, NEW since, NEW offlineEdits, Join(c, since, offlineEdits)
      PROVE  Opens
  BY <1>5 DEF Join, Opens
<1>6. ASSUME NEW c \in Clients,
             \/ Chat(c) \/ Pump(c)
             \/ \E ops \in Seq(Request) : StartBatch(c, ops)
             \/ \E content \in contents : HandleRestore(c, content)
      PROVE  Stays(contents)
  BY <1>6 DEF StartBatch, Chat, Pump, roomVars, HandleRestore
<1>7. CASE UNCHANGED vars
  BY <1>7 DEF vars
<1> QED BY <1>1, <1>2, <1>3, <1>4, <1>5, <1>6, <1>7 DEF RoomStep

\* The operation that is published is the last of the log, whatever is trimmed.
LEMMA LastLogged ==
    ASSUME TypeOK, NEW op \in Op, Publish(op) PROVE opLog'[Len(opLog')] = op
<1> DEFINE log == Append(opLog, op)
<1>1. opLog \in Seq(Op) /\ log \in Seq(Op) /\ Len(log) = Len(opLog) + 1 /\ log[Len(log)] = op
  BY AppendProperties DEF TypeOK
<1> HIDE DEF log
<1>0. Len(log) \in Nat /\ Len(log) > 0
  BY <1>1
<1>2. /\ Trimmed(log) \in Seq(Op) /\ Len(Trimmed(log)) > 0
      /\ \A i \in 1 .. Len(Trimmed(log)) : Trimmed(log)[i] = log[Len(log) - Len(Trimmed(log)) + i]
  <2>1. /\ Len(log) > 0 => Len(Trimmed(log)) > 0
        /\ Trimmed(log) \in Seq(Op)
        /\ \A i \in 1 .. Len(Trimmed(log)) : Trimmed(log)[i] = log[Len(log) - Len(Trimmed(log)) + i]
    BY <1>1, TrimmedProperties, Zenon
  <2> QED BY <1>0, <2>1, Zenon
<1>3. Len(Trimmed(log)) \in 1 .. Len(Trimmed(log)) /\ Len(log) \in Nat
  BY <1>1, <1>2
<1>4. Trimmed(log)[Len(Trimmed(log))] = log[Len(log)]
  BY <1>2, <1>3
<1> QED BY <1>1, <1>4 DEF Publish, log

\* The log has nothing but the operation that is published and what it had.
LEMMA LogGrows ==
    ASSUME TypeOK, NEW op \in Op, Publish(op), NEW i \in DOMAIN opLog'
    PROVE  opLog'[i] = op \/ \E j \in DOMAIN opLog : opLog'[i] = opLog[j]
<1> DEFINE log == Append(opLog, op)
           kept == Trimmed(log)
<1>1. /\ opLog \in Seq(Op) /\ log \in Seq(Op) /\ Len(log) = Len(opLog) + 1
      /\ \A k \in 1 .. Len(opLog) : log[k] = opLog[k]
      /\ log[Len(opLog) + 1] = op
  BY AppendProperties DEF TypeOK
<1>2. opLog' = kept
  BY DEF Publish
<1> HIDE DEF log
<1>3. /\ kept \in Seq(Op) /\ Len(kept) <= Len(log)
      /\ \A k \in 1 .. Len(kept) : kept[k] = log[Len(log) - Len(kept) + k]
  BY <1>1, TrimmedProperties
<1> HIDE DEF kept
<1>4. PICK k \in 1 .. Len(opLog) + 1 : opLog'[i] = log[k]
  <2>1. i \in 1 .. Len(kept) /\ Len(kept) \in Nat
    BY <1>2, <1>3
  <2>2. Len(log) - Len(kept) + i \in 1 .. Len(opLog) + 1
    BY <1>1, <1>3, <2>1
  <2> QED BY <1>2, <1>3, <2>1, <2>2
<1>5. CASE k = Len(opLog) + 1
  BY <1>1, <1>4, <1>5
<1>6. CASE k \in 1 .. Len(opLog)
  <2>1. k \in DOMAIN opLog
    BY <1>1, <1>6
  <2> QED BY <1>1, <1>4, <1>6, <2>1
<1> QED BY <1>1, <1>4, <1>5, <1>6

\* The position in an echo, and in the log, is where the text of the room really
\* changed: a browser that shows the operation has the text of the list.
THEOREM EchoIsRight == Spec => EchoMatches
<1>1. ASSUME RoomInv, [Next]_vars, live, live', seqNum' # seqNum
      PROVE  DocString(doc') = Shown(DocString(doc), opLog'[Len(opLog')])
  <2>1. Shows
    BY <1>1, TextSteps, NextIsRoomStep, InputAssumption DEF RoomInv, Opens, OpenRoom, Removes, Stays
  <2> QED BY <1>1, <2>1, LastLogged DEF Shows, Fits, RoomInv
<1>2. RoomInv /\ [Next]_vars =>
        [live /\ live' /\ seqNum' # seqNum
            => DocString(doc') = Shown(DocString(doc), opLog'[Len(opLog')])]_vars
  BY <1>1
<1> QED BY <1>2, RoomInvCorrect, PTL DEF Spec, EchoMatches

-----------------------------------------------------------------------------
(***************************************************************************)
(* The users of a room.                                                    *)
(***************************************************************************)

\* Everybody in the room is a user of their own, that this process has named; so
\* is whoever made an operation of the log; and who batches is in the room.
UsersKnown ==
    /\ \A c \in clients : user[c] \in 1 .. userSeq
    /\ \A c, d \in clients : user[c] = user[d] => c = d
    /\ \A i \in DOMAIN opLog : opLog[i].userID <= userSeq
    /\ task # NoTask => task.who \in clients

\* Nobody is known before the first step.
LEMMA UsersKnownInit == ASSUME NEW row, InitWith(row) PROVE UsersKnown
BY DEF InitWith, UsersKnown

\* What a user of the room publishes is logged under their number.
LEMMA PublishUsers ==
    ASSUME RoomInv, UsersKnown, NEW c \in clients, NEW r \in Request, applyOp(c, r),
           UNCHANGED <<clients, user, userSeq>>
    PROVE  \A i \in DOMAIN opLog' : opLog'[i].userID <= userSeq'
<1>1. c \in Clients /\ userSeq \in Nat /\ TypeOK /\ FreshIDs
  BY DEF RoomInv, TypeOK
<1>2. PICK op \in Op : Publish(op) /\ Echoes(op, c, r)
  BY <1>1, ApplyOpShows
<1>3. op.userID <= userSeq
  BY <1>1, <1>2 DEF Echoes, UsersKnown
<1> QED BY <1>1, <1>2, <1>3, LogGrows DEF UsersKnown

\* Every step keeps the numbers of users apart.
LEMMA UsersKnownStep ==
    ASSUME RoomInv, UsersKnown, NEW contents \in SUBSET Seq(Chars), RoomStep(contents)
    PROVE  UsersKnown'
<1>0. /\ TypeOK /\ userSeq \in Nat /\ clients \subseteq Clients /\ user \in [Clients -> Nat]
      /\ \A i \in DOMAIN opLog : opLog[i].userID \in Nat
  <2>1. \A op \in Op : op.userID \in Nat
    BY DEF Op, InsertOp, DeleteOp
  <2> QED BY <2>1 DEF RoomInv, TypeOK
<1>1. ASSUME NEW c \in Clients, NEW r \in Request, HandleOp(c, r) PROVE UsersKnown'
  <2>1. c \in clients /\ applyOp(c, r) /\ UNCHANGED <<clients, user, userSeq, task>>
    BY <1>1 DEF HandleOp, Free
  <2>2. \A i \in DOMAIN opLog' : opLog'[i].userID <= userSeq'
    BY <2>1, PublishUsers
  <2> QED BY <2>1, <2>2 DEF UsersKnown
<1>2. ASSUME BatchStep PROVE UsersKnown'
  <2>1. task # NoTask /\ UNCHANGED <<clients, user, userSeq>> /\ task.who \in clients
    BY <1>2 DEF BatchStep, Unlocked, UsersKnown
  <2>2. Head(task.todo) \in Request
    BY <2>1, TaskTypes DEF RoomInv
  <2>3. \A i \in DOMAIN opLog' : opLog'[i].userID <= userSeq'
    <3>1. CASE applyOp(task.who, Head(task.todo))
      BY <2>1, <2>2, <3>1, PublishUsers
    <3>2. CASE UNCHANGED opLog
      BY <2>1, <3>2 DEF UsersKnown
    <3> QED BY <1>2, <3>1, <3>2 DEF BatchStep
  <2>4. task' # NoTask => task'.who = task.who
    <3>1. task \in [who : Clients, todo : Seq(Request)]
      BY <2>1, TaskTypes DEF RoomInv
    <3> QED BY <1>2, <3>1 DEF BatchStep
  <2> QED BY <2>1, <2>3, <2>4 DEF UsersKnown
<1>3. ASSUME NEW c \in Clients, Leave(c) PROVE UsersKnown'
  <2>1. /\ clients' = clients \ {c} /\ user' = [user EXCEPT ![c] = 0]
        /\ task = NoTask /\ UNCHANGED <<userSeq, task>>
        /\ opLog' = opLog \/ opLog' = << >>
    BY <1>3 DEF Leave, Free, Unlocked, NoRoom, roomVars
  <2> QED BY <1>0, <2>1 DEF UsersKnown
<1>4. ASSUME Crash PROVE UsersKnown'
  BY <1>4 DEF Crash, NoRoom, UsersKnown
<1>5. ASSUME NEW c \in Clients, NEW since, NEW offlineEdits, Join(c, since, offlineEdits)
      PROVE  UsersKnown'
  <2>1. /\ c \notin clients /\ clients' = clients \cup {c} /\ userSeq' = userSeq + 1
        /\ user' = [user EXCEPT ![c] = userSeq + 1]
        /\ task = NoTask /\ UNCHANGED <<opLog, task>>
    BY <1>5 DEF Join, OpenRoom, Unlocked
  <2>2. \A d \in clients' : user'[d] = IF d = c THEN userSeq + 1 ELSE user[d]
    BY <1>0, <2>1
  <2>3. \A d \in clients : user[d] \in 1 .. userSeq
    BY DEF UsersKnown
  <2>4. /\ \A d \in clients' : user'[d] \in 1 .. userSeq'
        /\ \A d, e \in clients' : user'[d] = user'[e] => d = e
    <3>1. \A d \in clients' : user'[d] \in 1 .. userSeq'
      BY <1>0, <2>1, <2>2, <2>3
    <3>2. ASSUME NEW d \in clients', NEW e \in clients', user'[d] = user'[e] PROVE d = e
      <4>1. CASE d = c \/ e = c
        BY <1>0, <2>1, <2>2, <2>3, <3>2, <4>1
      <4>2. CASE d # c /\ e # c
        BY <2>1, <2>2, <3>2, <4>2 DEF UsersKnown
      <4> QED BY <4>1, <4>2
    <3> QED BY <3>1, <3>2
  <2>5. \A i \in DOMAIN opLog' : opLog'[i].userID <= userSeq'
    BY <1>0, <2>1 DEF UsersKnown
  <2> QED BY <2>1, <2>4, <2>5 DEF UsersKnown
<1>6. ASSUME NEW c \in Clients,
             \/ Chat(c) \/ Pump(c)
             \/ \E content \in contents : HandleRestore(c, content)
      PROVE  UsersKnown'
  BY <1>6 DEF Chat, Pump, roomVars, HandleRestore, UsersKnown
<1>7. ASSUME NEW c \in Clients, NEW ops, StartBatch(c, ops) PROVE UsersKnown'
  BY <1>7 DEF StartBatch, Free, roomVars, UsersKnown
<1>8. CASE UNCHANGED vars
  BY <1>8 DEF vars, UsersKnown
<1> QED BY <1>1, <1>2, <1>3, <1>4, <1>5, <1>6, <1>7, <1>8 DEF RoomStep

-----------------------------------------------------------------------------
(***************************************************************************)
(* The room implements the text that everybody shares.                     *)
(***************************************************************************)

\* The database works, and nobody restores.
Dependable == ~SaveMayFail /\ ~LoadMayFail /\ Restores = {}

\* Under these conditions a step of the room is one of the shared text, or none.
LEMMA SharedStep ==
    ASSUME Dependable, RoomInv, SavedBeforeSent, SavedText, SavedBeforeSent', SavedText', [Next]_vars
    PROVE  [Shared!Next]_<<DocumentText, DocumentNumber>>
<1>1. CASE Shows
  <2>1. live /\ live'
    BY <1>1 DEF Shows
  <2>2. PICK op \in Op : op.seq = seqNum + 1 /\ Publish(op) /\ Fits(op)
    BY <1>1 DEF Shows
  <2> DEFINE text == DocString(doc)
  <2>3. /\ DocumentText = text /\ DocumentText' = Shown(text, op)
        /\ DocumentNumber' = DocumentNumber + 1
        /\ text \in Seq(Chars)
    BY <2>1, <2>2, DocStringType DEF DocumentText, DocumentNumber, Fits, Publish, RoomInv, TypeOK
  <2>4. CASE op.type = "insert"
    <3>1. op.Char \in Chars /\ op.position \in 0 .. Len(text)
      BY <2>2, <2>4 DEF Fits
    <3>2. PutAt(text, op.position, op.Char) = SubSeq(text, 1, op.position) \o <<op.Char>>
                                               \o SubSeq(text, op.position + 1, Len(text))
      <4> HIDE DEF text
      <4> QED BY <2>3, <3>1, PutProperties
    <3>3. Shared!Put(op.Char, op.position)
      BY <2>3, <2>4, <3>2 DEF Shared!Put, Shown
    <3> QED BY <2>3, <3>1, <3>3 DEF Shared!Next
  <2>5. CASE op.type = "delete"
    <3>1. op.position \in 0 .. Len(text) - 1
      BY <2>2, <2>5 DEF Fits
    <3>2. CutAt(text, op.position) = SubSeq(text, 1, op.position)
                                      \o SubSeq(text, op.position + 2, Len(text))
      <4> HIDE DEF text
      <4> QED BY <2>3, <3>1, CutProperties
    <3>3. Shared!Cut(op.position)
      BY <2>3, <2>5, <3>2 DEF Shared!Cut, Shown
    <3> QED BY <2>3, <3>1, <3>3 DEF Shared!Next
  <2> QED BY <2>4, <2>5 DEF Op, InsertOp, DeleteOp
<1>2. CASE Opens
  BY <1>2 DEF Opens, OpenRoom, Dependable, SavedText, SavedBeforeSent, DocumentText, DocumentNumber
<1>3. CASE Removes
  BY <1>3 DEF Removes, Dependable, SavedText, SavedBeforeSent, DocumentText, DocumentNumber
<1>4. CASE Stays(Restores)
  BY <1>4 DEF Stays, Dependable, DocumentText, DocumentNumber
<1> QED BY <1>1, <1>2, <1>3, <1>4, TextSteps, NextIsRoomStep, InputAssumption DEF RoomInv

\* With a database that works and nobody who restores, whatever rooms, batches,
\* removals, reloads and crashes do, the document is one text that changes by one
\* character and one number at a time, and never goes back.
THEOREM RoomImplementsSharedText == ASSUME Dependable PROVE Spec => SharedTextSpec
<1>1. Init => Shared!Init
  BY DEF Init, InitWith, Shared!Init, DocumentText, DocumentNumber
<1>2. /\ RoomInv /\ SavedBeforeSent /\ SavedText /\ SavedBeforeSent' /\ SavedText' /\ [Next]_vars
      => [Shared!Next]_<<DocumentText, DocumentNumber>>
  BY SharedStep
<1> QED BY <1>1, <1>2, RoomInvCorrect, SavedBeforeSentAlways, SavedTextAlways, PTL
        DEF Spec, SharedTextSpec, Shared!Spec

-----------------------------------------------------------------------------
(***************************************************************************)
(* Sequences that are put together, put into and cut.                      *)
(***************************************************************************)

\* Wherever it is put, there is one element more.
LEMMA PutAnywhere ==
    ASSUME NEW S, NEW s \in Seq(S), NEW pos \in Nat, NEW x \in S
    PROVE  PutAt(s, pos, x) \in Seq(S) /\ Len(PutAt(s, pos, x)) = Len(s) + 1
<1> DEFINE k == IF pos > Len(s) THEN Len(s) ELSE pos
<1>1. PutAt(s, pos, x) = SubSeq(s, 1, k) \o <<x>> \o SubSeq(s, k + 1, Len(s))
  BY DEF PutAt
<1>2. k \in 0 .. Len(s)
  OBVIOUS
<1> HIDE DEF k
<1>3. PutAt(s, pos, x) = PutAt(s, k, x)
  BY <1>1, <1>2, PutProperties
<1>4. PutAt(s, k, x) \in Seq(S) /\ Len(PutAt(s, k, x)) = Len(s) + 1
  <2>1. PutAt(s, k, x) \in Seq(S) /\ Spliced(PutAt(s, k, x), s, k, x)
    BY ZenonT(30), <1>2, PutProperties
  <2> QED
    BY <2>1 DEF Spliced
<1> QED
  BY <1>3, <1>4

\* It is put at its position, or at the end.
LEMMA PutPlaces ==
    ASSUME NEW S, NEW s \in Seq(S), NEW pos \in Nat, NEW x \in S
    PROVE  Spliced(PutAt(s, pos, x), s, IF pos > Len(s) THEN Len(s) ELSE pos, x)
<1> DEFINE k == IF pos > Len(s) THEN Len(s) ELSE pos
<1>1. PutAt(s, pos, x) = SubSeq(s, 1, k) \o <<x>> \o SubSeq(s, k + 1, Len(s))
  BY DEF PutAt
<1>2. k \in 0 .. Len(s)
  OBVIOUS
<1> HIDE DEF k
<1>3. PutAt(s, pos, x) = PutAt(s, k, x)
  BY <1>1, <1>2, PutProperties
<1>4. Spliced(PutAt(s, k, x), s, k, x)
  BY ZenonT(30), <1>2, PutProperties
<1>5. Spliced(PutAt(s, pos, x), s, k, x)
  BY <1>3, <1>4
<1> QED
  BY <1>5 DEF k

\* A position that is not in the sequence cuts nothing.
LEMMA CutAnywhere ==
    ASSUME NEW S, NEW s \in Seq(S), NEW pos \in Nat
    PROVE  /\ CutAt(s, pos) \in Seq(S)
           /\ Len(CutAt(s, pos)) = IF pos < Len(s) THEN Len(s) - 1 ELSE Len(s)
<1>1. CASE pos < Len(s)
  <2>1. pos \in 0 .. Len(s) - 1
    BY <1>1
  <2> QED
    BY <1>1, <2>1, CutProperties DEF Without
<1>2. CASE pos >= Len(s)
  <2> DEFINE p == IF pos > Len(s) THEN Len(s) ELSE pos
             all == SubSeq(s, 1, Len(s))
  <2>1. CutAt(s, pos) = all \o SubSeq(s, Len(s) + 2, Len(s))
    <3>1. CutAt(s, pos) = SubSeq(s, 1, p) \o SubSeq(s, p + 2, Len(s))
      BY DEF CutAt
    <3>2. p = Len(s)
      BY <1>2
    <3> QED
      BY <3>1, <3>2
  <2>2. SubSeq(s, Len(s) + 2, Len(s)) = << >>
    BY SubSeqEmpty
  <2>3. all \in Seq(S) /\ Len(all) = Len(s)
    BY SubSeqProperties
  <2> HIDE DEF all
  <2>4. CutAt(s, pos) = all
    BY <2>1, <2>2, <2>3, ConcatEmptySeq
  <2> QED
    BY <1>2, <2>3, <2>4
<1> QED
  BY <1>1, <1>2

\* Behind the end there is nothing to cut.
LEMMA CutNothing ==
    ASSUME NEW S, NEW s \in Seq(S), NEW pos \in Nat, pos >= Len(s)
    PROVE  CutAt(s, pos) = s
<1> DEFINE p == IF pos > Len(s) THEN Len(s) ELSE pos
           all == SubSeq(s, 1, Len(s))
<1>1. CutAt(s, pos) = all \o SubSeq(s, Len(s) + 2, Len(s))
  <2>1. CutAt(s, pos) = SubSeq(s, 1, p) \o SubSeq(s, p + 2, Len(s))
    BY DEF CutAt
  <2>2. p = Len(s)
    OBVIOUS
  <2> QED
    BY <2>1, <2>2
<1>2. SubSeq(s, Len(s) + 2, Len(s)) = << >>
  BY SubSeqEmpty
<1>3. all \in Seq(S) /\ Len(all) = Len(s) /\ \A i \in 1 .. Len(s) : all[i] = s[i]
  BY SubSeqProperties
<1> HIDE DEF all
<1>4. CutAt(s, pos) = all
  BY <1>1, <1>2, <1>3, ConcatEmptySeq
<1>5. all = s
  BY <1>3, SeqEqual
<1> QED
  BY <1>4, <1>5

\* all is a and then b, that have lengths m and n.
Joined(all, a, b, m, n) ==
    /\ Len(all) = m + n
    /\ \A j \in 1 .. m + n : all[j] = IF j <= m THEN a[j] ELSE b[j - m]

\* Two sequences of known lengths, one after the other.
LEMMA ConcatPlaces ==
    ASSUME NEW C, NEW a \in Seq(C), NEW b \in Seq(C), NEW m \in Nat, NEW n \in Nat, Len(a) = m, Len(b) = n
    PROVE  a \o b \in Seq(C) /\ Joined(a \o b, a, b, m, n)
  BY ConcatProperties DEF Joined

\* What stays when a sequence is appended to.
LEMMA TailConcat ==
    ASSUME NEW C, NEW s \in Seq(C), s # << >>, NEW b \in Seq(C)
    PROVE  s \o b # << >> /\ Head(s \o b) = Head(s) /\ Tail(s \o b) = Tail(s) \o b
<1> DEFINE all == s \o b
           rest == Tail(s)
           tail == Tail(all)
           more == rest \o b
           m == Len(s)
           n == Len(b)
<1>1. /\ m \in Nat /\ n \in Nat /\ m > 0
      /\ rest \in Seq(C) /\ Len(rest) = m - 1 /\ \A i \in 1 .. m - 1 : rest[i] = s[i + 1]
      /\ Head(s) = s[1]
  BY HeadTailProperties
<1>2. all \in Seq(C) /\ Joined(all, s, b, m, n)
  BY ConcatPlaces
<1> HIDE DEF all, rest, m, n
<1>3. all # << >> /\ Len(all) = m + n /\ all[1] = s[1]
  BY <1>1, <1>2 DEF Joined
<1>4. Head(all) = s[1] /\ tail \in Seq(C) /\ Len(tail) = m + n - 1
      /\ \A i \in 1 .. m + n - 1 : tail[i] = all[i + 1]
  <2>1. /\ Head(all) = all[1] /\ Tail(all) \in Seq(C) /\ Len(Tail(all)) = Len(all) - 1
        /\ \A i \in 1 .. Len(Tail(all)) : Tail(all)[i] = all[i + 1]
    BY <1>2, <1>3, HeadTailProperties
  <2> HIDE DEF tail
  <2>2. /\ tail \in Seq(C) /\ Len(tail) = m + n - 1
        /\ \A i \in 1 .. Len(tail) : tail[i] = all[i + 1]
    BY <1>1, <1>3, <2>1 DEF tail
  <2> QED
    BY <1>3, <2>1, <2>2
<1>5. more \in Seq(C) /\ Joined(more, rest, b, m - 1, n)
  BY <1>1, ConcatPlaces DEF n
<1> HIDE DEF tail, more
<1>6. tail = more
  <2>1. ASSUME NEW i \in 1 .. m + n - 1 PROVE tail[i] = more[i]
    <3>1. tail[i] = IF i + 1 <= m THEN s[i + 1] ELSE b[i + 1 - m]
      <4>1. \A k \in 1 .. m + n : all[k] = IF k <= m THEN s[k] ELSE b[k - m]
        BY <1>2 DEF Joined
      <4>2. PICK k \in 1 .. m + n : k = i + 1
        BY <1>1
      <4>3. tail[i] = all[k]
        BY <1>4, <4>2
      <4>4. all[k] = IF k <= m THEN s[k] ELSE b[k - m]
        BY <4>1
      <4>5. (k <= m <=> i + 1 <= m) /\ k - m = i + 1 - m
        BY <1>1, <4>2
      <4> QED
        BY <4>2, <4>3, <4>4, <4>5
    <3>2. more[i] = IF i <= m - 1 THEN rest[i] ELSE b[i - (m - 1)]
      BY <1>1, <1>5 DEF Joined
    <3>3. i + 1 - m = i - (m - 1)
      BY <1>1
    <3> QED
      BY <1>1, <3>1, <3>2, <3>3
  <2>2. Len(more) = m + n - 1
    BY <1>1, <1>5 DEF Joined
  <2> QED
    BY <1>4, <1>5, <2>1, <2>2
<1> QED
  BY <1>1, <1>3, <1>4, <1>6 DEF all, rest, tail, more

-----------------------------------------------------------------------------
(***************************************************************************)
(* Operations, one after the other, and what they make of a sequence.      *)
(***************************************************************************)

\* The text after what request r asks for was done to s.
Applied(s, r) ==
    IF r.type = "insert" THEN PutAt(s, r.Position, r.Char) ELSE CutAt(s, r.Position)

\* The elements of q, one after the other, take s to v, by way of elements of X; R has
\* the triples of what there is, an element and what it makes of that.
Leads(X, R, s, q, v) ==
    \E S \in [0 .. Len(q) -> X] :
        /\ S[0] = s /\ S[Len(q)] = v
        /\ \A i \in 1 .. Len(q) : <<S[i - 1], q[i], S[i]>> \in R

\* The same from text to text.
Steps(R, s, q, v) == Leads(Seq(Chars), R, s, q, v)

\* What a request does to a text.
OpSteps == {e \in Seq(Chars) \X Request \X Seq(Chars) : e[3] = Applied(e[1], e[2])}

\* Nothing to do: all stays.
LEMMA LeadsNone ==
    ASSUME NEW X, NEW R, NEW s \in X
    PROVE  /\ Leads(X, R, s, << >>, s)
           /\ \A v : Leads(X, R, s, << >>, v) => v = s
<1>1. Leads(X, R, s, << >>, s)
  <2> DEFINE S == [i \in 0 .. 0 |-> s]
  <2>1. /\ S \in [0 .. Len(<< >>) -> X]
        /\ S[0] = s /\ S[Len(<< >>)] = s
        /\ \A i \in 1 .. Len(<< >>) : <<S[i - 1], << >>[i], S[i]>> \in R
    OBVIOUS
  <2> QED
    BY <2>1 DEF Leads
<1>2. ASSUME NEW v, Leads(X, R, s, << >>, v) PROVE v = s
  BY <1>2 DEF Leads
<1> QED
  BY <1>1, <1>2

\* One step of R does one thing.
LEMMA LeadsOne ==
    ASSUME NEW X, NEW R, NEW s \in X, NEW m, NEW v \in X, <<s, m, v>> \in R
    PROVE  Leads(X, R, s, <<m>>, v)
<1> DEFINE S == [i \in 0 .. 1 |-> IF i = 0 THEN s ELSE v]
<1>1. Len(<<m>>) = 1 /\ <<m>>[1] = m
  OBVIOUS
<1>2. S \in [0 .. 1 -> X] /\ S[0] = s /\ S[1] = v
  OBVIOUS
<1> HIDE DEF S
<1>3. ASSUME NEW i \in 1 .. 1 PROVE <<S[i - 1], <<m>>[i], S[i]>> \in R
  <2>1. i = 1 /\ i - 1 = 0
    OBVIOUS
  <2> QED
    BY <1>1, <1>2, <2>1
<1> QED
  BY <1>1, <1>2, <1>3 DEF Leads

\* What is done first leads to where the rest is done from.
LEMMA LeadsFirst ==
    ASSUME NEW X, NEW R, NEW M, NEW q \in Seq(M), q # << >>, NEW s, NEW v, Leads(X, R, s, q, v)
    PROVE  \E w \in X : <<s, Head(q), w>> \in R /\ Leads(X, R, w, Tail(q), v)
<1> DEFINE n == Len(q)
<1>1. PICK S \in [0 .. n -> X] :
          /\ S[0] = s /\ S[n] = v
          /\ \A i \in 1 .. n : <<S[i - 1], q[i], S[i]>> \in R
  BY DEF Leads
<1> DEFINE U == [i \in 0 .. n - 1 |-> S[i + 1]]
<1>2. /\ n \in Nat \ {0} /\ Head(q) = q[1]
      /\ Len(Tail(q)) = n - 1 /\ \A i \in 1 .. n - 1 : Tail(q)[i] = q[i + 1]
  BY HeadTailProperties
<1> HIDE DEF n
<1>3. U \in [0 .. n - 1 -> X] /\ U[0] = S[1] /\ U[n - 1] = v
  BY <1>1, <1>2
<1>4. ASSUME NEW i \in 1 .. n - 1 PROVE <<U[i - 1], Tail(q)[i], U[i]>> \in R
  <2>1. i + 1 \in 1 .. n /\ (i + 1) - 1 = i /\ i \in 0 .. n - 1 /\ i - 1 \in 0 .. n - 1 /\ (i - 1) + 1 = i
    BY <1>2
  <2>2. U[i - 1] = S[i] /\ U[i] = S[i + 1]
    BY <2>1
  <2>3. <<S[(i + 1) - 1], q[i + 1], S[i + 1]>> \in R
    BY <1>1, <2>1
  <2> QED
    BY <1>2, <2>1, <2>2, <2>3
<1> HIDE DEF U
<1>5. Leads(X, R, S[1], Tail(q), v)
  BY <1>2, <1>3, <1>4 DEF Leads
<1>6. 1 \in 1 .. n /\ 1 \in 0 .. n
  BY <1>2
<1>7. S[1] \in X /\ <<s, Head(q), S[1]>> \in R
  <2>1. <<S[1 - 1], q[1], S[1]>> \in R
    BY <1>1, <1>6
  <2> QED
    BY <1>1, <1>2, <1>6, <2>1
<1> QED
  BY <1>5, <1>7

\* What q does, and then r, is what both do one after the other.
LEMMA LeadsOn ==
    ASSUME NEW X, NEW R, NEW M, NEW q \in Seq(M), NEW r \in Seq(M), NEW s, NEW w, NEW v,
           Leads(X, R, s, q, w), Leads(X, R, w, r, v)
    PROVE  Leads(X, R, s, q \o r, v)
<1> DEFINE n == Len(q)
           k == Len(r)
<1>1. PICK S \in [0 .. n -> X] :
          /\ S[0] = s /\ S[n] = w
          /\ \A i \in 1 .. n : <<S[i - 1], q[i], S[i]>> \in R
  BY DEF Leads
<1>2. PICK U \in [0 .. k -> X] :
          /\ U[0] = w /\ U[k] = v
          /\ \A i \in 1 .. k : <<U[i - 1], r[i], U[i]>> \in R
  BY DEF Leads
<1> DEFINE V == [i \in 0 .. n + k |-> IF i <= n THEN S[i] ELSE U[i - n]]
<1>3. /\ n \in Nat /\ k \in Nat /\ Len(q \o r) = n + k
      /\ \A i \in 1 .. n + k : (q \o r)[i] = IF i <= n THEN q[i] ELSE r[i - n]
  BY ConcatProperties
<1> HIDE DEF n, k
<1>4. V \in [0 .. n + k -> X]
  <2>1. ASSUME NEW i \in 0 .. n + k PROVE (IF i <= n THEN S[i] ELSE U[i - n]) \in X
    BY <1>1, <1>2, <1>3
  <2> QED
    BY <2>1
<1>5. V[0] = s /\ V[n + k] = v
  <2>1. V[n + k] = v
    BY <1>1, <1>2, <1>3
  <2> QED
    BY <1>1, <1>3, <2>1
<1>6. ASSUME NEW i \in 1 .. n + k PROVE <<V[i - 1], (q \o r)[i], V[i]>> \in R
  <2>1. i \in 0 .. n + k /\ i - 1 \in 0 .. n + k
    BY <1>3
  <2>2. CASE i <= n
    <3>1. i - 1 <= n /\ i \in 1 .. n
      BY <1>3, <2>2
    <3>2. V[i - 1] = S[i - 1] /\ V[i] = S[i]
      BY <2>1, <2>2, <3>1
    <3> QED
      BY <1>1, <1>3, <2>2, <3>1, <3>2
  <2>3. CASE i > n
    <3>1. i - n \in 1 .. k /\ (i - n) - 1 = i - 1 - n /\ ~(i <= n)
      BY <1>3, <2>3
    <3>2. V[i - 1] = U[(i - n) - 1]
      <4>1. CASE i - 1 = n
        BY <1>1, <1>2, <1>3, <2>1, <3>1, <4>1
      <4>2. CASE i - 1 > n
        BY <1>3, <2>1, <3>1, <4>2
      <4> QED
        BY <1>3, <2>3, <4>1, <4>2
    <3>3. V[i] = U[i - n] /\ (q \o r)[i] = r[i - n]
      BY <1>3, <2>1, <3>1
    <3> QED
      BY <1>2, <3>1, <3>2, <3>3
  <2>4. i <= n \/ i > n
    BY <1>3
  <2> QED
    BY <2>2, <2>3, <2>4
<1> HIDE DEF V
<1> QED
  BY <1>3, <1>4, <1>5, <1>6 DEF Leads

\* Nothing done to a text leaves it as it is.
LEMMA StepsNone ==
    ASSUME NEW R, NEW s \in Seq(Chars)
    PROVE  /\ Steps(R, s, << >>, s)
           /\ \A v : Steps(R, s, << >>, v) => v = s
BY LeadsNone DEF Steps

\* One element of R is a step.
LEMMA StepsOne ==
    ASSUME NEW R, NEW s \in Seq(Chars), NEW m, NEW v \in Seq(Chars), <<s, m, v>> \in R
    PROVE  Steps(R, s, <<m>>, v)
BY LeadsOne DEF Steps

\* The first step comes before the others.
LEMMA StepsFirst ==
    ASSUME NEW R, NEW M, NEW q \in Seq(M), q # << >>, NEW s, NEW v, Steps(R, s, q, v)
    PROVE  \E w \in Seq(Chars) : <<s, Head(q), w>> \in R /\ Steps(R, w, Tail(q), v)
BY LeadsFirst DEF Steps

\* Steps go on where others stopped.
LEMMA StepsOn ==
    ASSUME NEW R, NEW M, NEW q \in Seq(M), NEW r \in Seq(M), NEW s, NEW w, NEW v,
           Steps(R, s, q, w), Steps(R, w, r, v)
    PROVE  Steps(R, s, q \o r, v)
BY LeadsOn DEF Steps

\* Of the cut elements of a behind place p, the last d are gone.
Fewer(a, p, cut, d) == [j \in 1 .. Len(a) - d |-> IF j <= p + cut - d THEN a[j] ELSE a[j + d]]

\* They all are, and the first i elements of put have come for them.
More(a, p, cut, put, i) ==
    [j \in 1 .. Len(a) - cut + i |->
        IF j <= p THEN a[j] ELSE IF j <= p + i THEN put[j - p] ELSE a[j - i + cut]]

\* One element after the other is cut out.
LEMMA FewerProperties ==
    ASSUME NEW C, NEW a \in Seq(C), NEW p \in Nat, NEW cut \in Nat, p + cut <= Len(a)
    PROVE  /\ \A d \in 0 .. cut : Fewer(a, p, cut, d) \in Seq(C) /\ Len(Fewer(a, p, cut, d)) = Len(a) - d
           /\ Fewer(a, p, cut, 0) = a
           /\ \A d \in 1 .. cut :
                CutAt(Fewer(a, p, cut, d - 1), p + cut - d) = Fewer(a, p, cut, d)
<1> DEFINE Cut(d) == Fewer(a, p, cut, d)
<1>1. Len(a) \in Nat
  OBVIOUS
<1>2. ASSUME NEW d \in 0 .. cut
      PROVE  /\ Cut(d) \in Seq(C) /\ Len(Cut(d)) = Len(a) - d
             /\ \A j \in 1 .. Len(a) - d : Cut(d)[j] = IF j <= p + cut - d THEN a[j] ELSE a[j + d]
  <2>1. Len(a) - d \in Nat
    BY <1>1
  <2>2. ASSUME NEW j \in 1 .. Len(a) - d
        PROVE  (IF j <= p + cut - d THEN a[j] ELSE a[j + d]) \in C
    BY <1>1
  <2> QED
    BY <2>1, <2>2 DEF Fewer
<1> HIDE DEF Cut
<1>3. Cut(0) = a
  <2>1. 0 \in 0 .. cut /\ Len(a) - 0 = Len(a) /\ p + cut - 0 = p + cut
    BY <1>1
  <2>2. Cut(0) \in Seq(C) /\ Len(Cut(0)) = Len(a)
    BY <1>2, <2>1
  <2>3. ASSUME NEW j \in 1 .. Len(a) PROVE Cut(0)[j] = a[j]
    <3>1. Cut(0)[j] = IF j <= p + cut - 0 THEN a[j] ELSE a[j + 0]
      BY <1>2, <2>1
    <3> QED
      BY <3>1
  <2> QED
    BY <2>2, <2>3, SeqEqual
<1>4. ASSUME NEW d \in 1 .. cut PROVE CutAt(Cut(d - 1), p + cut - d) = Cut(d)
  <2> DEFINE old == Cut(d - 1)
             at == p + cut - d
             got == CutAt(old, at)
  <2>1. /\ d - 1 \in 0 .. cut /\ d \in 0 .. cut /\ Len(a) - (d - 1) = Len(a) - d + 1
        /\ p + cut - (d - 1) = at + 1
    BY <1>1
  <2>2. /\ old \in Seq(C) /\ Len(old) = Len(a) - d + 1
        /\ Cut(d) \in Seq(C) /\ Len(Cut(d)) = Len(a) - d
        /\ \A j \in 1 .. Len(a) - d + 1 : old[j] = IF j <= at + 1 THEN a[j] ELSE a[j + (d - 1)]
        /\ \A j \in 1 .. Len(a) - d : Cut(d)[j] = IF j <= at THEN a[j] ELSE a[j + d]
    BY <1>2, <2>1
  <2>3. at \in 0 .. Len(old) - 1
    BY <1>1, <2>2
  <2> HIDE DEF old, at
  <2>5. got \in Seq(C) /\ Without(got, old, at)
    BY <2>2, <2>3, CutProperties
  <2> HIDE DEF got
  <2>6. Len(got) = Len(a) - d
    BY <1>1, <2>2, <2>5 DEF Without
  <2>7. ASSUME NEW j \in 1 .. Len(a) - d PROVE got[j] = Cut(d)[j]
    <3>1. got[j] = IF j <= at THEN old[j] ELSE old[j + 1]
      BY <1>1, <2>2, <2>5 DEF Without
    <3>2. CASE j <= at
      <4>1. j \in 1 .. Len(a) - d + 1 /\ j <= at + 1
        BY <1>1, <2>3, <3>2
      <4> QED
        BY <2>2, <3>1, <3>2, <4>1
    <3>3. CASE j > at
      <4>1. j + 1 \in 1 .. Len(a) - d + 1 /\ ~(j + 1 <= at + 1) /\ ~(j <= at)
            /\ (j + 1) + (d - 1) = j + d
        BY <1>1, <2>3, <3>3
      <4> QED
        BY <2>2, <3>1, <4>1
    <3> QED
      BY <1>1, <2>3, <3>2, <3>3
  <2>8. got = Cut(d)
    BY <2>2, <2>5, <2>6, <2>7, SeqEqual
  <2> QED
    BY <2>8 DEF got, old, at
<1> QED
  BY <1>2, <1>3, <1>4 DEF Cut

\* What there is while elements are put in is of the kind that a and put are of.
LEMMA MoreType ==
    ASSUME NEW C, NEW a \in Seq(C), NEW p \in Nat, NEW cut \in Nat, p + cut <= Len(a),
           NEW put \in Seq(C), NEW i \in 0 .. Len(put)
    PROVE  More(a, p, cut, put, i) \in Seq(C) /\ Len(More(a, p, cut, put, i)) = Len(a) - cut + i
<1> DEFINE k == Len(put)
<1>1. Len(a) \in Nat /\ k \in Nat /\ i \in 0 .. k /\ \A j \in 1 .. k : put[j] \in C
  OBVIOUS
<1> HIDE DEF k
<1>2. Len(a) - cut + i \in Nat
  BY <1>1
<1>3. ASSUME NEW j \in 1 .. Len(a) - cut + i
      PROVE  (IF j <= p THEN a[j] ELSE IF j <= p + i THEN put[j - p] ELSE a[j - i + cut]) \in C
  <2>1. CASE j <= p
    BY <1>1, <2>1
  <2>2. CASE j > p /\ j <= p + i
    <3>1. j - p \in 1 .. k
      BY <1>1, <2>2
    <3> QED
      BY <1>1, <2>2, <3>1
  <2>3. CASE j > p + i
    BY <1>1, <2>3
  <2> QED
    BY <1>1, <2>1, <2>2, <2>3
<1> DEFINE m == Len(a) - cut + i
           F(j) == IF j <= p THEN a[j] ELSE IF j <= p + i THEN put[j - p] ELSE a[j - i + cut]
           got == More(a, p, cut, put, i)
<1>4. m \in Nat /\ (\A j \in 1 .. m : F(j) \in C) /\ got = [j \in 1 .. m |-> F(j)]
  BY <1>2, <1>3 DEF More
<1> HIDE DEF m, F, got
<1>5. got \in Seq(C) /\ Len(got) = m
  BY <1>4
<1> QED
  BY <1>5 DEF m, got

\* Element by element.
LEMMA MoreIs ==
    ASSUME NEW C, NEW a \in Seq(C), NEW p \in Nat, NEW cut \in Nat, p + cut <= Len(a),
           NEW put \in Seq(C), NEW i \in 0 .. Len(put)
    PROVE  /\ More(a, p, cut, put, i) \in Seq(C) /\ Len(More(a, p, cut, put, i)) = Len(a) - cut + i
           /\ \A j \in 1 .. Len(a) - cut + i :
                More(a, p, cut, put, i)[j] =
                    IF j <= p THEN a[j] ELSE IF j <= p + i THEN put[j - p] ELSE a[j - i + cut]
<1>1. More(a, p, cut, put, i) \in Seq(C) /\ Len(More(a, p, cut, put, i)) = Len(a) - cut + i
  BY MoreType
<1>2. ASSUME NEW j \in 1 .. Len(a) - cut + i
      PROVE  More(a, p, cut, put, i)[j] =
                 IF j <= p THEN a[j] ELSE IF j <= p + i THEN put[j - p] ELSE a[j - i + cut]
  BY DEF More
<1> QED
  BY <1>1, <1>2

\* Before the first of them the others are gone.
LEMMA MoreFirst ==
    ASSUME NEW C, NEW a \in Seq(C), NEW p \in Nat, NEW cut \in Nat, p + cut <= Len(a),
           NEW put \in Seq(C)
    PROVE  More(a, p, cut, put, 0) = Fewer(a, p, cut, cut)
<1>1. Len(a) \in Nat /\ 0 \in 0 .. Len(put) /\ cut \in 0 .. cut /\ p + cut - cut = p
      /\ Len(a) - cut + 0 = Len(a) - cut
  OBVIOUS
<1>2. ASSUME NEW i \in 0 .. Len(put), i = 0
      PROVE  /\ More(a, p, cut, put, i) \in Seq(C) /\ Len(More(a, p, cut, put, i)) = Len(a) - cut
             /\ \A j \in 1 .. Len(a) - cut :
                  More(a, p, cut, put, i)[j] = IF j <= p THEN a[j] ELSE a[j + cut]
  <2>1. /\ More(a, p, cut, put, i) \in Seq(C) /\ Len(More(a, p, cut, put, i)) = Len(a) - cut + i
        /\ \A j \in 1 .. Len(a) - cut + i : More(a, p, cut, put, i)[j] =
              IF j <= p THEN a[j] ELSE IF j <= p + i THEN put[j - p] ELSE a[j - i + cut]
    BY MoreType DEF More
  <2>2. Len(a) - cut + i = Len(a) - cut /\ p + i = p
    BY <1>1, <1>2
  <2>3. ASSUME NEW j \in 1 .. Len(a) - cut
        PROVE  More(a, p, cut, put, i)[j] = IF j <= p THEN a[j] ELSE a[j + cut]
    <3>1. j - i + cut = j + cut
      BY <1>1, <1>2
    <3> QED
      BY <2>1, <2>2, <3>1
  <2> QED
    BY <2>1, <2>2, <2>3
<1>3. ASSUME NEW d \in 0 .. cut, d = cut
      PROVE  /\ Fewer(a, p, cut, d) \in Seq(C) /\ Len(Fewer(a, p, cut, d)) = Len(a) - cut
             /\ \A j \in 1 .. Len(a) - cut :
                  Fewer(a, p, cut, d)[j] = IF j <= p THEN a[j] ELSE a[j + cut]
  <2>1. Fewer(a, p, cut, d) \in Seq(C) /\ Len(Fewer(a, p, cut, d)) = Len(a) - d
    BY FewerProperties
  <2>2. \A j \in 1 .. Len(a) - d :
          Fewer(a, p, cut, d)[j] = IF j <= p + cut - d THEN a[j] ELSE a[j + d]
    BY DEF Fewer
  <2>3. p + cut - d = p
    BY <1>3
  <2> QED
    BY <1>3, <2>1, <2>2, <2>3
<1> DEFINE got == More(a, p, cut, put, 0)
           want == Fewer(a, p, cut, cut)
           m == Len(a) - cut
<1>4. /\ got \in Seq(C) /\ Len(got) = m
      /\ \A j \in 1 .. m : got[j] = IF j <= p THEN a[j] ELSE a[j + cut]
  BY <1>1, <1>2
<1>5. /\ want \in Seq(C) /\ Len(want) = m
      /\ \A j \in 1 .. m : want[j] = IF j <= p THEN a[j] ELSE a[j + cut]
  BY <1>1, <1>3
<1> HIDE DEF got, want, m
<1>6. got = want
  BY <1>4, <1>5, SeqEqual
<1> QED
  BY <1>6 DEF got, want

\* The next one is put in.
LEMMA MoreNext ==
    ASSUME NEW C, NEW a \in Seq(C), NEW p \in Nat, NEW cut \in Nat, p + cut <= Len(a),
           NEW put \in Seq(C), NEW i \in 1 .. Len(put)
    PROVE  PutAt(More(a, p, cut, put, i - 1), p + i - 1, put[i]) = More(a, p, cut, put, i)
<1> DEFINE k == Len(put)
           Put(h) == More(a, p, cut, put, h)
           old == Put(i - 1)
           at == p + i - 1
           got == PutAt(old, at, put[i])
<1>1. /\ Len(a) \in Nat /\ k \in Nat /\ i \in 1 .. k /\ put[i] \in C
      /\ i - 1 \in 0 .. k /\ i \in 0 .. k
      /\ p + (i - 1) = at /\ p + i = at + 1 /\ Len(a) - cut + (i - 1) = Len(a) - cut + i - 1
  OBVIOUS
<1>2. ASSUME NEW h \in 0 .. k
      PROVE  /\ Put(h) \in Seq(C) /\ Len(Put(h)) = Len(a) - cut + h
             /\ \A j \in 1 .. Len(a) - cut + h :
                  Put(h)[j] = IF j <= p THEN a[j] ELSE IF j <= p + h THEN put[j - p] ELSE a[j - h + cut]
  BY MoreIs
<1> HIDE DEF k, Put
<1>3. /\ old \in Seq(C) /\ Len(old) = Len(a) - cut + i - 1
      /\ \A j \in 1 .. Len(a) - cut + i - 1 :
            old[j] = IF j <= p THEN a[j] ELSE IF j <= at THEN put[j - p] ELSE a[j - (i - 1) + cut]
  BY <1>1, <1>2
<1>4. /\ Put(i) \in Seq(C) /\ Len(Put(i)) = Len(a) - cut + i
      /\ \A j \in 1 .. Len(a) - cut + i :
            Put(i)[j] = IF j <= p THEN a[j] ELSE IF j <= at + 1 THEN put[j - p] ELSE a[j - i + cut]
  BY <1>1, <1>2
<1> HIDE DEF old
<1>5. at \in 0 .. Len(old) /\ at = p + i - 1
  BY <1>1, <1>3
<1> HIDE DEF at
<1>6. got \in Seq(C) /\ Spliced(got, old, at, put[i])
  BY <1>1, <1>3, <1>5, PutProperties
<1> HIDE DEF got
<1>7. Len(got) = Len(a) - cut + i
  BY <1>1, <1>3, <1>6 DEF Spliced
<1>8. ASSUME NEW j \in 1 .. Len(a) - cut + i PROVE got[j] = Put(i)[j]
  <2>1. got[j] = IF j <= at THEN old[j] ELSE IF j = at + 1 THEN put[i] ELSE old[j - 1]
    BY <1>1, <1>3, <1>6 DEF Spliced
  <2>2. CASE j <= at
    <3>1. j \in 1 .. Len(a) - cut + i - 1 /\ j <= at + 1
      BY <1>1, <1>5, <2>2
    <3> QED
      BY <1>3, <1>4, <2>1, <2>2, <3>1
  <2>3. CASE j = at + 1
    <3>1. ~(j <= at) /\ ~(j <= p) /\ j <= at + 1 /\ j - p = i
      BY <1>1, <1>5, <2>3
    <3> QED
      BY <1>4, <2>1, <2>3, <3>1
  <2>4. CASE j > at + 1
    <3>1. /\ j - 1 \in 1 .. Len(a) - cut + i - 1
          /\ ~(j <= at) /\ ~(j <= at + 1) /\ ~(j <= p) /\ j # at + 1
          /\ ~(j - 1 <= p) /\ ~(j - 1 <= at)
          /\ (j - 1) - (i - 1) + cut = j - i + cut
      BY <1>1, <1>5, <2>4
    <3> QED
      BY <1>3, <1>4, <2>1, <3>1
  <2> QED
    BY <1>1, <1>5, <2>2, <2>3, <2>4
<1> QED
  <2>1. got = Put(i)
    BY <1>4, <1>6, <1>7, <1>8, SeqEqual
  <2> QED
    BY <2>1 DEF got, old, at, Put

\* new has the ends of a, and put between them.
Between(a, p, cut, put, new) ==
    /\ Len(new) = p + Len(put) + (Len(a) - (p + cut))
    /\ \A j \in 1 .. Len(put) : put[j] = new[p + j]
    /\ \A j \in 1 .. p : a[j] = new[j]
    /\ \A j \in 0 .. Len(a) - (p + cut) - 1 : a[Len(a) - j] = new[Len(new) - j]

\* When they all are in, this is what has them between the ends.
LEMMA MoreLast ==
    ASSUME NEW C, NEW a \in Seq(C), NEW p \in Nat, NEW cut \in Nat, p + cut <= Len(a),
           NEW put \in Seq(C), NEW new \in Seq(C), Between(a, p, cut, put, new)
    PROVE  More(a, p, cut, put, Len(put)) = new
<1> DEFINE k == Len(put)
           got == More(a, p, cut, put, k)
<1>1. Len(a) \in Nat /\ k \in Nat /\ k \in 0 .. k /\ Len(a) - cut + k = Len(new) /\ Len(new) \in Nat
  BY DEF Between
<1>2. got \in Seq(C) /\ Len(got) = Len(a) - cut + k
  <2>1. \A i \in 0 .. Len(put) :
          More(a, p, cut, put, i) \in Seq(C) /\ Len(More(a, p, cut, put, i)) = Len(a) - cut + i
    BY MoreType
  <2> QED
    BY <1>1, <2>1
<1>3. ASSUME NEW j \in 1 .. Len(new) PROVE got[j] = new[j]
  <2>1. j \in 1 .. Len(a) - cut + k
    BY <1>1
  <2>2. got[j] = IF j <= p THEN a[j] ELSE IF j <= p + k THEN put[j - p] ELSE a[j - k + cut]
    BY <2>1 DEF More
  <2>3. CASE j <= p
    BY <2>2, <2>3 DEF Between
  <2>4. CASE j > p /\ j <= p + k
    <3>1. j - p \in 1 .. k /\ p + (j - p) = j
      BY <1>1, <2>4
    <3>2. put[j - p] = new[j]
      BY <3>1 DEF Between
    <3> HIDE DEF got, k
    <3> QED
      BY <1>1, <2>2, <2>4, <3>2
  <2>5. CASE j > p + k
    <3> DEFINE i == Len(new) - j
    <3> HIDE DEF k, got
    <3>1. /\ i \in 0 .. Len(a) - (p + cut) - 1
          /\ Len(new) - i = j /\ Len(a) - i = j - k + cut
      BY <1>1, <2>5
    <3> HIDE DEF i
    <3>2. a[j - k + cut] = new[j]
      BY <3>1 DEF Between
    <3> QED
      BY <1>1, <2>2, <2>5, <3>2
  <2> HIDE DEF got, k
  <2> QED
    BY <1>1, <2>3, <2>4, <2>5
<1> HIDE DEF got
<1>4. got = new
  BY <1>1, <1>2, <1>3, SeqEqual
<1> QED
  BY <1>4 DEF got

\* R takes dels for the deletions of cut elements behind place p, from the last to the
\* first, and puts for the insertions of put there, from the first to the last.
Asks(C, R, p, cut, put, dels, puts) ==
    /\ Len(dels) = cut /\ Len(puts) = Len(put)
    /\ \A s \in Seq(C), d \in 1 .. cut :
         CutAt(s, p + cut - d) \in Seq(C) => <<s, dels[d], CutAt(s, p + cut - d)>> \in R
    /\ \A s \in Seq(C), i \in 1 .. Len(put) :
         PutAt(s, p + i - 1, put[i]) \in Seq(C) => <<s, puts[i], PutAt(s, p + i - 1, put[i])>> \in R

\* They lead from the one text to the other.
LEMMA EditLeads ==
    ASSUME NEW C, NEW a \in Seq(C), NEW p \in Nat, NEW cut \in Nat, p + cut <= Len(a),
           NEW put \in Seq(C), NEW R, NEW M, NEW dels \in Seq(M), NEW puts \in Seq(M),
           Asks(C, R, p, cut, put, dels, puts)
    PROVE  Leads(Seq(C), R, a, dels \o puts, More(a, p, cut, put, Len(put)))
<1> DEFINE k == Len(put)
           Cut(d) == Fewer(a, p, cut, d)
           Put(i) == More(a, p, cut, put, i)
<1>1. k \in Nat
  OBVIOUS
<1>2. /\ \A d \in 0 .. cut : Cut(d) \in Seq(C)
      /\ Cut(0) = a /\ \A d \in 1 .. cut : CutAt(Cut(d - 1), p + cut - d) = Cut(d)
  BY FewerProperties
<1>3. /\ \A i \in 0 .. k : Put(i) \in Seq(C)
      /\ Put(0) = Cut(cut) /\ \A i \in 1 .. k : PutAt(Put(i - 1), p + i - 1, put[i]) = Put(i)
  <2>1. \A i \in 0 .. k : Put(i) \in Seq(C)
    BY MoreType
  <2>2. Put(0) = Cut(cut)
    BY MoreFirst
  <2>3. \A i \in 1 .. k : PutAt(Put(i - 1), p + i - 1, put[i]) = Put(i)
    BY MoreNext
  <2> QED
    BY <2>1, <2>2, <2>3
<1> HIDE DEF Cut, Put
<1>4. Leads(Seq(C), R, a, dels, Cut(cut))
  <2> DEFINE S == [d \in 0 .. cut |-> Cut(d)]
  <2>1. S \in [0 .. cut -> Seq(C)] /\ S[0] = a /\ S[cut] = Cut(cut)
    BY <1>2
  <2>2. ASSUME NEW d \in 1 .. cut PROVE <<S[d - 1], dels[d], S[d]>> \in R
    <3>1. d - 1 \in 0 .. cut /\ d \in 0 .. cut
      OBVIOUS
    <3>2. S[d - 1] = Cut(d - 1) /\ S[d] = Cut(d) /\ Cut(d - 1) \in Seq(C) /\ Cut(d) \in Seq(C)
      BY <1>2, <3>1
    <3>3. CutAt(Cut(d - 1), p + cut - d) = Cut(d)
      BY <1>2
    <3> HIDE DEF S
    <3> QED
      BY <3>2, <3>3 DEF Asks
  <2> HIDE DEF S
  <2> QED
    BY <2>1, <2>2 DEF Leads, Asks
<1>5. Leads(Seq(C), R, Cut(cut), puts, Put(k))
  <2> DEFINE S == [i \in 0 .. k |-> Put(i)]
  <2>1. S \in [0 .. k -> Seq(C)] /\ S[0] = Cut(cut) /\ S[k] = Put(k)
    BY <1>1, <1>3
  <2>2. ASSUME NEW i \in 1 .. k PROVE <<S[i - 1], puts[i], S[i]>> \in R
    <3>1. i - 1 \in 0 .. k /\ i \in 0 .. k
      BY <1>1
    <3>2. S[i - 1] = Put(i - 1) /\ S[i] = Put(i) /\ Put(i - 1) \in Seq(C) /\ Put(i) \in Seq(C)
      BY <1>3, <3>1
    <3>3. PutAt(Put(i - 1), p + i - 1, put[i]) = Put(i)
      BY <1>3
    <3> HIDE DEF S
    <3> QED
      BY <3>2, <3>3 DEF Asks
  <2> HIDE DEF S
  <2> QED
    BY <2>1, <2>2 DEF Leads, Asks
<1> QED
  BY <1>4, <1>5, LeadsOn DEF Put

\* That is the ends of a with put between them.
LEMMA ReplacedIs ==
    ASSUME NEW C, NEW a \in Seq(C), NEW p \in Nat, NEW cut \in Nat, p + cut <= Len(a),
           NEW put \in Seq(C)
    PROVE  SubSeq(a, 1, p) \o put \o SubSeq(a, p + cut + 1, Len(a)) = More(a, p, cut, put, Len(put))
<1> DEFINE front == SubSeq(a, 1, p)
           back == SubSeq(a, p + cut + 1, Len(a))
           both == front \o put
           new == both \o back
           e == Len(a) - (p + cut)
           h == Len(put)
<1>1. Len(a) \in Nat /\ h \in Nat /\ e \in Nat /\ Len(a) = p + cut + e
  OBVIOUS
<1>2. front \in Seq(C) /\ Len(front) = p /\ \A j \in 1 .. p : front[j] = a[j]
  <2>1. \A i \in 1 .. p : a[i] \in C
    OBVIOUS
  <2> QED
    BY <2>1, SubSeqProperties
<1>3. back \in Seq(C) /\ Len(back) = e /\ \A j \in 1 .. e : back[j] = a[p + cut + j]
  <2>1. \A i \in p + cut + 1 .. Len(a) : a[i] \in C
    OBVIOUS
  <2>2. p + cut + 1 \in Int /\ Len(a) \in Int
    OBVIOUS
  <2>3. /\ back \in Seq(C)
        /\ Len(back) = IF p + cut + 1 <= Len(a) THEN Len(a) - (p + cut + 1) + 1 ELSE 0
        /\ \A i \in 1 .. Len(a) - (p + cut + 1) + 1 : back[i] = a[p + cut + 1 + i - 1]
    BY <2>1, <2>2, SubSeqProperties
  <2> HIDE DEF back
  <2>4. Len(back) = e
    BY <2>2, <2>3
  <2>5. ASSUME NEW j \in 1 .. e PROVE back[j] = a[p + cut + j]
    <3>1. j \in 1 .. Len(a) - (p + cut + 1) + 1 /\ p + cut + 1 + j - 1 = p + cut + j
      OBVIOUS
    <3> QED
      BY <2>3, <3>1
  <2> QED
    BY <2>3, <2>4, <2>5
<1> HIDE DEF front, back, e
<1>4. /\ both \in Seq(C) /\ Len(both) = p + h
      /\ \A i \in 1 .. p + h : both[i] = IF i <= p THEN front[i] ELSE put[i - p]
  <2>1. both \in Seq(C) /\ Joined(both, front, put, p, h)
    BY <1>1, <1>2, ConcatPlaces
  <2> QED
    BY <2>1 DEF Joined
<1> HIDE DEF both, h
<1>5. /\ new \in Seq(C) /\ Len(new) = p + h + e
      /\ \A i \in 1 .. p + h + e : new[i] = IF i <= p + h THEN both[i] ELSE back[i - (p + h)]
  <2>1. p + h \in Nat
    BY <1>1
  <2>2. new \in Seq(C) /\ Joined(new, both, back, p + h, e)
    BY <1>1, <1>3, <1>4, <2>1, ConcatPlaces
  <2> QED
    BY <2>2 DEF Joined
<1> HIDE DEF new
<1>6. Between(a, p, cut, put, new)
  <2>1. Len(new) = p + Len(put) + (Len(a) - (p + cut))
    BY <1>1, <1>5 DEF h, e
  <2>2. ASSUME NEW j \in 1 .. Len(put) PROVE put[j] = new[p + j]
    <3>1. p + j \in 1 .. p + h + e /\ p + j <= p + h /\ ~(p + j <= p) /\ (p + j) - p = j /\ p + j \in 1 .. p + h
      BY <1>1 DEF h
    <3> QED
      BY <1>4, <1>5, <3>1
  <2>3. ASSUME NEW j \in 1 .. p PROVE a[j] = new[j]
    <3>1. j \in 1 .. p + h + e /\ j <= p + h /\ j <= p /\ j \in 1 .. p + h
      BY <1>1
    <3> QED
      BY <1>2, <1>4, <1>5, <3>1
  <2>4. ASSUME NEW j \in 0 .. Len(a) - (p + cut) - 1 PROVE a[Len(a) - j] = new[Len(new) - j]
    <3>1. /\ Len(new) - j \in 1 .. p + h + e /\ ~(Len(new) - j <= p + h)
          /\ Len(new) - j - (p + h) \in 1 .. e /\ p + cut + (Len(new) - j - (p + h)) = Len(a) - j
      BY <1>1, <1>5 DEF e
    <3> QED
      BY <1>3, <1>5, <3>1
  <2> QED
    BY <2>1, <2>2, <2>3, <2>4 DEF Between
<1>7. More(a, p, cut, put, Len(put)) = new
  BY <1>5, <1>6, MoreLast
<1> QED
  BY <1>7 DEF new, both, front, back

-----------------------------------------------------------------------------
(***************************************************************************)
(* Two sequences that are changed alike, and elements with another name.   *)
(***************************************************************************)

\* Every place of a2 and v2 is one that a and v had, or has the same of X in both.
Alike(a2, v2, a, v, X) ==
    /\ Len(a2) = Len(v2)
    /\ \A i \in DOMAIN a2 :
        \/ a2[i] = v2[i] /\ a2[i] \in X
        \/ \E j \in DOMAIN a : a2[i] = a[j] /\ v2[i] = v[j]

\* The same element is put into both.
LEMMA PutAlike ==
    ASSUME NEW C, NEW a \in Seq(C), NEW v \in Seq(C), Len(a) = Len(v), NEW pos \in Nat, NEW x \in C
    PROVE  Alike(PutAt(a, pos, x), PutAt(v, pos, x), a, v, {x})
<1> DEFINE p == IF pos > Len(a) THEN Len(a) ELSE pos
           b == PutAt(a, pos, x)
           w == PutAt(v, pos, x)
<1>1. p \in Nat /\ p <= Len(a) /\ Len(a) \in Nat
  OBVIOUS
<1>2. Len(b) = Len(a) + 1 /\ Len(w) = Len(v) + 1 /\ b \in Seq(C) /\ w \in Seq(C)
  BY PutAnywhere
<1>3. Spliced(b, a, p, x) /\ Spliced(w, v, p, x)
  <2>1. Spliced(b, a, p, x)
    BY PutPlaces
  <2>2. Spliced(w, v, IF pos > Len(v) THEN Len(v) ELSE pos, x)
    BY PutPlaces
  <2> QED
    BY <2>1, <2>2
<1> HIDE DEF p, b, w
<1>4. ASSUME NEW i \in DOMAIN b
      PROVE  \/ b[i] = w[i] /\ b[i] \in {x}
             \/ \E j \in DOMAIN a : b[i] = a[j] /\ w[i] = v[j]
  <2>1. i \in 1 .. Len(a) + 1
    BY <1>2
  <2>2. CASE i <= p
    <3>1. i \in DOMAIN a
      BY <1>1, <2>1, <2>2
    <3> QED
      BY <1>3, <2>1, <2>2, <3>1 DEF Spliced
  <2>3. CASE i = p + 1
    BY <1>1, <1>3, <2>1, <2>3 DEF Spliced
  <2>4. CASE i > p + 1
    <3>1. i - 1 \in DOMAIN a
      BY <1>1, <2>1, <2>4
    <3>2. ~(i <= p) /\ i # p + 1 /\ i \in 1 .. Len(v) + 1
      BY <1>1, <2>1, <2>4
    <3> QED
      BY <1>3, <2>1, <3>1, <3>2 DEF Spliced
  <2> QED
    BY <1>1, <2>1, <2>2, <2>3, <2>4
<1> QED
  BY <1>2, <1>4 DEF Alike, b, w

\* What is cut out of both at one place leaves them alike.
LEMMA CutAlike ==
    ASSUME NEW C, NEW a \in Seq(C), NEW v \in Seq(C), Len(a) = Len(v), NEW pos \in Nat, NEW X
    PROVE  Alike(CutAt(a, pos), CutAt(v, pos), a, v, X)
<1>1. CASE pos >= Len(a)
  <2>1. CutAt(a, pos) = a /\ CutAt(v, pos) = v
    BY <1>1, CutNothing
  <2> QED
    BY <2>1 DEF Alike
<1>2. CASE pos < Len(a)
  <2> DEFINE b == CutAt(a, pos)
             w == CutAt(v, pos)
  <2>1. pos \in 0 .. Len(a) - 1 /\ pos \in 0 .. Len(v) - 1 /\ Len(a) \in Nat
    BY <1>2
  <2>2. Without(b, a, pos) /\ Without(w, v, pos) /\ b \in Seq(C)
    BY <2>1, CutProperties
  <2> HIDE DEF b, w
  <2>3. ASSUME NEW i \in DOMAIN b
        PROVE  \E j \in DOMAIN a : b[i] = a[j] /\ w[i] = v[j]
    <3>1. i \in 1 .. Len(a) - 1 /\ i \in DOMAIN a /\ i + 1 \in DOMAIN a
      BY <2>1, <2>2 DEF Without
    <3> QED
      BY <2>1, <2>2, <3>1 DEF Without
  <2> QED
    BY <2>2, <2>3 DEF Alike, Without, b, w
<1> QED
  BY <1>1, <1>2

\* b is a, with the first i elements of put for cut elements behind place p.
Mixed(b, a, p, cut, put, i) ==
    /\ Len(b) = Len(a) - cut + i
    /\ \A j \in 1 .. Len(a) - cut + i :
        b[j] = IF j <= p THEN a[j] ELSE IF j <= p + i THEN put[j - p] ELSE a[j - i + cut]

\* More makes such a sequence.
LEMMA MoreMixed ==
    ASSUME NEW C, NEW a \in Seq(C), NEW p \in Nat, NEW cut \in Nat, p + cut <= Len(a),
           NEW put \in Seq(C)
    PROVE  /\ More(a, p, cut, put, Len(put)) \in Seq(C)
           /\ Mixed(More(a, p, cut, put, Len(put)), a, p, cut, put, Len(put))
<1>1. ASSUME NEW i \in 0 .. Len(put)
      PROVE  More(a, p, cut, put, i) \in Seq(C) /\ Mixed(More(a, p, cut, put, i), a, p, cut, put, i)
  BY MoreIs DEF Mixed
<1>2. Len(put) \in 0 .. Len(put)
  OBVIOUS
<1> QED
  BY <1>1, <1>2

\* s with id for what was c.
Rename(s, c, id) == [i \in DOMAIN s |-> IF s[i] = c THEN id ELSE s[i]]

\* What gets another name keeps its place.
LEMMA RenameType ==
    ASSUME NEW C, NEW s \in Seq(C), NEW c, NEW id \in C
    PROVE  Rename(s, c, id) \in Seq(C) /\ Len(Rename(s, c, id)) = Len(s)
           /\ DOMAIN Rename(s, c, id) = DOMAIN s
<1>1. Len(s) \in Nat /\ DOMAIN s = 1 .. Len(s)
  OBVIOUS
<1>2. Rename(s, c, id) \in [1 .. Len(s) -> C]
  BY <1>1 DEF Rename
<1> QED
  BY <1>1, <1>2

\* It makes no difference whether it is put in before or after.
LEMMA RenamePut ==
    ASSUME NEW C, NEW s \in Seq(C), NEW c, NEW id \in C, NEW pos \in Nat, NEW x \in C, NEW y \in C,
           y = IF x = c THEN id ELSE x
    PROVE  Rename(PutAt(s, pos, x), c, id) = PutAt(Rename(s, c, id), pos, y)
<1> DEFINE b == PutAt(s, pos, x)
           z == Rename(s, c, id)
           w == PutAt(z, pos, y)
           p == IF pos > Len(s) THEN Len(s) ELSE pos
           u == Rename(b, c, id)
<1>1. z \in Seq(C) /\ Len(z) = Len(s) /\ Len(s) \in Nat /\ p \in Nat /\ p <= Len(s)
  BY RenameType
<1>2. b \in Seq(C) /\ Spliced(b, s, p, x)
  BY PutAnywhere, PutPlaces
<1>3. w \in Seq(C) /\ Spliced(w, z, p, y)
  <2>1. Spliced(w, z, IF pos > Len(z) THEN Len(z) ELSE pos, y)
    <3> HIDE DEF z
    <3> QED
      BY <1>1, PutPlaces
  <2>2. w \in Seq(C)
    <3> HIDE DEF z
    <3> QED
      BY <1>1, PutAnywhere
  <2> QED
    BY <1>1, <2>1, <2>2
<1>4. \A i \in 1 .. Len(s) : z[i] = IF s[i] = c THEN id ELSE s[i]
  BY DEF Rename
<1>5. u \in Seq(C) /\ Len(u) = Len(b) /\ DOMAIN u = DOMAIN b
  <2> HIDE DEF b
  <2> QED
    BY <1>2, RenameType
<1>6. \A i \in DOMAIN b : u[i] = IF b[i] = c THEN id ELSE b[i]
  BY DEF Rename
<1> HIDE DEF b, z, w, p, u
<1>7. Len(u) = Len(w)
  BY <1>1, <1>2, <1>3, <1>5 DEF Spliced
<1>8. ASSUME NEW i \in 1 .. Len(u) PROVE u[i] = w[i]
  <2>1. i \in 1 .. Len(s) + 1 /\ i \in 1 .. Len(z) + 1 /\ i \in DOMAIN b
    BY <1>1, <1>2, <1>5 DEF Spliced
  <2>2. CASE i <= p
    <3>1. i \in 1 .. Len(s)
      BY <1>1, <2>1, <2>2
    <3> QED
      BY <1>2, <1>3, <1>4, <1>6, <2>1, <2>2, <3>1 DEF Spliced
  <2>3. CASE i = p + 1
    <3>1. ~(i <= p)
      BY <1>1, <2>3
    <3> QED
      BY <1>2, <1>3, <1>6, <2>1, <2>3, <3>1 DEF Spliced
  <2>4. CASE i > p + 1
    <3>1. ~(i <= p) /\ i # p + 1 /\ i - 1 \in 1 .. Len(s)
      BY <1>1, <2>1, <2>4
    <3> QED
      BY <1>2, <1>3, <1>4, <1>6, <2>1, <3>1 DEF Spliced
  <2> QED
    BY <1>1, <2>1, <2>2, <2>3, <2>4
<1>9. u = w
  BY <1>3, <1>5, <1>7, <1>8, SeqEqual
<1> QED
  BY <1>9 DEF u, w, b, z

\* A name is given before or after a character is cut out.
LEMMA RenameCut ==
    ASSUME NEW C, NEW s \in Seq(C), NEW c, NEW id \in C, NEW pos \in Nat
    PROVE  Rename(CutAt(s, pos), c, id) = CutAt(Rename(s, c, id), pos)
<1> DEFINE b == CutAt(s, pos)
           z == Rename(s, c, id)
           w == CutAt(z, pos)
           u == Rename(b, c, id)
<1>1. z \in Seq(C) /\ Len(z) = Len(s) /\ Len(s) \in Nat
  BY RenameType
<1>2. CASE pos >= Len(s)
  <2>1. b = s
    BY <1>2, CutNothing
  <2>2. w = z
    <3> HIDE DEF z
    <3> QED
      BY <1>1, <1>2, CutNothing
  <2> QED
    BY <2>1, <2>2
<1>3. CASE pos < Len(s)
  <2>1. pos \in 0 .. Len(s) - 1
    BY <1>1, <1>3
  <2>2. b \in Seq(C) /\ Without(b, s, pos)
    BY <2>1, CutProperties
  <2>3. w \in Seq(C) /\ Without(w, z, pos)
    <3> HIDE DEF z
    <3> QED
      BY <1>1, <2>1, CutProperties
  <2>4. \A i \in 1 .. Len(s) : z[i] = IF s[i] = c THEN id ELSE s[i]
    BY DEF Rename
  <2>5. u \in Seq(C) /\ Len(u) = Len(b) /\ DOMAIN u = DOMAIN b
    <3> HIDE DEF b
    <3> QED
      BY <2>2, RenameType
  <2>6. \A i \in DOMAIN b : u[i] = IF b[i] = c THEN id ELSE b[i]
    BY DEF Rename
  <2> HIDE DEF b, z, w, u
  <2>7. Len(u) = Len(w)
    BY <1>1, <2>2, <2>3, <2>5 DEF Without
  <2>8. ASSUME NEW i \in 1 .. Len(u) PROVE u[i] = w[i]
    <3>1. /\ i \in 1 .. Len(s) - 1 /\ i \in 1 .. Len(z) - 1 /\ i \in DOMAIN b
          /\ i \in 1 .. Len(s) /\ i + 1 \in 1 .. Len(s)
      BY <1>1, <2>2, <2>5 DEF Without
    <3> QED
      BY <2>2, <2>3, <2>4, <2>6, <3>1 DEF Without
  <2>9. u = w
    BY <2>3, <2>5, <2>7, <2>8, SeqEqual
  <2> QED
    BY <2>9 DEF u, w, b, z
<1> QED
  BY <1>1, <1>2, <1>3

\* Where c is not, nothing changes.
LEMMA RenameNone ==
    ASSUME NEW C, NEW s \in Seq(C), NEW c, NEW id \in C, \A i \in DOMAIN s : s[i] # c
    PROVE  Rename(s, c, id) = s
<1>1. Rename(s, c, id) \in Seq(C) /\ Len(Rename(s, c, id)) = Len(s)
  BY RenameType
<1>2. \A i \in 1 .. Len(s) : Rename(s, c, id)[i] = s[i]
  BY DEF Rename
<1> HIDE DEF Rename
<1> QED
  BY <1>1, <1>2, SeqEqual

-----------------------------------------------------------------------------
(***************************************************************************)
(* What a step puts into the channels.                                     *)
(***************************************************************************)

\* The two kinds of operation.
LEMMA OpKinds ==
    ASSUME NEW op \in Op
    PROVE  \/ op.type = "insert" /\ op \in InsertOp
           \/ op.type = "delete" /\ op \in DeleteOp
BY DEF Op, InsertOp, DeleteOp

\* A message whose full_sync has an identifier for every character.
Matched(m) == m \in Message /\ (m.type = "full_sync" => Len(m.nodeIDs) = Len(m.content))

\* What a message is, by its type.
LEMMA MessageTypes ==
    ASSUME NEW m \in Message
    PROVE  /\ IsOp(m) => m \in Op
           /\ m.type = "full_sync" => m \in FullSync
           /\ m.type = "replay_sync" => m \in ReplaySync
           /\ IsOp(m) \/ m.type \in {"full_sync", "replay_sync", "signal"}
           /\ IsOp(m) => m.type \notin {"full_sync", "replay_sync", "signal"}
           /\ m.seq \in Nat
BY DEF Message, Op, InsertOp, DeleteOp, FullSync, ReplaySync, Signal, IsOp

\* Channel q became r: it kept all it had, and may have got m.
Adds(q, r, m) ==
    /\ \A i \in DOMAIN q : i \in DOMAIN r /\ r[i] = q[i]
    /\ \A j \in DOMAIN r : j \in DOMAIN q \/ r[j] = m
    /\ Len(q) <= SendBuf => Len(r) <= SendBuf

\* What a room may send: an operation has the next number.
Sendable(m) == Matched(m) /\ (IsOp(m) => live /\ m.seq = seqNum + 1)

\* safeSend appends a message, or drops it when the channel is full.
LEMMA SafeSendAdds ==
    ASSUME NEW q \in Seq(Message), NEW m \in Message
    PROVE  /\ Adds(q, safeSend(q, m), m) /\ Adds(q, q, m)
           /\ Len(q) < SendBuf => \E j \in DOMAIN safeSend(q, m) : safeSend(q, m)[j] = m
<1>1. SendBuf \in Nat
  BY BufferAssumption
<1>2. CASE Len(q) < SendBuf
  <2>1. safeSend(q, m) = Append(q, m)
    BY <1>2 DEF safeSend
  <2> DEFINE r == Append(q, m)
  <2>2. /\ r \in Seq(Message) /\ Len(r) = Len(q) + 1
        /\ \A i \in 1 .. Len(q) : r[i] = q[i]
        /\ r[Len(q) + 1] = m
    BY AppendProperties
  <2> HIDE DEF r
  <2>3. DOMAIN r = 1 .. Len(q) + 1 /\ DOMAIN q = 1 .. Len(q)
    BY <2>2
  <2>4. Adds(q, r, m) /\ Adds(q, q, m)
    BY <1>1, <1>2, <2>2, <2>3 DEF Adds
  <2>5. \E j \in DOMAIN r : r[j] = m
    <3>1. Len(q) + 1 \in DOMAIN r
      BY <2>3
    <3> QED
      BY <2>2, <3>1
  <2> QED
    BY <2>1, <2>4, <2>5 DEF r
<1>3. CASE ~(Len(q) < SendBuf)
  BY <1>3 DEF safeSend, Adds
<1> QED
  BY <1>2, <1>3

\* A broadcast does that to every channel, or to some.
LEMMA BroadcastAdds ==
    ASSUME TypeOK, NEW to, NEW m \in Message
    PROVE  \A t \in Clients : Adds(send[t], Broadcast(to, m)[t], m)
<1> SUFFICES ASSUME NEW t \in Clients
             PROVE  Adds(send[t], Broadcast(to, m)[t], m)
  OBVIOUS
<1>1. send[t] \in Seq(Message)
  BY DEF TypeOK
<1>2. Broadcast(to, m)[t] \in {safeSend(send[t], m), send[t]}
  BY DEF Broadcast
<1> QED
  BY <1>1, <1>2, SafeSendAdds

\* A signal is a message that the room sends.
LEMMA SignalSendable == Sendable(Signal)
BY SignalProperties DEF Sendable, Matched, Signal

\* A full_sync has one identifier for every character.
LEMMA FullSyncMatched ==
    ASSUME seqNum' \in Nat, doc' \in Seq(Node(Chars))
    PROVE  Sendable(buildFullSync) /\ buildFullSync.type = "full_sync"
<1>1. buildFullSync \in Message /\ buildFullSync.type = "full_sync"
  BY FullSyncType DEF buildFullSync
<1>2. Len(buildFullSync.nodeIDs) = Len(buildFullSync.content)
  BY DocStringType, VisibleNodeIDsType DEF buildFullSync
<1> QED
  BY <1>1, <1>2 DEF Sendable, Matched, IsOp

\* A greeting is a full_sync or a replay_sync whose operations end at its number.
LEMMA GreetingMatched ==
    ASSUME seqNum' \in Nat, opLog' \in Seq(Op), doc' \in Seq(Node(Chars)),
           NEW since \in Nat, NEW offlineEdits \in BOOLEAN
    PROVE  /\ Sendable(Greeting(since, offlineEdits))
           /\ Greeting(since, offlineEdits).type \in {"full_sync", "replay_sync"}
<1> DEFINE g == Greeting(since, offlineEdits)
<1>1. g \in Message
  BY GreetingType
<1>2. CASE g = buildFullSync
  BY <1>2, FullSyncMatched
<1>3. CASE g # buildFullSync
  <2>1. g.type = "replay_sync"
    BY <1>3 DEF Greeting
  <2> QED
    BY <1>1, <2>1 DEF Sendable, Matched, IsOp
<1> QED
  BY <1>2, <1>3

\* An operation that is published may be sent, and is sent to all.
LEMMA PublishAdds ==
    ASSUME TypeOK, live, NEW op \in Op, op.seq = seqNum + 1, Publish(op)
    PROVE  /\ Sendable(op)
           /\ \A t \in Clients : Adds(send[t], send'[t], op)
<1>1. op \in Message
  BY MessageKinds
<1>2. op.type # "full_sync"
  BY OpKinds
<1>3. send' = Broadcast(clients, op)
  BY DEF Publish
<1>4. \A t \in Clients : Adds(send[t], Broadcast(clients, op)[t], op)
  BY <1>1, BroadcastAdds
<1> QED
  BY <1>1, <1>2, <1>3, <1>4 DEF Sendable, Matched

\* Channels that stay may be said to have dropped a signal.
LEMMA SameAdds ==
    ASSUME TypeOK, UNCHANGED send
    PROVE  \A t \in Clients : Adds(send[t], send'[t], Signal)
BY SafeSendAdds, SignalProperties DEF TypeOK

\* A room that has a client in it, or a batch, is there.
LEMMA HandleOpAdds ==
    ASSUME RoomInv, NEW c \in Clients, NEW r \in Request, HandleOp(c, r)
    PROVE  \E m : Sendable(m) /\ \A t \in Clients : Adds(send[t], send'[t], m)
<1>1. live
  BY DEF RoomInv, Occupied, HandleOp, Free
<1>2. PICK op \in Op : op.seq = seqNum + 1 /\ Publish(op)
  BY ApplyOpEffect DEF RoomInv, HandleOp
<1> QED
  BY <1>1, <1>2, PublishAdds DEF RoomInv

\* One operation of a batch sends one message.
LEMMA BatchStepAdds ==
    ASSUME RoomInv, BatchStep
    PROVE  \E m : Sendable(m) /\ \A t \in Clients : Adds(send[t], send'[t], m)
<1>1. live /\ task.who \in Clients /\ Head(task.todo) \in Request
  BY TaskTypes DEF RoomInv, BatchStep, Unlocked
<1>2. CASE applyOp(task.who, Head(task.todo))
  <2>1. PICK op \in Op : op.seq = seqNum + 1 /\ Publish(op)
    BY <1>1, <1>2, ApplyOpEffect DEF RoomInv
  <2> QED
    BY <1>1, <2>1, PublishAdds DEF RoomInv
<1>3. CASE UNCHANGED send
  BY <1>3, SameAdds, SignalSendable DEF RoomInv
<1> QED
  BY <1>2, <1>3 DEF BatchStep

\* A restore sends one full_sync, to whoever has room for it.
LEMMA RestoreAdds ==
    ASSUME RoomInv, RoomInv', NEW c \in Clients, NEW content, HandleRestore(c, content)
    PROVE  \E m : /\ Sendable(m) /\ m.type = "full_sync"
                  /\ \A t \in Clients : Adds(send[t], send'[t], m)
                  /\ Len(send[c]) < SendBuf => \E j \in DOMAIN send'[c] : send'[c][j] = m
<1> DEFINE m == buildFullSync
<1>1. Sendable(m) /\ m.type = "full_sync"
  BY FullSyncMatched DEF RoomInv, TypeOK
<1>2. m \in Message
  BY <1>1 DEF Sendable, Matched
<1>3. send' = [send EXCEPT ![c] = safeSend(@, m)]
  BY DEF HandleRestore
<1>4. send \in [Clients -> Seq(Message)]
  BY DEF RoomInv, TypeOK
<1> HIDE DEF m
<1>5. ASSUME NEW t \in Clients PROVE Adds(send[t], send'[t], m)
  BY <1>2, <1>3, <1>4, SafeSendAdds
<1>6. Len(send[c]) < SendBuf => \E j \in DOMAIN send'[c] : send'[c][j] = m
  BY <1>2, <1>3, <1>4, SafeSendAdds
<1> QED
  BY <1>1, <1>5, <1>6

\* A connection that ends takes its channel with it, and tells the others.
LEMMA LeaveAdds ==
    ASSUME RoomInv, NEW c \in Clients, Leave(c)
    PROVE  /\ send'[c] = << >>
           /\ \A t \in Clients \ {c} : Adds(send[t], send'[t], Signal)
<1>1. send' = [Broadcast(clients', Signal) EXCEPT ![c] = << >>]
  BY DEF Leave
<1>2. \A t \in Clients : Adds(send[t], Broadcast(clients', Signal)[t], Signal)
  BY BroadcastAdds, SignalProperties DEF RoomInv
<1> QED
  BY <1>1, <1>2 DEF Broadcast

\* A connection starts with its greeting, and the others are told of it.
LEMMA JoinAdds ==
    ASSUME RoomInv, RoomInv', NEW c \in Clients, NEW since \in Nat, NEW offlineEdits \in BOOLEAN,
           Join(c, since, offlineEdits)
    PROVE  /\ send[c] = << >>
           /\ send'[c] # << >>
           /\ Len(send'[c]) <= SendBuf
           /\ \A j \in DOMAIN send'[c] : Sendable(send'[c][j]) /\ ~IsOp(send'[c][j])
           /\ \A t \in Clients \ {c} : Adds(send[t], send'[t], Signal)
<1> DEFINE g == Greeting(since, offlineEdits)
<1>1. Sendable(g) /\ ~IsOp(g)
  BY GreetingMatched DEF RoomInv, TypeOK, IsOp
<1>2. g \in Message
  BY <1>1 DEF Sendable, Matched
<1> HIDE DEF g
<1>3. send' = [Broadcast(clients, Signal) EXCEPT ![c] = safeSend(<<g>>, Signal)]
  BY DEF Join, g
<1>4. send'[c] = safeSend(<<g>>, Signal)
  BY <1>3 DEF Broadcast
<1>5. \A t \in Clients \ {c} : Adds(send[t], send'[t], Signal)
  <2>1. \A t \in Clients : Adds(send[t], Broadcast(clients, Signal)[t], Signal)
    BY BroadcastAdds, SignalProperties DEF RoomInv
  <2> QED
    BY <1>3, <2>1 DEF Broadcast
<1>6. Adds(<<g>>, send'[c], Signal)
  <2>1. <<g>> \in Seq(Message)
    BY <1>2
  <2> QED
    BY <1>4, <2>1, SafeSendAdds, SignalProperties
<1>7. send'[c] # << >> /\ Len(send'[c]) <= SendBuf
  <2>1. 1 \in DOMAIN send'[c]
    BY <1>6 DEF Adds
  <2>2. Len(<<g>>) <= SendBuf
    BY BufferAssumption
  <2> QED
    BY <1>6, <2>1, <2>2 DEF Adds
<1>8. \A j \in DOMAIN send'[c] : send'[c][j] \in {g, Signal}
  BY <1>6 DEF Adds
<1>9. send[c] = << >>
  BY DEF RoomInv, Occupied, Join
<1> QED
  BY <1>1, <1>5, <1>7, <1>8, <1>9, SignalSendable, SignalProperties

\* Whatever a step does, a channel holds what it held or what may be sent, and no
\* more than it can.
LEMMA ChannelStep ==
    ASSUME RoomInv, RoomInv', RoomStep(Seq(Chars)), NEW t \in Clients
    PROVE  /\ \A j \in DOMAIN send'[t] :
                (\E i \in DOMAIN send[t] : send'[t][j] = send[t][i]) \/ Sendable(send'[t][j])
           /\ Len(send[t]) <= SendBuf => Len(send'[t]) <= SendBuf
<1> DEFINE Goal == /\ \A j \in DOMAIN send'[t] :
                        \/ \E i \in DOMAIN send[t] : send'[t][j] = send[t][i]
                        \/ Sendable(send'[t][j])
                   /\ Len(send[t]) <= SendBuf => Len(send'[t]) <= SendBuf
<1>1. send[t] \in Seq(Message)
  BY DEF RoomInv, TypeOK
<1>2. SendBuf \in Nat
  BY BufferAssumption
<1>3. ASSUME NEW m, Sendable(m), Adds(send[t], send'[t], m)
      PROVE  Goal
  <2>1. ASSUME NEW j \in DOMAIN send'[t]
        PROVE  (\E i \in DOMAIN send[t] : send'[t][j] = send[t][i]) \/ Sendable(send'[t][j])
    <3>1. CASE j \in DOMAIN send[t]
      BY <1>3, <3>1 DEF Adds
    <3>2. CASE send'[t][j] = m
      BY <1>3, <3>2
    <3> QED
      BY <1>3, <3>1, <3>2 DEF Adds
  <2> QED
    BY <1>3, <2>1 DEF Adds
<1>4. ASSUME send'[t] = << >> PROVE Goal
  BY <1>2, <1>4
<1>5. ASSUME UNCHANGED send PROVE Goal
  BY <1>5
<1>6. ASSUME NEW c \in Clients, NEW since \in Nat, NEW offlineEdits \in BOOLEAN,
             Join(c, since, offlineEdits)
      PROVE  Goal
  BY <1>3, <1>6, JoinAdds, SignalSendable
<1>7. ASSUME NEW c \in Clients, Leave(c) PROVE Goal
  BY <1>3, <1>4, <1>7, LeaveAdds, SignalSendable
<1>8. ASSUME NEW c \in Clients, NEW content, HandleRestore(c, content) PROVE Goal
  BY <1>3, <1>8, RestoreAdds
<1>9. ASSUME NEW c \in Clients, NEW r \in Request, HandleOp(c, r) PROVE Goal
  BY <1>3, <1>9, HandleOpAdds
<1>10. ASSUME NEW c \in Clients, Chat(c) PROVE Goal
  <2>1. PICK to : send' = Broadcast(to, Signal)
    BY <1>10 DEF Chat
  <2>2. Adds(send[t], send'[t], Signal)
    BY <2>1, BroadcastAdds, SignalProperties DEF RoomInv
  <2> QED
    BY <1>3, <2>2, SignalSendable
<1>11. ASSUME NEW c \in Clients, Pump(c) PROVE Goal
  <2>1. send' = [send EXCEPT ![c] = Tail(@)] /\ send[c] # << >>
    BY <1>11 DEF Pump
  <2>2. CASE t = c
    <3>1. send'[t] = Tail(send[t]) /\ send[t] # << >>
      BY <1>1, <2>1, <2>2 DEF RoomInv, TypeOK
    <3>2. /\ Len(send'[t]) = Len(send[t]) - 1
          /\ send'[t] \in Seq(Message)
          /\ \A j \in 1 .. Len(send'[t]) : send'[t][j] = send[t][j + 1]
      BY <1>1, <3>1, HeadTailProperties
    <3>3. \A j \in DOMAIN send'[t] : j + 1 \in DOMAIN send[t] /\ send'[t][j] = send[t][j + 1]
      BY <1>1, <3>2
    <3> QED
      BY <1>1, <1>2, <3>2, <3>3
  <2>3. CASE t # c
    <3>1. send'[t] = send[t]
      BY <2>1, <2>3 DEF RoomInv, TypeOK
    <3> QED
      BY <3>1
  <2> QED
    BY <2>2, <2>3
<1>12. ASSUME BatchStep PROVE Goal
  BY <1>3, <1>12, BatchStepAdds
<1>13. ASSUME Crash PROVE Goal
  BY <1>4, <1>13 DEF Crash
<1>14. ASSUME NEW c \in Clients, NEW ops, StartBatch(c, ops) PROVE Goal
  BY <1>5, <1>14 DEF StartBatch
<1>15. Goal
  <2> HIDE DEF Goal
  <2> QED
    BY <1>5, <1>6, <1>7, <1>8, <1>9, <1>10, <1>11, <1>12, <1>13, <1>14 DEF RoomStep, vars
<1> QED
  BY <1>15
=============================================================================
