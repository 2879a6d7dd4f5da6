-------------------------- MODULE ClientConnProofs --------------------------
(***************************************************************************)
(* Proofs about ClientConn, for any connections, channel size and number   *)
(* of messages.  The argument: room.mu keeps senders apart, sendMu keeps a *)
(* sender apart from who closes, and only one actor gets past the Once.    *)
(***************************************************************************)
EXTENDS ClientConn, TLAPS

\* Nobody has begun.
LEMMA ConnTypeInit == ASSUME ConnInit PROVE ConnTypeOK
BY ActorAssumption, SizeAssumption DEF ConnInit, ConnTypeOK, Conn, NewConn

\* One connection changes.
LEMMA ConnUpdate ==
    ASSUME ConnTypeOK, NEW c \in Conns, NEW r \in Conn, conn' = [conn EXCEPT ![c] = r]
    PROVE  conn' \in [Conns -> Conn] /\ conn'[c] = r /\ \A d \in Conns \ {c} : conn'[d] = conn[d]
BY DEF ConnTypeOK

\* A connection of which one field changes; the other lemmas put these together.
LEMMA FieldChanges ==
    ASSUME NEW r \in Conn
    PROVE  /\ \A b \in BOOLEAN : /\ [r EXCEPT !.open = b] \in Conn
                                /\ [r EXCEPT !.gone = b] \in Conn
                                /\ [r EXCEPT !.dropped = b] \in Conn
           /\ \A a \in Actors \cup {Nobody} : [r EXCEPT !.sendMu = a] \in Conn
           /\ \A n \in 0 .. SendBuf : [r EXCEPT !.queue = n] \in Conn
           /\ \A S \in SUBSET Conns : [r EXCEPT !.told = S] \in Conn
           /\ \A p \in {"greeting", "joined", "reading", "handling", "leaving", "left",
                       "closing", "ended"} : [r EXCEPT !.reader = p] \in Conn
           /\ [r EXCEPT !.writer = "running"] \in Conn
<1>1. \A b \in BOOLEAN : [r EXCEPT !.open = b] \in Conn
  BY DEF Conn
<1>2. \A b \in BOOLEAN : [r EXCEPT !.gone = b] \in Conn
  BY DEF Conn
<1>3. \A b \in BOOLEAN : [r EXCEPT !.dropped = b] \in Conn
  BY DEF Conn
<1>4. \A a \in Actors \cup {Nobody} : [r EXCEPT !.sendMu = a] \in Conn
  BY DEF Conn
<1>5. \A n \in 0 .. SendBuf : [r EXCEPT !.queue = n] \in Conn
  BY DEF Conn
<1>6. \A S \in SUBSET Conns : [r EXCEPT !.told = S] \in Conn
  BY DEF Conn
<1>7. \A p \in {"greeting", "joined", "reading", "handling", "leaving", "left",
              "closing", "ended"} : [r EXCEPT !.reader = p] \in Conn
  BY DEF Conn
<1>8. [r EXCEPT !.writer = "running"] \in Conn
  BY DEF Conn
<1> QED BY <1>1, <1>2, <1>3, <1>4, <1>5, <1>6, <1>7, <1>8

\* The connections that Start, LeaveRoom, EndRead and Enqueue make.
LEMMA SeveralFields ==
    ASSUME NEW r \in Conn
    PROVE  /\ [r EXCEPT !.reader = "reading", !.writer = "running"] \in Conn
           /\ [r EXCEPT !.reader = "left", !.told = {}, !.dropped = FALSE] \in Conn
           /\ [r EXCEPT !.reader = "ended", !.open = FALSE] \in Conn
           /\ \A n \in 0 .. SendBuf, b \in BOOLEAN, S \in SUBSET Conns :
                [r EXCEPT !.sendMu = Nobody, !.queue = n, !.dropped = b, !.told = S] \in Conn
<1>1. [[r EXCEPT !.reader = "reading"] EXCEPT !.writer = "running"] \in Conn
  BY FieldChanges
<1>2. [[[r EXCEPT !.reader = "left"] EXCEPT !.told = {}] EXCEPT !.dropped = FALSE] \in Conn
  <2>1. [r EXCEPT !.reader = "left"] \in Conn
    BY FieldChanges
  <2>2. [[r EXCEPT !.reader = "left"] EXCEPT !.told = {}] \in Conn
    BY <2>1, FieldChanges
  <2> QED BY <2>2, FieldChanges
<1>3. [[r EXCEPT !.reader = "ended"] EXCEPT !.open = FALSE] \in Conn
  <2>1. [r EXCEPT !.reader = "ended"] \in Conn
    BY FieldChanges
  <2> QED BY <2>1, FieldChanges
<1>4. ASSUME NEW n \in 0 .. SendBuf, NEW b \in BOOLEAN, NEW S \in SUBSET Conns
      PROVE  [[[[r EXCEPT !.sendMu = Nobody] EXCEPT !.queue = n] EXCEPT !.dropped = b]
              EXCEPT !.told = S] \in Conn
  <2>1. [r EXCEPT !.sendMu = Nobody] \in Conn
    BY FieldChanges
  <2>2. [[r EXCEPT !.sendMu = Nobody] EXCEPT !.queue = n] \in Conn
    BY <2>1, FieldChanges
  <2>3. [[[r EXCEPT !.sendMu = Nobody] EXCEPT !.queue = n] EXCEPT !.dropped = b] \in Conn
    BY <2>2, FieldChanges
  <2> QED BY <2>3, FieldChanges
<1> QED BY <1>1, <1>2, <1>3, <1>4

\* Every step keeps the types.
LEMMA ConnTypeNext == ASSUME ConnTypeOK, [ConnNext]_connVars PROVE ConnTypeOK'
<1> USE ActorAssumption, SizeAssumption DEF ConnTypeOK
<1>1. ASSUME NEW c \in Conns, ReaderStep(c) PROVE ConnTypeOK'
  <2>1. CASE Announce(c)
    BY <2>1 DEF Announce, At, Goes, Sent, Holds, Everybody, Conn
  <2>2. CASE Start(c)
    <3> DEFINE r == [conn[c] EXCEPT !.reader = "reading", !.writer = "running"]
    <3>1. r \in Conn
      BY SeveralFields
    <3>2. conn' = [conn EXCEPT ![c] = r]
      BY <2>2 DEF Start, Sent, Holds
    <3> QED BY <2>2, <3>1, <3>2, ConnUpdate DEF Start, Sent, Holds
  <2>3. CASE Handled(c)
    BY <2>3 DEF Handled, At, Goes, Sent, Holds, Conn
  <2>4. CASE ReadFails(c)
    BY <2>4 DEF ReadFails, At, Goes, Conn
  <2>5. CASE LeaveRoom(c)
    <3> DEFINE r == [conn[c] EXCEPT !.reader = "left", !.told = {}, !.dropped = FALSE]
    <3>1. r \in Conn
      BY SeveralFields
    <3>2. conn' = [conn EXCEPT ![c] = r]
      BY <2>5 DEF LeaveRoom, Lock, Actors
    <3> QED BY <2>5, <3>1, <3>2, ConnUpdate DEF LeaveRoom, Lock, Actors
  <2>6. CASE Left(c)
    BY <2>6 DEF Left, At, Goes, Sent, Holds, Conn
  <2>7. CASE CloseOwn(c)
    BY <2>7 DEF CloseOwn, closeSend, EnterOnce, SetClosed, CloseChannel, Actors, Conn
  <2>8. CASE EndRead(c)
    <3> DEFINE r == [conn[c] EXCEPT !.reader = "ended", !.open = FALSE]
    <3>1. r \in Conn
      BY SeveralFields
    <3>2. conn' = [conn EXCEPT ![c] = r]
      BY <2>8 DEF EndRead
    <3> QED BY <2>8, <3>1, <3>2, ConnUpdate DEF EndRead
  <2> QED BY <1>1, <2>1, <2>2, <2>3, <2>4, <2>5, <2>6, <2>7, <2>8 DEF ReaderStep
<1>2. ASSUME NEW c \in Conns, writePump(c) PROVE ConnTypeOK'
  BY <1>2 DEF writePump, Write, WriteFails, WriteClose, Conn
<1>3. ASSUME NEW a \in Conns \cup {Worker}, NEW c \in Conns, LockSend(a, c) PROVE ConnTypeOK'
  BY <1>3 DEF LockSend, Actors, Conn
<1>4. ASSUME NEW a \in Conns \cup {Worker}, NEW c \in Conns, Enqueue(a, c) PROVE ConnTypeOK'
  <2> DEFINE told == IF a \in Conns /\ conn[a].reader \in {"joined", "left"} /\ ~Full(c)
                    THEN clients ELSE conn[c].told
  <2> DEFINE queue == IF Full(c) THEN conn[c].queue ELSE conn[c].queue + 1
  <2> DEFINE dropped == conn[c].dropped \/ Full(c)
  <2> DEFINE r == [conn[c] EXCEPT !.sendMu = Nobody, !.queue = queue,
                                  !.dropped = dropped, !.told = told]
  <2>1. told \in SUBSET Conns /\ queue \in 0 .. SendBuf /\ dropped \in BOOLEAN
    BY DEF Full, Conn
  <2>2. r \in Conn
    <3> HIDE DEF told, queue, dropped
    <3> QED BY <2>1, SeveralFields
  <2>3. conn' = [conn EXCEPT ![c] = r]
    BY <1>4 DEF Enqueue
  <2> QED BY <1>4, <2>2, <2>3, ConnUpdate DEF Enqueue, Holds, Actors
<1>5. ASSUME NEW c \in Conns, CloseOne(c) PROVE ConnTypeOK'
  BY <1>5 DEF CloseOne, closeSend, EnterOnce, SetClosed, CloseChannel, Actors, Conn
<1>6. CASE Reported \/ ShutdownReturns \/ BroadcastToRoom \/ Shutdown \/ Exit
  BY <1>6 DEF Reported, ShutdownReturns, BroadcastToRoom, Shutdown, Exit, Lock, Actors
<1>7. ASSUME NEW c \in Conns, Enter(c) \/ Handle(c) \/ GoAway(c) PROVE ConnTypeOK'
  <2>1. \A place \in {"greeting", "handling"} : [conn[c] EXCEPT !.reader = place] \in Conn
    BY FieldChanges
  <2>2. [conn[c] EXCEPT !.gone = TRUE] \in Conn
    BY FieldChanges
  <2>3. CASE Enter(c)
    BY <2>1, <2>3 DEF Enter, Goes, Lock, Actors
  <2>4. CASE Handle(c)
    BY <2>1, <2>4 DEF Handle, Goes, Lock, Actors
  <2>5. CASE GoAway(c)
    BY <2>2, <2>5 DEF GoAway
  <2> QED BY <1>7, <2>3, <2>4, <2>5
<1>8. CASE UNCHANGED connVars
  BY <1>8 DEF connVars
<1> QED BY <1>1, <1>2, <1>3, <1>4, <1>5, <1>6, <1>7, <1>8 DEF ConnNext, Running, Sending

-----------------------------------------------------------------------------
(***************************************************************************)
(* No panic.                                                               *)
(***************************************************************************)

\* A readPump that has room.mu is where it has locked it.
RoomMuHeld ==
    roomMu \in Conns => conn[roomMu].reader \in {"greeting", "joined", "handling", "left"}

\* Main, or the readPump that ends, runs the function of the Once.
OnceOwner ==
    \A c \in Conns : conn[c].once \in Actors =>
        conn[c].once = Main \/ (conn[c].once = c /\ conn[c].reader = "closing")

\* The channel is closed when the function has run, and the flag is set by then.
ShutLast ==
    \A c \in Conns : (conn[c].shut <=> conn[c].once = "done") /\ (conn[c].shut => conn[c].closed)

\* Who has sendMu and does not close has found the flag unset, and it stays so.
SendersFirst ==
    \A c \in Conns : conn[c].sendMu \in Actors /\ conn[c].sendMu # conn[c].once => ~conn[c].closed

ConnInv ==
    ConnTypeOK /\ RoomMuHeld /\ OnceOwner /\ ShutLast /\ SendersFirst /\ NeverPanics /\ WrittenOut

LEMMA ConnInvInit == ASSUME ConnInit PROVE ConnInv
<1>1. ConnTypeOK
  BY ConnTypeInit
<1>2. /\ roomMu = Nobody /\ panicked = {}
      /\ \A c \in Conns : /\ conn[c].once = "new" /\ conn[c].sendMu = Nobody
                          /\ conn[c].shut = FALSE /\ conn[c].writer = "none"
  BY DEF ConnInit, NewConn
<1>3. Nobody \notin Actors /\ "new" \notin Actors /\ Nobody \notin Conns
  BY ActorAssumption DEF Actors
<1> QED BY <1>1, <1>2, <1>3
        DEF ConnInv, RoomMuHeld, OnceOwner, ShutLast, SendersFirst, NeverPanics, WrittenOut

\* closeSend keeps the invariant, whether Main or the readPump itself calls it.
LEMMA CloseSendInv ==
    ASSUME ConnInv, NEW c \in Conns, NEW a \in {Main, c}, closeSend(a, c),
           a = c => conn[c].reader = "closing", roomMu' = roomMu
    PROVE  RoomMuHeld' /\ OnceOwner' /\ ShutLast' /\ SendersFirst' /\ NeverPanics' /\ WrittenOut'
<1> USE ActorAssumption DEF ConnInv, ConnTypeOK, RoomMuHeld, OnceOwner, ShutLast, SendersFirst,
        NeverPanics, WrittenOut
<1>0. a \in Actors /\ a # "done" /\ a # "new" /\ Nobody \notin Actors
  BY DEF Actors
<1>1. CASE EnterOnce(a, c) /\ UNCHANGED panicked
  BY <1>0, <1>1 DEF EnterOnce, FirstTime, Conn
<1>2. CASE SetClosed(a, c) /\ UNCHANGED panicked
  BY <1>0, <1>2 DEF SetClosed, Conn
<1>3. CASE CloseChannel(a, c) /\ panicked' = panicked \cup {x \in {a} : conn[c].shut}
  <2>1. ~conn[c].shut
    BY <1>0, <1>3 DEF CloseChannel
  <2> QED BY <1>0, <1>3, <2>1 DEF CloseChannel, Conn
<1> QED BY <1>1, <1>2, <1>3 DEF closeSend

\* Who sends does not find the channel closed.
LEMMA EnqueueInv ==
    ASSUME ConnInv, NEW a \in Conns \cup {Worker}, NEW c \in Conns, Enqueue(a, c)
    PROVE  /\ ~conn[c].shut
           /\ RoomMuHeld' /\ OnceOwner' /\ ShutLast' /\ SendersFirst' /\ NeverPanics' /\ WrittenOut'
<1> USE ActorAssumption DEF ConnInv, ConnTypeOK, RoomMuHeld, OnceOwner, ShutLast, SendersFirst,
        NeverPanics, WrittenOut
<1>1. a \in Actors /\ a # Main /\ roomMu = a /\ conn[c].sendMu = a
  BY DEF Enqueue, Holds, Actors
<1>2. conn[c].once # a
  BY <1>1
<1>3. ~conn[c].closed /\ ~conn[c].shut
  BY <1>1, <1>2
<1>4. /\ conn'[c].sendMu = Nobody /\ conn'[c].reader = conn[c].reader
      /\ conn'[c].once = conn[c].once /\ conn'[c].shut = conn[c].shut
      /\ conn'[c].closed = conn[c].closed /\ conn'[c].writer = conn[c].writer
      /\ conn'[c].failed = conn[c].failed
      /\ \A d \in Conns \ {c} : conn'[d] = conn[d]
  BY DEF Enqueue, Conn
<1>5. roomMu' = roomMu /\ panicked' = {}
  BY <1>3 DEF Enqueue
<1>6. RoomMuHeld' /\ OnceOwner' /\ ShutLast' /\ SendersFirst'
  BY <1>4, <1>5
<1>7. WrittenOut'
  BY <1>3, <1>4
<1> QED BY <1>3, <1>5, <1>6, <1>7

\* Every step keeps the invariant.
LEMMA ConnInvNext == ASSUME ConnInv, [ConnNext]_connVars PROVE ConnInv'
<1>0. ConnTypeOK'
  BY ConnTypeNext DEF ConnInv
<1> DEFINE Rest == RoomMuHeld /\ OnceOwner /\ ShutLast /\ SendersFirst /\ NeverPanics /\ WrittenOut
<1> SUFFICES Rest'
  BY <1>0 DEF ConnInv
<1>1. ASSUME NEW c \in Conns, ReaderStep(c) \/ Enter(c) \/ Handle(c) \/ GoAway(c), ~CloseOwn(c)
      PROVE  Rest'
  <2>1. /\ conn'[c].once = conn[c].once /\ conn'[c].shut = conn[c].shut
        /\ conn'[c].closed = conn[c].closed /\ conn'[c].sendMu = conn[c].sendMu
        /\ conn'[c].queue = conn[c].queue /\ conn'[c].failed = conn[c].failed
        /\ conn'[c].writer = conn[c].writer \/ conn'[c].writer = "running"
        /\ \A d \in Conns \ {c} : conn'[d] = conn[d]
        /\ panicked' = panicked
    BY <1>1 DEF ConnInv, ConnTypeOK, Conn, ReaderStep, Announce, Start, Handled, ReadFails, LeaveRoom,
            Left, EndRead, Enter, Handle, GoAway, Goes
  <2>2. conn[c].once \in Actors => conn'[c].once = Main \/ (conn'[c].once = c /\ conn'[c].reader = "closing")
    BY <1>1, ActorAssumption
       DEF ConnInv, ConnTypeOK, Conn, OnceOwner, ReaderStep, Announce, Start, Handled, ReadFails,
           LeaveRoom, Left, EndRead, Enter, Handle, GoAway, Goes, At
  <2>3. RoomMuHeld'
    BY <1>1, ActorAssumption
       DEF ConnInv, ConnTypeOK, Conn, RoomMuHeld, ReaderStep, Announce, Start, Handled, ReadFails,
           LeaveRoom, Left, EndRead, Enter, Handle, GoAway, Goes, At, Lock, Actors
  <2>4. OnceOwner' /\ ShutLast' /\ SendersFirst' /\ NeverPanics' /\ WrittenOut'
    BY <2>1, <2>2 DEF ConnInv, OnceOwner, ShutLast, SendersFirst, NeverPanics, WrittenOut
  <2> QED BY <2>3, <2>4
<1>2. ASSUME NEW c \in Conns, CloseOwn(c) PROVE Rest'
  BY <1>2, CloseSendInv DEF CloseOwn, At
<1>3. ASSUME NEW c \in Conns, CloseOne(c) PROVE Rest'
  <2>1. CASE closeSend(Main, c)
    BY <1>3, <2>1, CloseSendInv, ActorAssumption DEF CloseOne
  <2>2. CASE UNCHANGED <<conn, panicked>>
    BY <1>3, <2>2
       DEF CloseOne, ConnInv, RoomMuHeld, OnceOwner, ShutLast, SendersFirst, NeverPanics, WrittenOut
  <2> QED BY <1>3, <2>1, <2>2 DEF CloseOne
<1>4. ASSUME NEW c \in Conns, writePump(c) PROVE Rest'
  <2>1. /\ conn'[c].once = conn[c].once /\ conn'[c].shut = conn[c].shut
        /\ conn'[c].closed = conn[c].closed /\ conn'[c].sendMu = conn[c].sendMu
        /\ conn'[c].reader = conn[c].reader
        /\ \A d \in Conns \ {c} : conn'[d] = conn[d]
        /\ panicked' = panicked /\ roomMu' = roomMu
    BY <1>4 DEF ConnInv, ConnTypeOK, Conn, writePump, Write, WriteFails, WriteClose
  <2>2. conn'[c].writer = "ended" /\ ~conn'[c].failed => conn'[c].queue = 0 /\ conn'[c].closed
    BY <1>4 DEF ConnInv, ConnTypeOK, Conn, ShutLast, writePump, Write, WriteFails, WriteClose, NoMore
  <2>3. WrittenOut'
    BY <2>1, <2>2 DEF ConnInv, WrittenOut
  <2>4. RoomMuHeld' /\ OnceOwner' /\ ShutLast' /\ SendersFirst' /\ NeverPanics'
    BY <2>1 DEF ConnInv, RoomMuHeld, OnceOwner, ShutLast, SendersFirst, NeverPanics
  <2> QED BY <2>3, <2>4
<1>5. ASSUME NEW a \in Conns \cup {Worker}, NEW c \in Conns, LockSend(a, c) PROVE Rest'
  <2>1. a \in Actors
    BY DEF Actors
  <2>2. CASE UNCHANGED conn
    BY <1>5, <2>2
       DEF LockSend, ConnInv, RoomMuHeld, OnceOwner, ShutLast, SendersFirst, NeverPanics, WrittenOut
  <2>3. CASE ~conn[c].closed /\ conn' = [conn EXCEPT ![c].sendMu = a]
    BY <1>5, <2>1, <2>3
       DEF LockSend, ConnInv, ConnTypeOK, Conn, RoomMuHeld, OnceOwner, ShutLast, SendersFirst,
           NeverPanics, WrittenOut
  <2> QED BY <1>5, <2>2, <2>3 DEF LockSend, Refused
<1>6. ASSUME NEW a \in Conns \cup {Worker}, NEW c \in Conns, Enqueue(a, c) PROVE Rest'
  BY <1>6, EnqueueInv
<1>7. CASE Reported \/ ShutdownReturns \/ BroadcastToRoom \/ Shutdown \/ Exit
  BY <1>7, ActorAssumption
     DEF Reported, ShutdownReturns, BroadcastToRoom, Shutdown, Exit, Lock, Actors, ConnInv,
         RoomMuHeld, OnceOwner, ShutLast, SendersFirst, NeverPanics, WrittenOut
<1>8. CASE UNCHANGED connVars
  BY <1>8 DEF connVars, ConnInv, RoomMuHeld, OnceOwner, ShutLast, SendersFirst, NeverPanics, WrittenOut
<1> QED BY <1>1, <1>2, <1>3, <1>4, <1>5, <1>6, <1>7, <1>8 DEF ConnNext, Running, Sending, ReaderStep

\* The invariant holds in every behaviour.
LEMMA ConnInvCorrect == ConnSpec => []ConnInv
BY ConnInvInit, ConnInvNext, PTL DEF ConnSpec

\* The types of the goroutines' state, for any connections.
THEOREM ConnTypeCorrect == ConnSpec => []ConnTypeOK
BY ConnInvCorrect, PTL DEF ConnInv

\* Nobody ever sends on a closed channel or closes one twice.
THEOREM NoPanic == ConnSpec => []NeverPanics
BY ConnInvCorrect, PTL DEF ConnInv

\* A writePump that ends without a failure leaves nothing in its channel.
THEOREM AllWritten == ConnSpec => []WrittenOut
BY ConnInvCorrect, PTL DEF ConnInv

-----------------------------------------------------------------------------
(***************************************************************************)
(* Presence.                                                               *)
(***************************************************************************)

\* c was last told of the users that are there, or could not be.
Told(c) == conn[c].told = clients \/ conn[c].closed \/ conn[c].dropped

\* Whoever presence has reached has been told, and all have when none is sent.
PresenceKept ==
    /\ roomMu \notin Conns \/ conn[roomMu].reader = "handling" => \A c \in clients : Told(c)
    /\ roomMu \in Conns /\ conn[roomMu].reader \in {"joined", "left"}
        => \A c \in clients \ todo : Told(c)

LEMMA PresenceKeptNext ==
    ASSUME ConnInv, PresenceKept, [ConnNext]_connVars
    PROVE  PresenceKept'
<1> USE ActorAssumption DEF PresenceKept, Told
<1>0. ConnTypeOK /\ RoomMuHeld /\ clients \subseteq Conns
  BY DEF ConnInv, ConnTypeOK
<1>1. ASSUME NEW c \in Conns, Enter(c) \/ Announce(c) \/ LeaveRoom(c) PROVE PresenceKept'
  <2>1. CASE Enter(c)
    BY <1>0, <2>1 DEF Enter, Lock, Goes, Actors, ConnTypeOK, Conn
  <2>2. CASE Announce(c)
    BY <1>0, <2>2 DEF Announce, Sent, Holds, Goes, Everybody, ConnTypeOK, Conn
  <2>3. CASE LeaveRoom(c)
    BY <1>0, <2>3 DEF LeaveRoom, Lock, Actors, ConnTypeOK, Conn
  <2> QED BY <1>1, <2>1, <2>2, <2>3
<1>2. ASSUME NEW c \in Conns, Start(c) \/ Handled(c) \/ Left(c) PROVE PresenceKept'
  <2>1. /\ roomMu = c /\ roomMu' = Nobody /\ todo = {} /\ clients' = clients
        /\ conn[c].reader \in {"joined", "handling", "left"}
        /\ \A d \in Conns : /\ conn'[d].told = conn[d].told
                            /\ conn'[d].closed = conn[d].closed
                            /\ conn'[d].dropped = conn[d].dropped
    BY <1>0, <1>2 DEF Start, Handled, Left, Sent, Holds, At, Goes, ConnTypeOK, Conn
  <2>2. \A d \in clients : Told(d)
    BY <2>1
  <2> QED BY <1>0, <2>1, <2>2 DEF Actors
<1>3. ASSUME NEW c \in Conns, Handle(c) PROVE PresenceKept'
  BY <1>0, <1>3 DEF Handle, Lock, Goes, Actors, ConnTypeOK, Conn
<1>4. ASSUME NEW c \in Conns,
             \/ ReadFails(c) \/ EndRead(c) \/ GoAway(c) \/ writePump(c)
             \/ CloseOwn(c) \/ CloseOne(c)
      PROVE  PresenceKept'
  <2>1. /\ roomMu' = roomMu /\ clients' = clients /\ todo' \subseteq todo
        /\ CloseOne(c) \/ todo' = todo
        /\ \A d \in Conns : /\ conn'[d].told = conn[d].told
                            /\ conn[d].closed => conn'[d].closed
                            /\ conn'[d].dropped = conn[d].dropped
    BY <1>0, <1>4
       DEF ReadFails, EndRead, GoAway, writePump, Write, WriteFails, WriteClose, CloseOwn, CloseOne,
           closeSend, EnterOnce, SetClosed, CloseChannel, Goes, ConnTypeOK, Conn
  <2>2. roomMu \in Conns => conn'[roomMu].reader = conn[roomMu].reader
    BY <1>0, <1>4
       DEF RoomMuHeld, ReadFails, EndRead, GoAway, writePump, Write, WriteFails, WriteClose, CloseOwn,
           CloseOne, closeSend, EnterOnce, SetClosed, CloseChannel, Goes, At, ConnTypeOK, Conn
  <2>3. CloseOne(c) => roomMu \notin Conns
    BY DEF CloseOne, Holds
  <2> QED BY <1>0, <2>1, <2>2, <2>3
<1>5. ASSUME NEW a \in Conns \cup {Worker}, NEW c \in Conns, LockSend(a, c) PROVE PresenceKept'
  <2>1. /\ roomMu' = roomMu /\ clients' = clients
        /\ todo' = todo \/ (todo' = todo \ {c} /\ conn[c].closed)
        /\ \A d \in Conns : /\ conn'[d].told = conn[d].told /\ conn'[d].reader = conn[d].reader
                            /\ conn'[d].closed = conn[d].closed
                            /\ conn'[d].dropped = conn[d].dropped
    BY <1>0, <1>5 DEF LockSend, Refused, ConnTypeOK, Conn
  <2> QED BY <1>0, <2>1
<1>6. ASSUME NEW a \in Conns \cup {Worker}, NEW c \in Conns, Enqueue(a, c) PROVE PresenceKept'
  <2>1. /\ roomMu = a /\ roomMu' = roomMu /\ clients' = clients /\ todo' = todo \ {c}
        /\ \A d \in Conns \ {c} : conn'[d] = conn[d]
        /\ conn'[c].closed = conn[c].closed /\ conn'[c].reader = conn[c].reader
        /\ conn[c].dropped => conn'[c].dropped
    BY <1>0, <1>6 DEF Enqueue, Holds, ConnTypeOK, Conn
  <2>2. CASE a \in Conns /\ conn[a].reader \in {"joined", "left"}
    <3>1. conn'[c].told = clients \/ conn'[c].dropped
      BY <1>0, <1>6, <2>2 DEF Enqueue, ConnTypeOK, Conn
    <3> QED BY <1>0, <2>1, <2>2, <3>1
  <2>3. CASE ~(a \in Conns /\ conn[a].reader \in {"joined", "left"})
    <3>1. conn'[c].told = conn[c].told
      BY <1>0, <1>6, <2>3 DEF Enqueue, ConnTypeOK, Conn
    <3> QED BY <1>0, <2>1, <2>3, <3>1
  <2> QED BY <2>2, <2>3
<1>7. CASE Reported \/ ShutdownReturns \/ BroadcastToRoom \/ Shutdown \/ Exit
  <2>1. /\ conn' = conn /\ clients' = clients
        /\ \/ roomMu' = roomMu /\ todo' = todo
           \/ roomMu \notin Conns /\ roomMu' \notin Conns
    BY <1>7 DEF Reported, ShutdownReturns, BroadcastToRoom, Shutdown, Exit, Lock, Sent, Holds, Actors
  <2> QED BY <1>0, <2>1
<1>8. CASE UNCHANGED connVars
  BY <1>8 DEF connVars
<1> QED BY <1>1, <1>2, <1>3, <1>4, <1>5, <1>6, <1>7, <1>8 DEF ConnNext, Running, Sending, ReaderStep

\* When nobody is at work in the room, everybody there knows who is there, but
\* for those that were closed or whose channel was full.
THEOREM PresenceTold == ConnSpec => []PresenceIsTrue
<1>1. ConnInit => PresenceKept
  BY ActorAssumption DEF ConnInit, PresenceKept, Actors
<1>2. PresenceKept => PresenceIsTrue
  BY ActorAssumption DEF PresenceKept, PresenceIsTrue, Told, Actors
<1> QED BY <1>1, <1>2, PresenceKeptNext, ConnInvCorrect, PTL DEF ConnSpec
=============================================================================
