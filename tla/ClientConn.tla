----------------------------- MODULE ClientConn -----------------------------
(***************************************************************************)
(* The goroutines of the connections in one room (internal/hub/client.go): *)
(* every connection has a readPump and a writePump, and shares room.mu     *)
(* with the others, with an analytics worker that reports to the room      *)
(* (BroadcastToRoom) and with main, which shuts the hub down and ends the  *)
(* process.  Room takes sending a message for one step; here it is made of *)
(* the steps that the mutexes, the Once and the channel leave between.     *)
(* What the messages say is left out, but for the users in presence.       *)
(***************************************************************************)
EXTENDS Integers, FiniteSets

CONSTANTS
    Conns,      \* connections that may be served
    Main,       \* the goroutine of main
    Worker,     \* a worker of the analytics pool
    Nobody,     \* holds a mutex that is free
    SendBuf,    \* sendBufSize
    MaxMsgs     \* bound: messages handled and reports made

Actors == Conns \cup {Main, Worker}

ASSUME ActorAssumption ==
    /\ Main # Worker /\ {Main, Worker} \cap Conns = {}
    /\ {Nobody, "new", "done"} \cap Actors = {}
ASSUME SizeAssumption == SendBuf \in Nat \ {0} /\ MaxMsgs \in Nat

VARIABLES
    roomMu,     \* who holds Room.mu
    clients,    \* Room.clients
    todo,       \* the connections its holder has yet to send to, or to close
    conn,       \* every connection
    main,       \* where main is
    msgs,       \* bound: messages handled and reports made
    panicked    \* the actors that Go made panic

connVars == <<roomMu, clients, todo, conn, main, msgs, panicked>>

\* sendMu, once and closed as in ClientConn, once being new, done or who runs
\* it; queue the messages that wait in send, and shut whether send is closed;
\* open whether the WebSocket is open, gone whether the browser has gone; told
\* the users of the last presence that send took.  dropped and failed are
\* history: that send was full for a message, and that a write failed.
Conn == [sendMu : Actors \cup {Nobody}, once : Actors \cup {"new", "done"}, closed : BOOLEAN,
         queue : 0 .. SendBuf, shut : BOOLEAN, open : BOOLEAN, gone : BOOLEAN,
         reader : {"new", "greeting", "joined", "reading", "handling", "leaving", "left",
                   "closing", "ended"},
         writer : {"none", "running", "ended"},
         told : SUBSET Conns, dropped : BOOLEAN, failed : BOOLEAN]

NewConn == [sendMu |-> Nobody, once |-> "new", closed |-> FALSE, queue |-> 0, shut |-> FALSE,
            open |-> TRUE, gone |-> FALSE, reader |-> "new", writer |-> "none",
            told |-> {}, dropped |-> FALSE, failed |-> FALSE]

ConnTypeOK ==
    /\ roomMu \in Actors \cup {Nobody}
    /\ clients \in SUBSET Conns /\ todo \in SUBSET Conns
    /\ conn \in [Conns -> Conn]
    /\ main \in {"serving", "closing", "returned", "exited"}
    /\ msgs \in 0 .. MaxMsgs
    /\ panicked \in SUBSET Actors

ConnInit ==
    /\ roomMu = Nobody /\ clients = {} /\ todo = {}
    /\ conn = [c \in Conns |-> NewConn]
    /\ main = "serving" /\ msgs = 0 /\ panicked = {}

Runs(a) == a \notin panicked /\ main # "exited"

Lock(a) == Runs(a) /\ roomMu = Nobody /\ roomMu' = a

Holds(a) == Runs(a) /\ roomMu = a

-----------------------------------------------------------------------------
(***************************************************************************)
(* safeSend, to all of todo, by who holds room.mu.                         *)
(***************************************************************************)

\* Bug variant: the flag is not looked at.
NeverRefused(c) == FALSE

Refused(c) == conn[c].closed

LockSend(a, c) ==
    /\ Holds(a) /\ c \in todo
    /\ \A d \in Conns : conn[d].sendMu # a
    /\ conn[c].sendMu = Nobody
    /\ IF Refused(c) THEN todo' = todo \ {c} /\ UNCHANGED conn
       ELSE conn' = [conn EXCEPT ![c].sendMu = a] /\ UNCHANGED todo
    /\ UNCHANGED <<roomMu, clients, main, msgs, panicked>>

\* Bug variant: one message too many.
Overfull(c) == conn[c].queue > SendBuf

Full(c) == conn[c].queue = SendBuf

\* Bug variant: a full channel is waited for.
WhenFree(c) == ~Full(c)

\* The default case: a full channel is not waited for.
AtOnce(c) == TRUE

\* A send on a closed channel panics.
Enqueue(a, c) ==
    /\ Holds(a) /\ c \in todo /\ conn[c].sendMu = a
    /\ AtOnce(c)
    /\ conn' = [conn EXCEPT
          ![c].sendMu = Nobody,
          ![c].queue = IF Full(c) THEN @ ELSE @ + 1,
          ![c].dropped = @ \/ Full(c),
          ![c].told = IF a \in Conns /\ conn[a].reader \in {"joined", "left"} /\ ~Full(c)
                      THEN clients ELSE @]
    /\ todo' = todo \ {c}
    /\ panicked' = panicked \cup {x \in {a} : conn[c].shut}
    /\ UNCHANGED <<roomMu, clients, main, msgs>>

Sent(a) == Holds(a) /\ todo = {}

-----------------------------------------------------------------------------
(***************************************************************************)
(* closeSend of connection c, by actor a.                                  *)
(***************************************************************************)

\* closeOnce.Do runs its function unless somebody did.
FirstTime(c) == conn[c].once = "new"

EnterOnce(a, c) ==
    /\ FirstTime(c)
    /\ conn' = [conn EXCEPT ![c].once = a]

SetClosed(a, c) ==
    /\ conn[c].once = a /\ conn[c].sendMu = Nobody
    /\ conn' = [conn EXCEPT ![c].sendMu = a, ![c].closed = TRUE]

\* Closing a closed channel panics.
CloseChannel(a, c) ==
    /\ conn[c].once = a /\ conn[c].sendMu = a
    /\ conn' = [conn EXCEPT ![c].sendMu = Nobody, ![c].once = "done", ![c].shut = TRUE]

closeSend(a, c) ==
    /\ Runs(a)
    /\ \/ EnterOnce(a, c) /\ UNCHANGED panicked
       \/ SetClosed(a, c) /\ UNCHANGED panicked
       \/ CloseChannel(a, c) /\ panicked' = panicked \cup {x \in {a} : conn[c].shut}

-----------------------------------------------------------------------------
(***************************************************************************)
(* ServeWS and readPump.                                                   *)
(***************************************************************************)

\* The reader of c goes from one place to another.
At(c, place) == conn[c].reader = place
Goes(c, place) == conn' = [conn EXCEPT ![c].reader = place]

\* The connection is registered and greeted ...
Enter(c) ==
    /\ At(c, "new") /\ Lock(c)
    /\ clients' = clients \cup {c}
    /\ todo' = {c}
    /\ Goes(c, "greeting")
    /\ UNCHANGED <<main, msgs, panicked>>

\* Bug variant: presence goes to the others, like a cursor.
TheOthers(c) == clients \ {c}

\* broadcastPresence.
Everybody(c) == clients

\* ... and everybody is told who is there.
Announce(c) ==
    /\ At(c, "greeting") /\ Sent(c)
    /\ todo' = Everybody(c)
    /\ Goes(c, "joined")
    /\ UNCHANGED <<roomMu, clients, main, msgs, panicked>>

\* room.mu is unlocked, and writePump is started.
Start(c) ==
    /\ At(c, "joined") /\ Sent(c)
    /\ roomMu' = Nobody
    /\ conn' = [conn EXCEPT ![c].reader = "reading", ![c].writer = "running"]
    /\ UNCHANGED <<clients, todo, main, msgs, panicked>>

\* A message comes in; its answers go to its sender, to the others, or to all.
Handle(c) ==
    /\ At(c, "reading") /\ conn[c].open /\ Lock(c)
    /\ msgs < MaxMsgs /\ msgs' = msgs + 1
    /\ todo' \in {{c}, clients \ {c}, clients}
    /\ Goes(c, "handling")
    /\ UNCHANGED <<clients, main, panicked>>

Handled(c) ==
    /\ At(c, "handling") /\ Sent(c)
    /\ roomMu' = Nobody
    /\ Goes(c, "reading")
    /\ UNCHANGED <<clients, todo, main, msgs, panicked>>

\* ReadMessage fails when the WebSocket is closed, the browser closes it, or no
\* pong came for pongWait.
ReadFails(c) ==
    /\ At(c, "reading") /\ Runs(c)
    /\ ~conn[c].open \/ conn[c].gone
    /\ Goes(c, "leaving")
    /\ UNCHANGED <<roomMu, clients, todo, main, msgs, panicked>>

LeaveRoom(c) ==
    /\ At(c, "leaving") /\ Lock(c)
    /\ clients' = clients \ {c}
    /\ todo' = clients'
    /\ conn' = [conn EXCEPT ![c].reader = "left", ![c].told = {}, ![c].dropped = FALSE]
    /\ UNCHANGED <<main, msgs, panicked>>

\* room.mu is unlocked; removeRoomIfEmpty is left to Hub.
Left(c) ==
    /\ At(c, "left") /\ Sent(c)
    /\ roomMu' = Nobody
    /\ Goes(c, "closing")
    /\ UNCHANGED <<clients, todo, main, msgs, panicked>>

CloseOwn(c) ==
    /\ At(c, "closing")
    /\ closeSend(c, c)
    /\ UNCHANGED <<roomMu, clients, todo, main, msgs>>

EndRead(c) ==
    /\ At(c, "closing") /\ Runs(c)
    /\ conn[c].once = "done"
    /\ conn' = [conn EXCEPT ![c].reader = "ended", ![c].open = FALSE]
    /\ UNCHANGED <<roomMu, clients, todo, main, msgs, panicked>>

\* The browser closes the connection, or the network loses it.
GoAway(c) ==
    /\ ~conn[c].gone /\ conn[c].open /\ ~At(c, "new")
    /\ conn' = [conn EXCEPT ![c].gone = TRUE]
    /\ UNCHANGED <<roomMu, clients, todo, main, msgs, panicked>>

-----------------------------------------------------------------------------
(***************************************************************************)
(* writePump.                                                              *)
(***************************************************************************)

\* A message is taken from the channel and written ...
Write(c) ==
    /\ conn[c].writer = "running" /\ conn[c].queue > 0 /\ conn[c].open
    /\ conn' = [conn EXCEPT ![c].queue = @ - 1]

\* Bug variant: the WebSocket is left open.
WriteFailsOnly(c) ==
    /\ conn[c].writer = "running" /\ conn[c].queue > 0
    /\ conn' = [conn EXCEPT ![c].writer = "ended", ![c].failed = TRUE]

\* ... or it, or a ping, cannot be written, or not within writeWait.
WriteFails(c) ==
    /\ conn[c].writer = "running"
    /\ conn[c].queue > 0 \/ ~conn[c].open \/ conn[c].gone
    /\ conn' = [conn EXCEPT ![c].writer = "ended", ![c].open = FALSE, ![c].failed = TRUE]

\* Bug variant: the flag decides, and not that the channel is empty.
FlagIsSet(c) == conn[c].closed

\* A receive from a closed channel reports it when nothing waits any more.
NoMore(c) == conn[c].shut /\ conn[c].queue = 0

WriteClose(c) ==
    /\ conn[c].writer = "running" /\ NoMore(c)
    /\ conn' = [conn EXCEPT ![c].writer = "ended", ![c].open = FALSE]

writePump(c) ==
    /\ Runs(Main)
    /\ Write(c) \/ WriteFails(c) \/ WriteClose(c)
    /\ UNCHANGED <<roomMu, clients, todo, main, msgs, panicked>>

-----------------------------------------------------------------------------
(***************************************************************************)
(* The worker that reports, and main.                                      *)
(***************************************************************************)

BroadcastToRoom ==
    /\ Lock(Worker)
    /\ msgs < MaxMsgs /\ msgs' = msgs + 1
    /\ todo' = clients
    /\ UNCHANGED <<clients, conn, main, panicked>>

Reported ==
    /\ Sent(Worker)
    /\ roomMu' = Nobody
    /\ UNCHANGED <<clients, todo, conn, main, msgs, panicked>>

\* A signal arrives, and Shutdown closes every connection of the room.
Shutdown ==
    /\ main = "serving" /\ Lock(Main)
    /\ main' = "closing"
    /\ todo' = clients
    /\ UNCHANGED <<clients, conn, msgs, panicked>>

CloseOne(c) ==
    /\ Holds(Main) /\ c \in todo
    /\ \A d \in Conns \ {c} : conn[d].once # Main
    /\ \/ closeSend(Main, c) /\ UNCHANGED todo
       \/ conn[c].once = "done" /\ todo' = todo \ {c} /\ UNCHANGED <<conn, panicked>>
    /\ UNCHANGED <<roomMu, clients, main, msgs>>

ShutdownReturns ==
    /\ Sent(Main)
    /\ roomMu' = Nobody /\ main' = "returned"
    /\ UNCHANGED <<clients, todo, conn, msgs, panicked>>

\* http.Server.Shutdown does not wait for connections that were upgraded.
Exit ==
    /\ main = "returned"
    /\ main' = "exited"
    /\ UNCHANGED <<roomMu, clients, todo, conn, msgs, panicked>>

-----------------------------------------------------------------------------

\* What the goroutines do without a message, a new connection or a signal: the
\* statements wait for nothing but mutexes, sockets and deadlines.
ReaderStep(c) ==
    \/ Announce(c)
    \/ Start(c)
    \/ Handled(c)
    \/ ReadFails(c)
    \/ LeaveRoom(c)
    \/ Left(c)
    \/ CloseOwn(c)
    \/ EndRead(c)

Sending(a) == \E c \in Conns : LockSend(a, c) \/ Enqueue(a, c)

Running ==
    \/ \E c \in Conns : ReaderStep(c) \/ writePump(c)
    \/ \E a \in Conns \cup {Worker} : Sending(a)
    \/ \E c \in Conns : CloseOne(c)
    \/ Reported
    \/ ShutdownReturns

ConnNext ==
    \/ Running
    \/ \E c \in Conns : Enter(c) \/ Handle(c) \/ GoAway(c)
    \/ BroadcastToRoom
    \/ Shutdown
    \/ Exit

\* Go runs what can run, reads and writes have deadlines, and a sync.Mutex is
\* given to everybody who waits for it.  No behaviour here is endless, so that
\* it is enough to ask that somebody goes on as long as somebody can.
ConnFairness == WF_connVars(Running)

ConnSpec == ConnInit /\ [][ConnNext]_connVars /\ ConnFairness

-----------------------------------------------------------------------------
(***************************************************************************)
(* What the connections must do.                                           *)
(***************************************************************************)

\* Nobody sends on a closed channel or closes one twice: neither panic can
\* happen, whatever Shutdown, readPumps and workers do at the same time.
NeverPanics == panicked = {}

\* A writePump that ends without a failure has written every message that
\* safeSend took for it: none is left behind the close frame, and none can come.
WrittenOut ==
    \A c \in Conns :
        conn[c].writer = "ended" /\ ~conn[c].failed => conn[c].queue = 0 /\ conn[c].closed

\* When nobody is at work in the room, the users that a connection was last told
\* of are those that are there, unless it was closed or a message was dropped.
PresenceIsTrue ==
    roomMu = Nobody =>
        \A c \in clients : conn[c].told = clients \/ conn[c].closed \/ conn[c].dropped

\* A browser that closed or was lost, a write that failed, or Shutdown: any of
\* them ends both goroutines, closes the socket and takes the connection out of
\* the room, unless the process ends first.
Over(c) == conn[c].gone \/ ~conn[c].open \/ conn[c].closed \/ conn[c].writer = "ended"
CleanedUp(c) ==
    /\ conn[c].reader = "ended" /\ conn[c].writer = "ended"
    /\ ~conn[c].open /\ conn[c].shut /\ c \notin clients
ConnectionsEnd ==
    []<>(main = "exited" \/ \A c \in Conns : Over(c) /\ ~At(c, "new") => CleanedUp(c))

\* Nobody keeps the room locked by sending: a browser that does not read holds nobody
\* up.  (What a handler may wait for in Submit is the matter of WorkerPool.)
RoomMuReleased == []<>(roomMu = Nobody \/ main = "exited")
=============================================================================
