--------------------------------- MODULE Hub ---------------------------------
(***************************************************************************)
(* How rooms come and go: Hub.rooms of internal/hub/hub.go for one         *)
(* document, and the life of the connections that use it, from ServeWS to  *)
(* the deferred end of readPump.  Hub.mu and Room.mu are two locks, and    *)
(* each section under one of them is a step: what Room.tla takes as one    *)
(* step, finding a room and entering it, or leaving it and removing it, is *)
(* taken apart here.  Hub.Shutdown closes the connections of the rooms it  *)
(* finds, again one section per lock.                                      *)
(*                                                                         *)
(* A text is the set of the edits it holds.                                *)
(***************************************************************************)
EXTENDS Integers, FiniteSets

CONSTANTS
    Conns,      \* connections
    MaxRooms,   \* bound: rooms created for the document
    MaxEdits    \* bound: edits made to it

ASSUME HubBounds == MaxRooms \in Nat /\ MaxEdits \in Nat

\* Rooms are numbered as they are created: a pointer to a Room is its number.
RoomRef == 1 .. MaxRooms
None == 0

VARIABLES
    registered, \* Hub.rooms[docID], or None
    created,    \* number of rooms created
    pc,         \* where the goroutine of a connection is
    room,       \* ClientConn.room of a connection, or None
    members,    \* Room.clients of every room
    content,    \* Room.doc of every room
    edits,      \* number of edits made
    db,         \* the saved text of the document
    cutOff,     \* history: a room was removed with somebody in it or on the way
    phase,      \* where Shutdown is
    found,      \* the room Shutdown found, or None
    closed,     \* ClientConn.closed of the connections inside
    late        \* history: they entered after Shutdown had looked for rooms

downVars == <<phase, found, closed, late>>
hubVars == <<registered, created, pc, room, members, content, edits, db, cutOff, downVars>>

\* A connection is outside, has its room (arriving), is one of its clients
\* (inside), has left it (leaving), or has found it empty (clearing).
Place == {"outside", "arriving", "inside", "leaving", "clearing"}

HubTypeOK ==
    /\ registered \in RoomRef \cup {None}
    /\ created \in 0 .. MaxRooms
    /\ pc \in [Conns -> Place]
    /\ room \in [Conns -> RoomRef \cup {None}]
    /\ members \in [RoomRef -> SUBSET Conns]
    /\ content \in [RoomRef -> SUBSET Nat]
    /\ edits \in Nat
    /\ db \in SUBSET Nat
    /\ cutOff \in BOOLEAN
    /\ phase \in {"serving", "closing", "down"}
    /\ found \in RoomRef \cup {None}
    /\ closed \subseteq Conns /\ late \subseteq Conns
    /\ \A c \in Conns : pc[c] = "outside" <=> room[c] = None
    /\ \A r \in RoomRef, c \in Conns :
          c \in members[r] <=> pc[c] = "inside" /\ room[c] = r

HubInit ==
    /\ registered = None
    /\ created = 0
    /\ pc = [c \in Conns |-> "outside"]
    /\ room = [c \in Conns |-> None]
    /\ members = [r \in RoomRef |-> {}]
    /\ content = [r \in RoomRef |-> {}]
    /\ edits = 0
    /\ db = {}
    /\ cutOff = FALSE
    /\ phase = "serving"
    /\ found = None
    /\ closed = {}
    /\ late = {}

-----------------------------------------------------------------------------

\* The calling goroutine of c goes from one place to the next.
Goes(c, from, to) == pc[c] = from /\ pc' = [pc EXCEPT ![c] = to]

\* Bug variant: the room starts empty.
FreshContent(r) == [content EXCEPT ![r] = {}]

\* The texts when room r has been created from the saved one.
LoadedContent(r) == [content EXCEPT ![r] = db]

\* Bug variant: the lookup and the creation are not one section, and a room
\* may be created although another is registered.
MayCreateAny == created < MaxRooms

MayCreate == registered = None /\ created < MaxRooms

\* getOrCreateRoom, under Hub.mu: the registered room, or a new one with the
\* saved text.
getOrCreateRoom(c) ==
    /\ Goes(c, "outside", "arriving")
    /\ \/ /\ registered # None
          /\ room' = [room EXCEPT ![c] = registered]
          /\ UNCHANGED <<registered, created, content>>
       \/ /\ MayCreate
          /\ created' = created + 1
          /\ registered' = created'
          /\ content' = LoadedContent(created')
          /\ room' = [room EXCEPT ![c] = created']
    /\ UNCHANGED <<members, edits, db, cutOff, downVars>>

\* The registration in ServeWS, under Room.mu, of the room found before: nothing
\* asks whether it is still the registered one.
Enter(c) ==
    /\ Goes(c, "arriving", "inside")
    /\ members' = [members EXCEPT ![room[c]] = @ \cup {c}]
    /\ late' = IF phase = "serving" THEN late ELSE late \cup {c}
    /\ UNCHANGED <<registered, created, room, content, edits, db, cutOff, phase, found, closed>>

\* applyOp, under Room.mu: an edit changes the room's text, which is saved whole.
\* A connection that Shutdown closed goes on until its readPump gets the error.
Edit(c) ==
    /\ pc[c] = "inside"
    /\ edits < MaxEdits
    /\ edits' = edits + 1
    /\ content' = [content EXCEPT ![room[c]] = @ \cup {edits'}]
    /\ db' = content'[room[c]]
    /\ UNCHANGED <<registered, created, pc, room, members, cutOff, downVars>>

\* Bug variant: the connection stays in Room.clients.
StillIn(c) == members

Without(c) == [members EXCEPT ![room[c]] = @ \ {c}]

\* The deferred end of readPump, under Room.mu.
Exit(c) ==
    /\ Goes(c, "inside", "leaving")
    /\ members' = Without(c)
    /\ closed' = closed \ {c} /\ late' = late \ {c}
    /\ UNCHANGED <<registered, created, room, content, edits, db, cutOff, phase, found>>

\* removeRoomIfEmpty, first half, under Room.mu: the room is counted.
CountMembers(c) ==
    /\ pc[c] = "leaving"
    /\ \/ /\ members[room[c]] = {}
          /\ Goes(c, "leaving", "clearing")
          /\ UNCHANGED room
       \/ /\ members[room[c]] # {}
          /\ Goes(c, "leaving", "outside")
          /\ room' = [room EXCEPT ![c] = None]
    /\ UNCHANGED <<registered, created, members, content, edits, db, cutOff, downVars>>

\* Who edits in room r, or is about to.
Using(r) == {d \in Conns : room[d] = r /\ pc[d] \in {"arriving", "inside"}}

\* Bug variant: the comparison with the expected room is the wrong way round.
RemainsOther(c) == IF registered = room[c] THEN registered ELSE None

Remains(c) == IF registered = room[c] THEN None ELSE registered

\* removeRoomIfEmpty, second half, under Hub.mu: the same room is removed,
\* whoever entered it since it was counted.
removeRoom(c) ==
    /\ Goes(c, "clearing", "outside")
    /\ registered' = Remains(c)
    /\ cutOff' = (cutOff \/ (registered = room[c] /\ Using(room[c]) # {}))
    /\ room' = [room EXCEPT ![c] = None]
    /\ UNCHANGED <<created, members, content, edits, db, downVars>>

connVars == <<registered, created, pc, room, members, content, edits, db, cutOff>>

\* Shutdown, under Hub.mu: the rooms are listed.
ListRooms ==
    /\ phase = "serving"
    /\ phase' = "closing"
    /\ found' = registered
    /\ UNCHANGED <<closed, late, connVars>>

\* The clients of the room that was listed, whether or not it is still registered.
ToClose == IF found = None THEN {} ELSE members[found]

\* Shutdown, under Room.mu: closeSend for everybody in that room.
CloseRoom ==
    /\ phase = "closing"
    /\ phase' = "down"
    /\ closed' = closed \cup ToClose
    /\ UNCHANGED <<found, late, connVars>>

ConnStep(c) ==
    \/ getOrCreateRoom(c)
    \/ Enter(c)
    \/ Edit(c)
    \/ Exit(c)
    \/ CountMembers(c)
    \/ removeRoom(c)

HubNext ==
    \/ \E c \in Conns : ConnStep(c)
    \/ ListRooms
    \/ CloseRoom

HubSpec == HubInit /\ [][HubNext]_hubVars

-----------------------------------------------------------------------------

\* No room leaks: as long as a room is registered, a connection holds it that
\* has still to leave it, and will remove it or leave that to another.
RegisteredIsHeld ==
    registered # None => \E c \in Conns : room[c] = registered

\* Whoever uses the document uses the registered room, and with it the others'
\* text, unless a room was removed under somebody who used it.
UsersShareRoom ==
    ~cutOff => \A c \in Conns : pc[c] \in {"arriving", "inside"} => room[c] = registered

\* An edit that was saved stays saved, unless, again, a room was removed under
\* somebody who used it: as long as loads and saves work, as they do here, that race
\* is the only way to lose one.
EditsStaySaved == ~cutOff => db = 1 .. edits

\* When Shutdown has returned, every connection that was there when it began is
\* closed, or gone, unless a room was removed under somebody who used it: rooms
\* that are not in Hub.rooms are not found.
ShutdownReachesAll ==
    phase = "down" /\ ~cutOff =>
        \A c \in Conns \ late : pc[c] = "inside" => c \in closed

\* All who edit the document do it in the same room.
OneRoom ==
    \A c, d \in Conns :
        pc[c] = "inside" /\ pc[d] = "inside" => room[c] = room[d]
=============================================================================
