------------------------------ MODULE HubProofs ------------------------------
(***************************************************************************)
(* Proofs about Hub, for any number of connections, rooms and edits.       *)
(*                                                                         *)
(* The type invariant stands on its own.  The three safety invariants need *)
(* it, and EditsStaySaved needs two facts more: whoever edits does it in   *)
(* the registered room (UsersShareRoom), and that room holds the saved     *)
(* text (RegisteredIsSaved).                                               *)
(***************************************************************************)
EXTENDS Hub, TLAPS

\* The registered room holds what is saved, unless somebody edits another one.
RegisteredIsSaved ==
    ~cutOff /\ registered # None => content[registered] = db

HubInv ==
    /\ HubTypeOK
    /\ RegisteredIsHeld
    /\ UsersShareRoom
    /\ RegisteredIsSaved
    /\ EditsStaySaved

-----------------------------------------------------------------------------

\* A connection that has a room has a real one.
LEMMA HasRoom ==
    ASSUME HubTypeOK, NEW c \in Conns, pc[c] # "outside"
    PROVE  room[c] \in RoomRef
BY DEF HubTypeOK

\* No room and no connection at the start.
LEMMA HubTypeInit == ASSUME HubInit PROVE HubTypeOK
<1>1. created \in 0 .. MaxRooms
  BY HubBounds DEF HubInit
<1> QED BY <1>1 DEF HubInit, HubTypeOK, Place

\* Types, the agreement of room with pc, and of members with both: Room.clients
\* holds exactly the connections whose goroutine is between its registration in
\* ServeWS and the deferred end of readPump.
THEOREM HubTypeCorrect == HubSpec => []HubTypeOK
<1>1. HubInit => HubTypeOK
  BY HubTypeInit
<1>2. HubTypeOK /\ [HubNext]_hubVars => HubTypeOK'
  <2> SUFFICES ASSUME HubTypeOK, [HubNext]_hubVars
               PROVE  HubTypeOK'
    OBVIOUS
  <2>0. None \notin RoomRef
    BY DEF RoomRef, None
  <2> USE <2>0 DEF HubTypeOK, Place
  <2>1. ASSUME NEW c \in Conns, getOrCreateRoom(c) PROVE HubTypeOK'
    <3> USE DEF downVars
    <3>1. CASE registered # None /\ room' = [room EXCEPT ![c] = registered]
               /\ UNCHANGED <<registered, created, content>>
      BY <2>1, <3>1 DEF getOrCreateRoom, Goes
    <3>2. CASE MayCreate /\ created' = created + 1 /\ registered' = created'
               /\ content' = LoadedContent(created')
               /\ room' = [room EXCEPT ![c] = created']
      <4>1. created' \in RoomRef /\ created' \in 0 .. MaxRooms
        BY <3>2, HubBounds DEF MayCreate, RoomRef
      <4> QED BY <2>1, <3>2, <4>1 DEF getOrCreateRoom, Goes, LoadedContent
    <3> QED BY <2>1, <3>1, <3>2 DEF getOrCreateRoom
  <2>2. ASSUME NEW c \in Conns, Enter(c) PROVE HubTypeOK'
    BY <2>2 DEF Enter, Goes
  <2>3. ASSUME NEW c \in Conns, Edit(c) PROVE HubTypeOK'
    BY <2>3 DEF Edit, downVars
  <2>4. ASSUME NEW c \in Conns, Exit(c) PROVE HubTypeOK'
    BY <2>4 DEF Exit, Goes, Without
  <2>5. ASSUME NEW c \in Conns, CountMembers(c) PROVE HubTypeOK'
    BY <2>5 DEF CountMembers, Goes, downVars
  <2>6. ASSUME NEW c \in Conns, removeRoom(c) PROVE HubTypeOK'
    BY <2>6 DEF removeRoom, Goes, Remains, Using, downVars
  <2>7. CASE UNCHANGED hubVars
    BY <2>7 DEF hubVars, downVars
  <2>8. CASE ListRooms
    BY <2>8 DEF ListRooms, connVars
  <2>9. CASE CloseRoom
    <3>1. ToClose \subseteq Conns
      BY DEF ToClose
    <3> QED BY <2>9, <3>1 DEF CloseRoom, connVars
  <2> QED BY <2>1, <2>2, <2>3, <2>4, <2>5, <2>6, <2>7, <2>8, <2>9 DEF HubNext, ConnStep
<1> QED BY <1>1, <1>2, PTL DEF HubSpec

-----------------------------------------------------------------------------

\* The invariant holds when nothing has been created or edited.
LEMMA HubInvInit == HubInit => HubInv
<1> SUFFICES ASSUME HubInit PROVE HubInv
  OBVIOUS
<1>1. HubTypeOK
  BY HubTypeInit
<1>2. RegisteredIsHeld /\ UsersShareRoom /\ RegisteredIsSaved
  BY DEF HubInit, RegisteredIsHeld, UsersShareRoom, RegisteredIsSaved
<1>3. EditsStaySaved
  <2>1. 1 .. 0 = {}
    OBVIOUS
  <2> QED BY <2>1 DEF HubInit, EditsStaySaved
<1> QED BY <1>1, <1>2, <1>3 DEF HubInv

\* Every step keeps the three safety invariants; types are kept by
\* HubTypeCorrect and are assumed on both sides.
LEMMA HubInvNext ==
    ASSUME HubInv, HubTypeOK', [HubNext]_hubVars
    PROVE  HubInv'
<1> USE DEF HubInv
<1>1. ASSUME NEW c \in Conns, getOrCreateRoom(c) PROVE HubInv'
  <2> USE DEF HubTypeOK, Goes
  <2>1. CASE registered # None /\ room' = [room EXCEPT ![c] = registered]
             /\ UNCHANGED <<registered, created, content>>
    <3>1. RegisteredIsHeld'
      BY <1>1, <2>1 DEF getOrCreateRoom, RegisteredIsHeld
    <3>2. UsersShareRoom'
      BY <1>1, <2>1 DEF getOrCreateRoom, UsersShareRoom
    <3>3. RegisteredIsSaved' /\ EditsStaySaved'
      BY <1>1, <2>1 DEF getOrCreateRoom, RegisteredIsSaved, EditsStaySaved
    <3> QED BY <3>1, <3>2, <3>3
  <2>2. CASE MayCreate /\ created' = created + 1 /\ registered' = created'
             /\ content' = LoadedContent(created')
             /\ room' = [room EXCEPT ![c] = created']
    <3>0. created' \in RoomRef
      BY <2>2, HubBounds DEF MayCreate, RoomRef
    <3>1. RegisteredIsHeld'
      BY <1>1, <2>2 DEF getOrCreateRoom, RegisteredIsHeld
    <3>2. UsersShareRoom'
      <4>1. ASSUME NEW d \in Conns, ~cutOff, pc[d] \in {"arriving", "inside"} PROVE FALSE
        BY <2>2, <4>1 DEF MayCreate, UsersShareRoom
      <4> QED BY <1>1, <2>2, <4>1 DEF getOrCreateRoom, UsersShareRoom
    <3>3. RegisteredIsSaved' /\ EditsStaySaved'
      BY <1>1, <2>2, <3>0 DEF getOrCreateRoom, LoadedContent, RegisteredIsSaved, EditsStaySaved
    <3> QED BY <3>1, <3>2, <3>3
  <2> QED BY <1>1, <2>1, <2>2 DEF getOrCreateRoom
<1>2. ASSUME NEW c \in Conns, Enter(c) PROVE HubInv'
  <2> USE DEF HubTypeOK, Goes
  <2>1. RegisteredIsHeld' /\ RegisteredIsSaved' /\ EditsStaySaved'
    BY <1>2 DEF Enter, RegisteredIsHeld, RegisteredIsSaved, EditsStaySaved
  <2>2. UsersShareRoom'
    BY <1>2 DEF Enter, UsersShareRoom
  <2> QED BY <2>1, <2>2
<1>3. ASSUME NEW c \in Conns, Edit(c) PROVE HubInv'
  <2> USE DEF HubTypeOK
  <2>1. RegisteredIsHeld' /\ UsersShareRoom'
    BY <1>3 DEF Edit, RegisteredIsHeld, UsersShareRoom
  <2>2. room[c] \in RoomRef
    BY <1>3, HasRoom DEF Edit
  <2>3. ~cutOff => room[c] = registered /\ registered # None
    BY <1>3 DEF Edit, UsersShareRoom
  <2>4. content'[room[c]] = content[room[c]] \cup {edits'} /\ db' = content'[room[c]]
    BY <1>3, <2>2 DEF Edit
  <2>5. RegisteredIsSaved'
    BY <1>3, <2>3, <2>4 DEF Edit, RegisteredIsSaved
  <2>6. EditsStaySaved'
    <3>1. (1 .. edits) \cup {edits + 1} = 1 .. (edits + 1)
      OBVIOUS
    <3> QED BY <1>3, <2>3, <2>4, <3>1 DEF Edit, RegisteredIsSaved, EditsStaySaved
  <2> QED BY <2>1, <2>5, <2>6
<1>4. ASSUME NEW c \in Conns, Exit(c) PROVE HubInv'
  <2> USE DEF HubTypeOK, Goes
  <2>1. RegisteredIsHeld' /\ RegisteredIsSaved' /\ EditsStaySaved'
    BY <1>4 DEF Exit, RegisteredIsHeld, RegisteredIsSaved, EditsStaySaved
  <2>2. UsersShareRoom'
    BY <1>4 DEF Exit, UsersShareRoom
  <2> QED BY <2>1, <2>2
<1>5. ASSUME NEW c \in Conns, CountMembers(c) PROVE HubInv'
  <2> USE DEF HubTypeOK, Goes
  <2>1. RegisteredIsSaved' /\ EditsStaySaved'
    BY <1>5 DEF CountMembers, RegisteredIsSaved, EditsStaySaved
  <2>2. UsersShareRoom'
    BY <1>5 DEF CountMembers, UsersShareRoom
  <2>3. RegisteredIsHeld'
    <3>1. CASE members[room[c]] = {} /\ UNCHANGED room
      BY <1>5, <3>1 DEF CountMembers, RegisteredIsHeld
    <3>2. CASE members[room[c]] # {} /\ room' = [room EXCEPT ![c] = None]
      <4>1. room[c] \in RoomRef
        BY <1>5, HasRoom DEF CountMembers
      <4>2. PICK d \in members[room[c]] : TRUE
        BY <3>2
      <4>3. d \in Conns /\ d # c /\ room[d] = room[c]
        BY <1>5, <4>1, <4>2 DEF CountMembers
      <4> QED BY <1>5, <3>2, <4>3 DEF CountMembers, RegisteredIsHeld
    <3> QED BY <1>5, <3>1, <3>2 DEF CountMembers
  <2> QED BY <2>1, <2>2, <2>3
<1>6. ASSUME NEW c \in Conns, removeRoom(c) PROVE HubInv'
  <2> USE DEF HubTypeOK, Goes
  <2>1. CASE registered = room[c]
    <3>1. registered' = None
      BY <1>6, <2>1 DEF removeRoom, Remains
    <3>2. ~cutOff' => ~cutOff /\ Using(room[c]) = {}
      BY <1>6, <2>1 DEF removeRoom
    <3>3. UsersShareRoom'
      BY <1>6, <2>1, <3>2 DEF removeRoom, Using, UsersShareRoom
    <3>4. RegisteredIsHeld' /\ RegisteredIsSaved' /\ EditsStaySaved'
      BY <1>6, <3>1, <3>2 DEF removeRoom, RegisteredIsHeld, RegisteredIsSaved, EditsStaySaved
    <3> QED BY <3>3, <3>4
  <2>2. CASE registered # room[c]
    <3>1. registered' = registered /\ cutOff' = cutOff
      BY <1>6, <2>2 DEF removeRoom, Remains
    <3>2. UsersShareRoom'
      BY <1>6, <3>1 DEF removeRoom, UsersShareRoom
    <3>3. RegisteredIsHeld' /\ RegisteredIsSaved' /\ EditsStaySaved'
      BY <1>6, <2>2, <3>1 DEF removeRoom, RegisteredIsHeld, RegisteredIsSaved, EditsStaySaved
    <3> QED BY <3>2, <3>3
  <2> QED BY <2>1, <2>2
<1>7. CASE UNCHANGED connVars
  BY <1>7 DEF connVars, RegisteredIsHeld, UsersShareRoom, RegisteredIsSaved, EditsStaySaved
<1>8. ListRooms \/ CloseRoom \/ UNCHANGED hubVars => UNCHANGED connVars
  BY DEF ListRooms, CloseRoom, hubVars, connVars
<1> QED BY <1>1, <1>2, <1>3, <1>4, <1>5, <1>6, <1>7, <1>8 DEF HubNext, ConnStep

\* The invariant holds in every reachable state.
LEMMA HubInvCorrect == HubSpec => []HubInv
BY HubInvInit, HubInvNext, HubTypeCorrect, PTL DEF HubSpec

\* A room in hub.rooms always has a goroutine that will take it out again, or
\* has found another one to do it: removeRoomIfEmpty leaks no room.
THEOREM RoomsAreHeld == HubSpec => []RegisteredIsHeld
BY HubInvCorrect, PTL DEF HubInv

\* Without the race of removeRoomIfEmpty, everybody who edits the document
\* does it in the registered room.
THEOREM UsersShareRoomAlways == HubSpec => []UsersShareRoom
BY HubInvCorrect, PTL DEF HubInv

\* Without the race of removeRoomIfEmpty, no saved edit is ever overwritten,
\* through any number of removals and reloads of the room.
THEOREM NoEditLost == HubSpec => []EditsStaySaved
BY HubInvCorrect, PTL DEF HubInv

-----------------------------------------------------------------------------

\* While Shutdown is between its two sections, those it has to close are in the
\* room it found.
ShutdownInv ==
    /\ phase = "closing" /\ ~cutOff =>
          \A c \in Conns \ late : pc[c] = "inside" => room[c] = found
    /\ ShutdownReachesAll

\* Shutdown has not begun at the start.
LEMMA ShutdownInvInit == HubInit => ShutdownInv
BY DEF HubInit, ShutdownInv, ShutdownReachesAll

\* Nobody who is not late comes into a room after Shutdown has begun, and when it
\* begins all who are in a room are in the registered one.
LEMMA ShutdownInvNext ==
    ASSUME HubInv, ShutdownInv, [HubNext]_hubVars
    PROVE  ShutdownInv'
<1> USE DEF ShutdownInv, ShutdownReachesAll
<1>0. HubTypeOK /\ UsersShareRoom
  BY DEF HubInv
<1>1. ASSUME NEW c \in Conns, getOrCreateRoom(c) PROVE ShutdownInv'
  BY <1>0, <1>1 DEF getOrCreateRoom, Goes, downVars, HubTypeOK
<1>2. ASSUME NEW c \in Conns, Enter(c) PROVE ShutdownInv'
  BY <1>0, <1>2 DEF Enter, Goes, HubTypeOK
<1>3. ASSUME NEW c \in Conns, Edit(c) PROVE ShutdownInv'
  BY <1>3 DEF Edit, downVars
<1>4. ASSUME NEW c \in Conns, Exit(c) PROVE ShutdownInv'
  BY <1>0, <1>4 DEF Exit, Goes, HubTypeOK
<1>5. ASSUME NEW c \in Conns, CountMembers(c) PROVE ShutdownInv'
  BY <1>0, <1>5 DEF CountMembers, Goes, downVars, HubTypeOK
<1>6. ASSUME NEW c \in Conns, removeRoom(c) PROVE ShutdownInv'
  BY <1>0, <1>6 DEF removeRoom, Goes, downVars, HubTypeOK
<1>7. CASE ListRooms
  BY <1>0, <1>7 DEF ListRooms, connVars, UsersShareRoom
<1>8. CASE CloseRoom
  <2>1. ASSUME NEW c \in Conns, pc[c] = "inside", room[c] = found PROVE c \in ToClose
    BY <1>0, <2>1 DEF ToClose, HubTypeOK, RoomRef, None
  <2> QED BY <1>8, <2>1 DEF CloseRoom, connVars
<1>9. CASE UNCHANGED hubVars
  BY <1>9 DEF hubVars, downVars
<1> QED BY <1>1, <1>2, <1>3, <1>4, <1>5, <1>6, <1>7, <1>8, <1>9 DEF HubNext, ConnStep

\* Without the race of removeRoomIfEmpty, Shutdown closes the connections of all
\* who were editing the document when it began.
THEOREM ShutdownReaches == HubSpec => []ShutdownReachesAll
BY HubInvCorrect, ShutdownInvInit, ShutdownInvNext, PTL DEF HubSpec, ShutdownInv
=============================================================================
