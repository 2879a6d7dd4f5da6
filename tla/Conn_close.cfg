CONSTANTS
    Conns = {c1, c2}
    Main = main
    Worker = worker
    Nobody = nobody
    SendBuf = 2
    MaxMsgs = 1
SPECIFICATION ConnSpec
INVARIANTS
    ConnTypeOK
    NeverPanics
    WrittenOut
    PresenceIsTrue
PROPERTIES
    ConnectionsEnd
    RoomMuReleased
CHECK_DEADLOCK FALSE
