CONSTANTS
    h1 = h1
    h2 = h2
    h3 = h3
    r1 = r1
    r2 = r2
    Handlers = {h1, h2, h3}
    Workers = {w1, w2}
    Rooms <- MCRooms
    RoomOf <- MCRoomOf
    NoOne = NoOne
    NoJob = NoJob
    JobBuf = 2
    Sizes = {1, 3}
    MaxBacklog = 5
    Stoppable = FALSE
SPECIFICATION PoolFairSpec
INVARIANT NeverJammed
CHECK_DEADLOCK FALSE
