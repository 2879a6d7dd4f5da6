CONSTANTS
    Conns = {c1, c2, c3}
    MaxRooms = 3
    MaxEdits = 3
SPECIFICATION HubSpec
SYMMETRY MCSymmetry
INVARIANTS
    HubTypeOK
    RegisteredIsHeld
    UsersShareRoom
    EditsStaySaved
    ShutdownReachesAll
CHECK_DEADLOCK FALSE
