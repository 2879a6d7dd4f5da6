CONSTANTS
    Conns = {c1, c2, c3}
    MaxRooms = 3
    MaxEdits = 3
SPECIFICATION HubSpec
SYMMETRY MCSymmetry
INVARIANT OneRoom
CHECK_DEADLOCK FALSE
