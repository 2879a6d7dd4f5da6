CONSTANTS
    Clients = {c1, c2}
    Chars <- MCOneChar
    SendBuf = 2
    MaxOpLog = 1
    Positions <- MCOnePosition
    Batches <- NoBatches
    Restores <- MCRestores
    Chatter = {"ping", "cursor", "typing", "activity"}
    SaveMayFail = TRUE
    LoadMayFail = TRUE
    MaxSeq = 2
    MaxClock = 4
    MaxJoins = 2
SPECIFICATION Spec
SYMMETRY MCSymmetry
INVARIANTS
    FreshIDs
    OutboxOrdered
CHECK_DEADLOCK FALSE
