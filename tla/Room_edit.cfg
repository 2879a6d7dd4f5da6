CONSTANTS
    Clients = {c1, c2}
    Chars <- MCChars
    SendBuf = 3
    MaxOpLog = 2
    Positions <- MCPositions
    Batches <- MCBatches
    Restores <- NoRestores
    Chatter = {}
    SaveMayFail = FALSE
    LoadMayFail = FALSE
    MaxSeq = 3
    MaxClock = 3
    MaxJoins = 2
SPECIFICATION Spec
SYMMETRY MCSymmetry
INVARIANTS
    TypeOK
    FreshIDs
    LogContiguous
    SavedBeforeSent
    SavedText
PROPERTIES
    EchoMatches
    NodesStay
    SharedTextSpec
CHECK_DEADLOCK FALSE
