CONSTANTS
    Clients = {t1, t2}
    Chars <- MCChars
    SendBuf = 2
    MaxOpLog = 9
    Positions <- MCNone
    Batches <- MCNone
    Restores <- MCNone
    Chatter = {}
    SaveMayFail = FALSE
    LoadMayFail = FALSE
    MaxSeq = 4
    MaxClock = 4
    MaxJoins = 3
    Row <- MCRow
    Keys = {"c"}
    MaxTyped = 2
    MaxEvents = 3
SPECIFICATION EditorSpec
SYMMETRY MCSymmetry
INVARIANTS
    EditorTypeOK
    SettledSameText
    SettledSameNames
    FreshOpsShown
    RestoreAnswered
PROPERTY MergeKeepsPlace
CHECK_DEADLOCK FALSE
