CONSTANTS
    Clients = {t1, t2}
    Chars <- MCChars
    SendBuf = 4
    MaxOpLog = 9
    Positions <- MCNone
    Batches <- MCNone
    Restores <- MCNone
    Chatter = {}
    SaveMayFail = FALSE
    LoadMayFail = FALSE
    MaxSeq = 4
    MaxClock = 4
    MaxJoins = 3
    Row <- MCRow
    Keys = {"c"}
    MaxTyped = 2
    MaxEvents = 3
SPECIFICATION EditorSpec
INVARIANT RestartConverges
CHECK_DEADLOCK FALSE
