CONSTANTS
    Requests = {r1, r2}
    None = none
    ChanBuf = 1
    MaxTokens = 2
    MaxEdits = 2
SPECIFICATION StreamSpec
INVARIANTS
    StreamTypeOK
    DoneIsTrue
    SuggestionFits
PROPERTY StreamsEnd
CHECK_DEADLOCK FALSE
