CONSTANTS
    Sites = {1, 2}
    MaxOps = 5
    MaxDeletes = 1
SPECIFICATION ListSpec
INVARIANTS
    ListTypeOK
    LinksConsistent
    Converged
PROPERTY ImplementsDocument
CHECK_DEADLOCK FALSE
