SPECIFICATION MCSpec
CONSTANTS
    Accounts = {a1, a2}
    NoSid = {1}
    PAGE_SIZE = 2
    None = None
    Empty = Empty
    MaxMessages = 4
    MaxPages = 5
INVARIANTS
    NewestFirst
    Complete
    OneAccount
PROPERTIES
    TraversalEnds
CHECK_DEADLOCK FALSE
