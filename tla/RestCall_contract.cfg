\* One call, the code's two retries, a wait above the timeout and one below.
SPECIFICATION FairSpec
CONSTANTS
    Calls = {c1}
    MAX_RETRIES = 2
    TIMEOUT = 2
    BACKOFF = 1
    RetryAfters = {3}
    MAX_WAIT = 3
INVARIANTS
    RetryJustified
    DuplicateOnlyAfterFault
    ResponseBound
PROPERTIES
    ImplementsAtLeastOnce
    CallReturns
CHECK_DEADLOCK FALSE
