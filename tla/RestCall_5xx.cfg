SPECIFICATION Spec
CONSTANTS
    Calls = {c1}
    MAX_RETRIES = 2
    TIMEOUT = 1
    BACKOFF = 1
    RetryAfters = {3}
    MAX_WAIT = 3
INVARIANTS
    ServerErrorIsBackendError
CHECK_DEADLOCK FALSE
