\* Two deliveries, with a CallSid, a number, both or neither; two scripts that
\* expire after a tick or outlast the clock, one of them, staged at the clock's
\* last value, past what an Instant holds, which poisons the lock.  The tool may
\* never end, and there are no default verbs.  The work is finite: the system
\* comes to rest.
SPECIFICATION MCFairSpec
CONSTANTS
    Requests = {r1, r2}
    CallSids = {CA1}
    Numbers = {n1}
    None = None
    Ttls = {1, 3}
    INSTANT_MAX = 4
    InboundVoice = {"handler_tool"}
    MaxNow = 2
    MaxScripts = 2
INVARIANTS
    ServedOnce
    Accounted
    StageThenCall
PROPERTIES
    ServesNewest
    ImplementsLife
    EveryCallEnds
CHECK_DEADLOCK FALSE
