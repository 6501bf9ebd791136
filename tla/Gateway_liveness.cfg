\* One entity and two calls: the second notice overflows the channel.  The work
\* is finite: the system comes to rest.
SPECIFICATION MCFairSpec
CONSTANTS
    Requests = {r1, r2}
    Sids = {s1}
    Statuses = {done}
    None = None
    RING_CAP = 1
    Config = {}
    Watches = {w1}
    Entities = {e1}
    NOTICE_CHANNEL_CAP = 1
    MCArrivals <- Calls
    MCFilters <- EveryKind
PROPERTIES
    EveryRequestEnds
    EveryNoticeTicks
CHECK_DEADLOCK FALSE
