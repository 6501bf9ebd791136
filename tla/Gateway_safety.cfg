\* Two entities that may overlap, a watch of two kinds, a channel and a ring of one.
SPECIFICATION MCSpec
CONSTANTS
    Requests = {r1, r2}
    Sids = {s1}
    Statuses = {done}
    None = None
    RING_CAP = 1
    Config = {}
    Watches = {w1}
    Entities = {e1, e2}
    NOTICE_CHANNEL_CAP = 1
    MCArrivals <- Arrivals
    MCFilters <- Filters
SYMMETRY Symmetry
VIEW SafetyView
INVARIANTS
    GatewayInv
    TickIsReadable
    ToldByListeners
    PanicLeaves
PROPERTIES
    ImplementsPush
CHECK_DEADLOCK FALSE
