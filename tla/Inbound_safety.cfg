SPECIFICATION Spec
CONSTANTS
    Requests = {r1, r2, r3}
    Sids = {s1}
    Statuses = {queued, done}
    None = None
    RING_CAP = 2
    Config = {"notify_webhook_url"}
VIEW TimelessView
SYMMETRY RequestSymmetry
INVARIANTS
    IInv
    RecentIsSuffix
    RefusedLeavesNoTrace
    AnnouncedIsReadable
    StatusTraced
CHECK_DEADLOCK FALSE
