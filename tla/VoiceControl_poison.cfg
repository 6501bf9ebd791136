\* One agent, one script whose ttl_secs is past what an Instant holds.
SPECIFICATION MCSpec
CONSTANTS
    Requests = {r1}
    CallSids = {CA1}
    Numbers = {n1}
    None = None
    Ttls = {1, 3}
    INSTANT_MAX = 4
    InboundVoice = {"handler_tool", "default_verbs"}
    MaxNow = 2
    MaxScripts = 1
INVARIANT
    NeverPoisoned
CHECK_DEADLOCK FALSE
