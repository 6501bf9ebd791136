\* Two watches, two kinds, a channel of one: three notices overflow it twice.
SPECIFICATION MCSpec
CONSTANTS
    Watches = {w1, w2}
    ALL_KINDS = {sms, voice}
    NOTICE_CHANNEL_CAP = 1
    MaxNotices = 3
SYMMETRY WatchSymmetry
INVARIANTS
    NoSilentLoss
PROPERTIES
    LostOnlyByOverflow
    ImplementsFeed
