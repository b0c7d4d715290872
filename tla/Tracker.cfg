SPECIFICATION TrackerSpec
CONSTANTS
    TicksPerHour = 120
    RateLimitCooldown = 1
    UnclassifiedCooldown = 2
    Buffer = 2
    DefaultCooldown = 6
    FallbackCooldown = 6
    Endpoints = {"a", "b"}
    Clock <- MCClock
    Replies <- MCReplies
    MaxErrors = 2
INVARIANTS TrackerTypeOK DeadlineMatchesErrors QuotaOutlastsWindow
PROPERTY FailureCools
