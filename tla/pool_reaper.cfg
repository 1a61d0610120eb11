SPECIFICATION FairSpec
CONSTANTS
    Page = {p1, p2}
    Client = {c1}
    Replacer = {}
    HealthChecker = hc
    Reaper = reaper
    NoPage = nopage
    MinPages = 1
    MaxPages = 2
    TTL = 3
    GracePeriod = 2
    HealthCheckInterval = 0
    MaxMissed = 0
    MaxLost = 2
    MaxAbandoned = 1
INVARIANT FloorAccounting
INVARIANT ReapedIsExpired
PROPERTY GraceTakesNoCaller
PROPERTY ExpiredPageLeaves
