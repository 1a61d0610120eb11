SPECIFICATION Spec
CONSTANTS
    Page = {p1, p2, p3}
    Client = {c1, c2}
    Replacer = {r1}
    HealthChecker = hc
    Reaper = reaper
    NoPage = nopage
    MinPages = 1
    MaxPages = 2
    TTL = 0
    GracePeriod = 0
    HealthCheckInterval = 1
    MaxMissed = 2
    MaxLost = 1
    MaxAbandoned = 0
SYMMETRY Symmetry
INVARIANT NoOrphanPage
INVARIANT CapacityAccounting
INVARIANT FloorAccounting
PROPERTY LifecycleSpec
