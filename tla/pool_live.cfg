SPECIFICATION FairSpec
CONSTANTS
    Page = {p1, p2}
    Client = {c1, c2}
    Replacer = {r1}
    HealthChecker = hc
    Reaper = reaper
    NoPage = nopage
    MinPages = 1
    MaxPages = 1
    TTL = 0
    GracePeriod = 0
    HealthCheckInterval = 1
    MaxMissed = 1
    MaxLost = 1
    MaxAbandoned = 1
INVARIANT ActiveOpsExact
PROPERTY CloseTerminates
PROPERTY DeadPageLeaves
