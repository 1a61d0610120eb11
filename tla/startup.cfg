SPECIFICATION StartupFairSpec
CONSTANTS
    User = {u1, u2}
    Setter = {o1}
    Stopper = {k1}
    Nobody = nobody
    Sharer = {s1, s2}
    Shared = shared
INVARIANT ManagerIsHeld
INVARIANT EarlyOptionsCount
INVARIANT NoProcessLost
INVARIANT OneAnswer
PROPERTY InitRunsOnce
PROPERTY GlobalComesBack
