SPECIFICATION PartsSpec
CONSTANTS
    Page = {p1, p2, p3}
    Caller = {c1, c2}
    NoPage = nopage
    Modulus = 4
    MaxRetries = 2
    OperationTimeout = 3
    Deadline = {0, 1, 2, 4, 5, 7}
    Never = never
    Adapter = {l1, l2, l3}
    NoAdapter = none
    Pid = {i1, i2}
    Junk = junk
    MaxEntries = 3
    Session = {s1}
    Value <- Given
    MaxOptions = 2
    Function = {f1, f2}
    Tested = {t1, t2}
CHECK_DEADLOCK FALSE
INVARIANT PoolsCanServe
INVARIANT Even
INVARIANT CauseIsReported
INVARIANT WaitIsBounded
INVARIANT DeadlineIsShared
INVARIANT DerivedLogsAlike
INVARIANT EveryProcessListed
INVARIANT CleanupFindsItsSessions
PROPERTY LossLeadsToRebuild
PROPERTY EveryPageServed
