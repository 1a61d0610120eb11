SPECIFICATION FairSpec
CONSTANTS
    Page = {p1, p2, p3}
    Caller = {c1, c2, c3}
    NoPage = nopage
    MinPages = 2
    MaxPages = 2
    MaxUse = 2
INVARIANT DrainWaits
PROPERTY DrainEnds
