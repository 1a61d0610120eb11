SPECIFICATION FairSpec
CONSTANTS
    Context = {x1, x2, x3}
    DoCaller = {d1}
    ShareCaller = {s1}
    Closer = {k1}
    NoContext = nocontext
    Nobody = nobody
    MaxRetries = 1
INVARIANT TypeOK
INVARIANT ConsistentWhenUnlocked
INVARIANT NoLeakedContext
INVARIANT FlagMeansRebuilder
PROPERTY CallComesBack
PROPERTY RebuildEnds
