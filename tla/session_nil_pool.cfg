SPECIFICATION Spec
CONSTANTS
    Context = {x1, x2}
    DoCaller = {}
    ShareCaller = {s1}
    Closer = {k1}
    NoContext = nocontext
    Nobody = nobody
    MaxRetries = 2
INVARIANT NoNilPool
