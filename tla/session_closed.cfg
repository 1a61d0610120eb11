SPECIFICATION Spec
CONSTANTS
    Context = {x1, x2}
    DoCaller = {d1}
    ShareCaller = {}
    Closer = {k1}
    NoContext = nocontext
    Nobody = nobody
    MaxRetries = 2
PROPERTY ClosedStaysClosed
