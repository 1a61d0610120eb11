SPECIFICATION FairSpec
CONSTANTS
    Name = {n1, n2}
    Sess = {x1, x2}
    Creator = {c1, c2}
    Remover = {r1, r2}
    Shutter = {k1, k2}
    Doer = {d1}
    Nil = nil
INVARIANT OpenIsListed
INVARIANT SessionsBeforeBrowser
PROPERTY CloseRunsOnce
PROPERTY CloseReturns
