SPECIFICATION Spec
CONSTANTS
    Client = {t1, t2, t3}
    Background = {b1}
    Nobody = nobody
    Calls = {"DoShare", "Stats"}
SYMMETRY Symmetry
INVARIANT NoCircularWait
