SPECIFICATION Spec
CONSTANTS
    Client = {t1, t2, t3}
    Background = {b1}
    Nobody = nobody
    Calls = {"Do", "DoShare", "replacePage", "Status", "IsHealthy", "HealthCheck", "Close"}
SYMMETRY Symmetry
INVARIANT NoCircularWait
