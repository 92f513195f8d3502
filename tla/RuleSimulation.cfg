CONSTANTS
    Sets = {s1}
    Scopes = {k1}
    Params = {p1, p2}
    Requests = {r1, r2}
    None = None
    MaxClock = 2
SPECIFICATION Spec
INVARIANTS SimulationVouches
CHECK_DEADLOCK FALSE
