CONSTANTS
    Sets = {s1}
    Scopes = {k1}
    Params = {p1}
    Requests = {r1, r2}
    None = None
    MaxClock = 0
SPECIFICATION Spec
PROPERTIES ActiveOnlyLeavesByArchive
CHECK_DEADLOCK FALSE
