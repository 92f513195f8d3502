CONSTANTS
    Sets = {s1, s2, s3}
    Scopes = {k1}
    Params = {p1}
    Requests = {r1, r2}
    None = None
    MaxClock = 0
SPECIFICATION Spec
SYMMETRY Symmetry
INVARIANTS VersionsContiguous LockedStaysPending NeverWaitInCircle
PROPERTIES NoGapOnApproval ImplementsRegister
CHECK_DEADLOCK FALSE
