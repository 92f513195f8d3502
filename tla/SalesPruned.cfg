CONSTANTS
    s1 = s1
    s2 = s2
    Skus = {s1, s2}
    LastDay = 3
    DaysPerMonth = 2
    Sold <- MCSold
    Imports = {b1, b2}
    Files <- MCFiles
    Recent <- MCRecent
    Pull = Pull
    Sweep = Sweep
    None = None
    MaxBusy = 1
    MaxCutoff = 3
    MaxFaults = 0
SPECIFICATION Spec
PROPERTIES PrunedWereCounted
CHECK_DEADLOCK FALSE
