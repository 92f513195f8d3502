CONSTANTS
    s1 = s1
    s2 = s2
    Skus = {s1, s2}
    LastDay = 3
    DaysPerMonth = 2
    Sold <- MCSold
    Imports = {b1, b2}
    Files <- MCFiles
    Recent <- MCRecentAndOld
    Pull = Pull
    Sweep = Sweep
    None = None
    MaxBusy = 2
    MaxCutoff = 2
    MaxFaults = 1
SPECIFICATION Spec
SYMMETRY Symmetry
INVARIANTS RowIsOneFile FailedLeftNothing OnePending
PROPERTIES SoloMonthsKeepTheirDays SoloPrunedWereCounted
CHECK_DEADLOCK FALSE
