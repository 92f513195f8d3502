CONSTANTS
    Manual = {m1}
    Cron = {c1, c2}
    MaxVersion = 1
    MaxCrashes = 1
SPECIFICATION Spec
SYMMETRY Symmetry
INVARIANTS CronPullsExclude ListMatchesMeta RunningIsHandled
PROPERTY ImplementsMirror
CHECK_DEADLOCK FALSE
