CONSTANTS
    Total = 2
    Chunk = 2
    Jobs = {j1, j2}
    Slots = {a, b}
    Rescores = {}
    AutoScore = {FALSE}
    MaxFaults = 1
SPECIFICATION FairSpec
INVARIANTS OneRunnerPerRow ActiveIsOneJob
PROPERTIES JobsEnd
CHECK_DEADLOCK FALSE
