CONSTANTS
    Total = 2
    Chunk = 1
    Jobs = {j1}
    Slots = {a, b}
    Rescores = {x1}
    AutoScore = {TRUE, FALSE}
    MaxFaults = 0
SPECIFICATION Spec
SYMMETRY Symmetry
INVARIANTS ScoringIsOwned CountersSettle AutoScoreCovers
CHECK_DEADLOCK FALSE
