SPECIFICATION Spec
CONSTANTS
  Prints = {p1, p2}
  Lots = {l1, l2}
  MaxCopies = 2
  Scans = {s1, s2}
  Visitors = {v1, v2}
  Chunk = 1
  MaxMoves = 3
SYMMETRY Symmetry
CHECK_DEADLOCK FALSE
PROPERTIES BackOnlyByRace RefusedOnlyByRace DismissalHolds ScanSettles
