SPECIFICATION MCSpec
CONSTANTS
  Reqs = {r1, r2}
  Versions = {v1, v2, v3}
  Skus = {s1, s2}
  NoRow = NoRow
  NoVersion = NoVersion
SYMMETRY Symmetry
CHECK_DEADLOCK FALSE
INVARIANTS OneLateRow
PROPERTIES RevivedOnlyByRace RowsFrozen SoloMergeTakesEffect CoverageKept GeneratedIsComplete
