SPECIFICATION Spec
CONSTANTS
  Keys = {k1, k2}
  Posts = {r1, r2}
  Pipes = {d1}
  Chunk = 1
  MaxMoves = 2
SYMMETRY Symmetry
CHECK_DEADLOCK FALSE
INVARIANTS RunsMeetOnlyByRace
PROPERTIES ReplaceIsExact StaleNeverRefuses
