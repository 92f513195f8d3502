SPECIFICATION MCSpec
CONSTANTS
  Runs = {r1, r2}
  Pages = {1, 2}
  Ranges = {{2}}
  Names = {n1, n2}
  Refs = {{2}}
  Nobody = Nobody
  MaxOthers = 1
SYMMETRY Symmetry
CHECK_DEADLOCK FALSE
INVARIANTS OneActiveRun ExtractingIsHandled FinishMergesAnswers
PROPERTIES LateAnswerDropped ListUntilFirstAnswer 
