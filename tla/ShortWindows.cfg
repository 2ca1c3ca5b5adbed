SPECIFICATION Spec
CONSTANTS
  Cjk <- Ideographs
  Letter <- Latin
  Symbol <- Other
  Blank = 0
  Base = 6
  Cases <- WordCases
  Policy <- Short
  None = None
CHECK_DEADLOCK FALSE
INVARIANTS SlidingNeverPanics
