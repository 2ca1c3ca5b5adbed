SPECIFICATION Spec
CONSTANTS
  Cjk <- Ideographs
  Letter <- Latin
  Symbol <- Other
  Blank = 0
  Base = 6
  Cases <- CopyCases
  Policy <- Small
  None = None
CHECK_DEADLOCK FALSE
INVARIANTS FindsTheCopies SlidingNeverPanics
