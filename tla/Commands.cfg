SPECIFICATION KindSpec
CONSTANTS
  Model = {m1, m2}
  DefaultModel = m1
  Price = {1, 2, 6, None}
  None = None
  WarnAt = 5
  StopAt = 10
  FewestCalls = 2
  WriteCalls = 4
  MaxTurns = 2
  ToolTurns = 2
  MaxPaid = 2
  Initializer = {p1, p2}
  Name = {n1, n2}
  Foreign = foreign
  Nobody = Nobody
  Other = Other
  MaxTouches = 4
CHECK_DEADLOCK FALSE
INVARIANTS OneConfirmationOneRequest SteadyWritesAreWarned WholeOrNothing
PROPERTIES ConsultIsReadOnly
