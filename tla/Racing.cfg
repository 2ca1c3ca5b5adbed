SPECIFICATION Spec
CONSTANTS
  p1 = p1
  p2 = p2
  c1 = c1
  c2 = c2
  f1 = f1
  f2 = f2
  b1 = b1
  b2 = b2
  Absent = Absent
  None = None
  Process = {p1, p2}
  Change = {c1, c2}
  File = {f1, f2}
  Content = {b1, b2}
  Seed <- MCSeed
  Plans <- MCPlans
  MaxOrder = 2
  MaxEdits = 1
  EditorWaits = FALSE
  Faults = {"crash", "power", "io", "marker"}
SYMMETRY Symmetry
INVARIANTS AckedIsDurable
PROPERTIES AbandonedStopsApprovals EditsSurvive OnlyApprovedBytes
CHECK_DEADLOCK FALSE
