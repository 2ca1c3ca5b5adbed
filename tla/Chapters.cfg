SPECIFICATION KindSpec
CONSTANTS
  Chapter = {c1, c2}
  Text = {t1, t2}
  Message = {m1}
  Critic = {k1, k2}
  BatchSize = 3
  MaxRevisions = 1
  MaxDrafts = 2
  RunLengths = {2}
  None = None
  Calls = {"reject", "compact", "edit", "correct", "continuous"}
  Restarts = TRUE
SYMMETRY Symmetry
CHECK_DEADLOCK FALSE
INVARIANTS ApprovedIsInCanon StaleIsNotProvisional
PROPERTIES RejectedStaysInProcess ImplementsReviewedApproval
