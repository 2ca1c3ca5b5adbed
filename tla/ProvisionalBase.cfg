SPECIFICATION Spec
CONSTANTS
  Chapter = {c1, c2}
  Text = {t1}
  Message = {m1}
  Critic = {k1}
  BatchSize = 3
  MaxRevisions = 1
  MaxDrafts = 2
  RunLengths = {2}
  None = None
  Calls = {"continuous"}
  Restarts = FALSE
CHECK_DEADLOCK FALSE
INVARIANTS ProvisionalChapterApprovable
