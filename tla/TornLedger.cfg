SPECIFICATION Spec
CONSTANTS
  Request = {r1, r2}
  Chapter = {coordinator, k1}
  Coordinator = coordinator
  Amount = {1, 2}
  ChapterWarning = 2
  ChapterCap = 4
  RunCap = 5
  NoReservation = NoReservation
  None = None
  Maximum = 2
  Charge = {1}
  MaxBatch = 2
  MaxLines = 5
  LedgerFaults = {"torn"}
  SessionFaults = {}
INVARIANTS HeldBeforeSent
CHECK_DEADLOCK FALSE
