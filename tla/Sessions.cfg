SPECIFICATION RunSpec
CONSTANTS
  Request = {r1, r2, r3}
  Chapter = {coordinator, k1}
  Coordinator = coordinator
  Amount = {1, 3}
  ChapterWarning = 2
  ChapterCap = 4
  RunCap = 5
  NoReservation = NoReservation
  None = None
  Maximum = 2
  Charge = {1, 3}
  MaxBatch = 2
  MaxLines = 4
  SessionRequests = 2
  RequestsEach = 1
  LedgerEvents = 5
  LedgerFaults = {"before", "nothing", "torn", "unsynced", "power"}
  SessionFaults = {"failed", "torn", "unsynced", "renamed", "refused"}
SYMMETRY RequestSymmetry
INVARIANTS TypeOK ChargesAreCovered FinishedIsResumable
INVARIANTS CapsSurvive WarnedOnce ReportedEventsSurvive MemoryIsReplay
PROPERTIES LostRequestStopsSending NothingAfterTornLine
CHECK_DEADLOCK FALSE
