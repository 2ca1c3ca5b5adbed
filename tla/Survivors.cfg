SPECIFICATION Spec
CONSTANTS
  Process = {lead, sub}
  Leader = lead
  OutputLimit = 2
  Capacity = 2
  MaxWritten = 2
CHECK_DEADLOCK FALSE
INVARIANTS GroupIsTerminated
