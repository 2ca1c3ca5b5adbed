SPECIFICATION KindSpec
CONSTANTS
  letter = letter
  opens = opens
  ends = ends
  Byte = {letter, opens, ends}
  Lead = {opens}
  Trail = {ends}
  Replacement = Replacement
  Path = {"draft.md", ".git/config"}
  Unsafe = {".git/config"}
  None = None
  MaxLength = 3
  MaxResult = 2
  MaxVisible = 1
  MaxSession = 2
  MaxCalls = 3
  MaxProtect = 1
  Agent = {"writer"}
  Repertoire <- Calls
  MaxTurns = 2
  Strict = TRUE
  MaxPlan = 2
  MaxInvocations = 1
  OutLimit = 3
  ErrLimit = 1
  Capacity = 2
  MaxWritten = 4
  Group = {lead, sub}
  Leader = lead
  OutputLimit = 2
  MaxShell = 2
  c1 = c1
  t1 = t1
  t2 = t2
  m1 = m1
  k1 = k1
  k2 = k2
  k3 = k3
  k4 = k4
  Process = {p1, p2}
  f1 = f1
  f2 = f2
  b1 = b1
  b2 = b2
  Absent = Absent
CHECK_DEADLOCK FALSE
INVARIANTS OnlyWhatWasSent ConversationIsClosed ResultsAreKept QueryIsWhole CommandIsWhole
PROPERTIES CallsEnd
