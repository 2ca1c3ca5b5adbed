SPECIFICATION KindSpec
CONSTANTS
  None = None
  writer = writer
  editor = editor
  box1 = box1
  scene1 = scene1
  chapter1 = chapter1
  part1 = part1
  prologue = prologue
  place = place
  Sources <- AllSources
  Entry <- Manifest
  Given <- AnySnapshots
  Summaries <- AnySummaries
  Requests <- AllRequests
  Structures <- Outlines
  Contexts = {c1, c2}
  MaxConfirms = 2
  Link = Link
  name1 = name1
  name2 = name2
  name3 = name3
  Bytes = {0, 1}
  Readers = {r1, r2}
  Urls = {u1, u2, u3, u4, plain}
  Public = {u1, u2, u3, u4}
  MaxRedirects = 2
  MaxBytes = 3
  MaxChunk = 2
  Texts = {note}
  Pages = {page}
  Pdfs = {pdf}
  Damaged = {junk, page}
  MaxDamage = 2
CHECK_DEADLOCK FALSE
INVARIANTS EachConfirmationOnce OneContextPerSecret ReceiptIsTrue GrantsAreKept RouteIsChecked StoredIsFound
PROPERTIES OptionalNeverDisplaces
