CONSTANTS
  Paths = {p, q}
  NoPath = NoPath
  Columns = {f64, str}
  StrColumn = str
  a = a
  b = b
  Slots = {a, b}
  Version = 3
  Payloads <- MCPayloads
  Lists <- MCLists
  Readers = {r}
  MaxRows = 2
  MaxSlots = 4
  CanCrash = FALSE
  CanReject = FALSE
SPECIFICATION Spec
INVARIANT ReaderSpansCurrent
