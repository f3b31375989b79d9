CONSTANTS
  Paths = {p, q}
  NoPath = NoPath
  Columns = {f64, str}
  StrColumn = str
  a = a
  b = b
  Slots = {a, b}
  Version = 3
  Payloads <- MCPayloads
  Lists <- NoLists
  Readers = {r}
  MaxRows = 3
  MaxSlots = 2
  CanCrash = TRUE
  CanReject = TRUE
SPECIFICATION Spec
INVARIANTS TypeOK Backed RowsIntact ReaderDecodesPrefix
PROPERTY LogSpec
