CONSTANTS
  Paths = {p, q}
  NoPath = NoPath
  Columns = {f64, str}
  StrColumn = str
  a = a
  b = b
  Slots = {a, b}
  Version = 3
  Payloads <- MCPayloads
  Lists <- MCLists
  Readers = {}
  V2Readers = {r}
  MaxRows = 3
  MaxSlots = 4
  CanCrash = FALSE
  CanReject = FALSE
SPECIFICATION FormsSpec
INVARIANTS SpansIntact BothRowsIntact V2ReaderDecodesPrefix
PROPERTY BothLogSpec
