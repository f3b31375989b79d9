CONSTANTS
  x = x
  y = y
  t1 = t1
  t2 = t2
  t3 = t3
  Tokens = {t1, t2}
  Rows <- MCRows
  Signature <- MCSignature
  MaxRows = 2
  MaxPut = 1
  MaxRewrites = 2
  ForeignWrites = TRUE
  ReuseAddress = FALSE
  EmptyPut = FALSE
SPECIFICATION Spec
INVARIANTS EnginesDecodePrefix AdoptedIsPrefix SlicesContinueFile
PROPERTIES ReadsStartFresh TableSpec
