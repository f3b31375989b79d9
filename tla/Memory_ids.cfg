CONSTANTS
  s1 = s1
  s2 = s2
  f1 = f1
  Signals <- SomeSignals
  Fields <- OneField
  Kinds <- AllKinds
  Elements = 2
  Delays <- OneOrTwo
  PutSizes <- NoneOrTwo
  MaxPuts = 2
  MaxSlices = 3
  Gaps = TRUE
  Overlap = FALSE
SPECIFICATION Spec
INVARIANTS
  WholeReads
  SliceReads
  OwnElements
  NothingStale
  NeverUndefined
SYMMETRY SignalSymmetry
CHECK_DEADLOCK FALSE
