CONSTANTS
  u1 = u1
  u2 = u2
  r1 = r1
  r2 = r2
  f = f
  g = g
  all = all
  provenance = provenance
  none = none
  Order <- MCOrder
  All = all
  Provenance = provenance
  Names <- AllNames
  None = none
  NodeOperation <- MCOperation
  Readback <- MCReadback
  Broken = {}
  Mismatched = {}
  Rebind = FALSE
  OwnReadback = FALSE
  KeepUnbound = FALSE
  MaxOps = 2
SPECIFICATION Spec
INVARIANTS BoundAreLoaded RegistryIsUsers ReadbackInOrder
CHECK_DEADLOCK FALSE
