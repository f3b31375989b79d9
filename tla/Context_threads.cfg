CONSTANTS
  Callers = {c1, c2}
  Objects = {o1, o2, o3, o4}
  NoObject = NoObject
  MaxStore = 4
SPECIFICATION Spec
INVARIANT IdsResolve
PROPERTY HandlesSpec
CHECK_DEADLOCK FALSE
