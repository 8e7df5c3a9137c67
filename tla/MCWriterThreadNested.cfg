SPECIFICATION Spec
CONSTANTS
  c = c  d = d  u = u  v = v  nc = nc  nu = nu  nv = nv
  Outside = Outside
  Writes = {c, v, nc}
  Calls = {c, nc}
  AskedBy <- MCAskedBy
  StackOf <- TwoStacks
  MaxStack = 6
INVARIANT NestedCallIsRefused
CHECK_DEADLOCK FALSE
