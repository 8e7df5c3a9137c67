SPECIFICATION FairSpec
CONSTANTS
  c = c  d = d  u = u  v = v  nc = nc  nu = nu  nv = nv
  Outside = Outside
  Writes = {c, d, v, nu, nv}
  Calls = {c, d}
  AskedBy <- MCAskedBy
  StackOf <- TwoStacks
  MaxStack = 6
INVARIANTS
  TypeOK
  NoLostUpdate
  StacksFit
PROPERTY EveryWriteIsAnswered
CHECK_DEADLOCK FALSE
