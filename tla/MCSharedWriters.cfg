SPECIFICATION Spec
CONSTANTS
  ho = ho  hs = hs  hd = hd  a = a  b = b  c = c  g1 = g1  g2 = g2  l1 = l1  l2 = l2  l3 = l3
  Blank = Blank  Default = Default  None = None
  Handles = {ho, hd}
  Writers = {a, c}
  Lines = {l1, l2, l3}
  Graphs = {g1, g2}
  Coverage <- MCCoverage
  Promise <- MCPromise
  Asks <- MCAsks
SYMMETRY Symmetry
INVARIANTS
  TypeOK
  TransactionsAreSerial
  RegistryKnowsEveryLine
  PromiseKept
PROPERTY AllOrNothing
