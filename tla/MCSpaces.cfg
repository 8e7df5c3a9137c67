SPECIFICATION Spec
CONSTANTS
  s1 = s1  s2 = s2  s3 = s3  g1 = g1  g2 = g2
  SpaceIds = {s1, s2, s3}
  Graphs = {g1, g2}
  Default = Default
  Whole = Whole
  Mode = "SharedDeclaring"
  Declared = {g2}
  BindsOverlapDrops = FALSE
  ReadsOverlapDrops = FALSE
SYMMETRY Symmetry
INVARIANTS
  NoUnboundedStaleness
  NeverCachedBesideAnotherSpace
  CountIsOfLiveSpaces
  SlateIsClean
