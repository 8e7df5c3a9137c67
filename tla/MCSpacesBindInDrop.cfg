SPECIFICATION Spec
CONSTANTS
  s1 = s1  s2 = s2  s3 = s3  g1 = g1  g2 = g2
  SpaceIds = {s1, s2, s3}
  Graphs = {}
  Default = Default
  Whole = Whole
  Mode = "Owned"
  Declared = {}
  BindsOverlapDrops = TRUE
  ReadsOverlapDrops = FALSE
SYMMETRY Symmetry
INVARIANT NeverCachedBesideAnotherSpace
