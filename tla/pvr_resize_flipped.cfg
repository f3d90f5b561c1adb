CONSTANTS
  Pix = {root, p1, p2}
  Root = root
  Bo = {1, 2, 3, 4}
  Priv = {1, 2, 3}
  PageCount = {1, 2}
  MaxMaps = 1
  CacheSize = 3
  HasDmm = FALSE
  LowestFirst = FALSE
  None = None
  MayResizeFlipped = TRUE
  MayFlipPlain = FALSE
SPECIFICATION Spec
SYMMETRY Symmetry
INVARIANT BuffersExist
