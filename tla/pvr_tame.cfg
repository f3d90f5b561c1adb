CONSTANTS
  Pix = {root, p1, p2}
  Root = root
  Bo = {1, 2, 3, 4}
  Priv = {1, 2, 3}
  PageCount = {1, 2}
  MaxMaps = 1
  CacheSize = 3
  HasDmm = FALSE
  LowestFirst = TRUE
  None = None
  MayResizeFlipped = FALSE
  MayFlipPlain = FALSE
SPECIFICATION Spec
SYMMETRY Symmetry
INVARIANTS TypeOK MapsListed ScanoutTracked CacheAccounted RecordsOwned BuffersExist BuffersOwnedOnce MappingsCurrent OperandsMapped
