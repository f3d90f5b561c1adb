CONSTANTS
  Crtcs = {0, 1}
  CompatCrtc = 0
  Modes = {4}
  Xs <- Positions
  Rotations = {0, 2}
  Sizes <- SmallSizes
  Bpp = 32
  HasRotation = TRUE
  None = None
SPECIFICATION Spec
CHECK_DEADLOCK FALSE
INVARIANTS RotationCounted ScanoutKindMatches ScanoutWrapped LitAsConfigured
PROPERTY OthersRelit
