CONSTANTS
  Crtcs <- MCCrtcs
  CursorW = 2
  CursorH = 2
  Pointers <- MCPointers
  None = None
  Connector = {o1}
  Values = {0, 1}
  MaxUevents = 1
  NoSnapshot = NoSnapshot
  MaxGenerations = 2
SPECIFICATION Spec
INVARIANTS TypeOK InUseIsHeld CursorShown
PROPERTY HotplugSeen
