CONSTANTS
  Window = {w1, w2}
  Cmd = {1, 2, 3}
  Buf = {1, 2, 3, 4}
  Flip = {p1, p2}
  Fb = {1, 2, 3}
  LowestFirst = TRUE
  NCrtc = 2
  SwapLimit = 2
  EventSpace = 0
  None = None
  MayDetach = FALSE
  MayReuseXid = FALSE
  MayDisableAll = FALSE
  MayFailLate = FALSE
SPECIFICATION Spec
SYMMETRY Symmetry
INVARIANTS AwaitedBuffersHeld FlipsAwaitEvents FbsAccounted ScanoutAlive ClosedIsQuiet
