CONSTANTS
  Window = {w1}
  Cmd = {1, 2}
  Buf = {1, 2}
  Flip = {p1, p2}
  Fb = {1, 2, 3}
  LowestFirst = TRUE
  NCrtc = 2
  SwapLimit = 2
  EventSpace = 2
  None = None
  MayDetach = FALSE
  MayReuseXid = FALSE
  MayDisableAll = FALSE
  MayFailLate = TRUE
SPECIFICATION Spec
INVARIANT AwaitedBuffersHeld
