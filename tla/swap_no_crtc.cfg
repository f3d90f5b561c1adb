CONSTANTS
  Window = {w1}
  Cmd = {1, 2}
  Buf = {1, 2}
  Flip = {p1}
  Fb = {1, 2}
  LowestFirst = TRUE
  NCrtc = 1
  SwapLimit = 2
  EventSpace = 0
  None = None
  MayDetach = FALSE
  MayReuseXid = FALSE
  MayDisableAll = TRUE
  MayFailLate = FALSE
SPECIFICATION Spec
INVARIANT FlipsAwaitEvents
