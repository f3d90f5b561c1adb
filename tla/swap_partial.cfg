CONSTANTS
  Window = {w1}
  Cmd = {1, 2, 3, 4}
  Buf = {1, 2, 3, 4}
  Flip = {p1, p2}
  Fb = {1, 2}
  LowestFirst = TRUE
  NCrtc = 2
  SwapLimit = 2
  EventSpace = 2
  None = None
  MayDetach = TRUE
  MayReuseXid = TRUE
  MayDisableAll = FALSE
  MayFailLate = TRUE
SPECIFICATION Spec
SYMMETRY Symmetry
INVARIANTS TypeOK QueueNeedsTwo FlipsCounted CommandsOwned RefsBalanced
CHECK_DEADLOCK FALSE
