CONSTANTS
  Pixmaps = {screen, window}
  Root = screen
  Width = 1
  Height = 2
  SolidMax = 2
  CopyMax = 2
  Solids <- MCSolids
  Copies <- MCCopies
  Pictures <- MCPictures
  Code <- MCCode
  Composites <- MCComposites
  None = None
  Refusals <- OneRefusal
  Formats = {"YV12", "UYVY"}
  Sizes <- EvenSizes
SPECIFICATION VideoSpec
CHECK_DEADLOCK FALSE
INVARIANTS TypeOK BatchKept  AccessAfterGpu PanelFresh PlanesInStep
