CONSTANTS
  Pixmaps = {screen, window}
  Root = screen
  Width = 2
  Height = 2
  SolidMax = 2
  CopyMax = 2
  Solids <- MCSolids
  Copies <- MCCopies
  Pictures <- MCPictures
  Code <- MCCode
  Composites <- MCComposites
  None = None
  Refusals <- NoRefusal
  Formats = {"YV12"}
  Sizes <- OddSizes
SPECIFICATION VideoSpec
CHECK_DEADLOCK FALSE
INVARIANTS PlanesInStep
