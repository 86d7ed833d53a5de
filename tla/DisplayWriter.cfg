SPECIFICATION MainSpec
CONSTANTS
  FONT_HEIGHT = 3
  FONT_WIDTH = 2
  VERTICAL_SPACING = 1
  HORIZONTAL_SPACING = 1
  Screens <- MCScreens
  Texts <- MCTexts
  MaxRegions = 2
INVARIANT DrawsInsideFrameBuffer
PROPERTIES NoStaleText WritesEnd MainReachesLoop
CHECK_DEADLOCK FALSE
