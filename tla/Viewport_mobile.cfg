SPECIFICATION Spec
CONSTANTS
  WindowSizes <- MCPortraitWindow
  DesiredAspects <- MCSquareAspect
  CustomViewports <- MCCustomViewports
  RARCH_MOBILE = TRUE
  UINT_WIDTH = 8
INVARIANT ViewportInsideWindow
