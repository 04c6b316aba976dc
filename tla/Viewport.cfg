SPECIFICATION Spec
CONSTANTS
  WindowSizes <- MCWindowSizes
  DesiredAspects <- MCDesiredAspects
  CustomViewports <- MCCustomViewports
  RARCH_MOBILE = FALSE
  UINT_WIDTH = 8
INVARIANT TypeOK
INVARIANT ViewportInsideWindow
INVARIANT ViewportInfoTopDistance
