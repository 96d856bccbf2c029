SPECIFICATION HSpec
CONSTANTS
  SurfaceIds = {s1, s2}
  Slots = {}
  FrameIds = {f1}
  Colors = {black, red}
  Black = black
  MaxU16 = 3
  MaxU32 = 1
  TileSize = 1
  SurfaceSizes <- CopySizes
  Rectangles <- CopyRects
  Points <- CopyPoints
  Tiles <- None
  Origins = {o0}
  NoOrigin = o0
  MaxEvents = 1
  MaxFrames = 0
  MaxTime = 3
INVARIANT CopiesReadSnapshot
\* The server may stop sending, and a failed or closed channel stays so.
CHECK_DEADLOCK FALSE
