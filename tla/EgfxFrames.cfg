SPECIFICATION HSpec
CONSTANTS
  SurfaceIds = {s1}
  Slots = {}
  FrameIds = {f1, f2}
  Colors = {black}
  Black = black
  MaxU16 = 1
  MaxU32 = 2
  TileSize = 1
  SurfaceSizes <- NoSizes
  Rectangles <- None
  Points <- None
  Tiles <- None
  Origins = {o0}
  NoOrigin = o0
  MaxEvents = 1
  MaxFrames = 4
  MaxTime = 0
INVARIANT AcksInOrder
INVARIANT NeverSuspend
INVARIANT DepthDoesNotDrift
\* The server may stop sending, and a failed or closed channel stays so.
CHECK_DEADLOCK FALSE
