SPECIFICATION HSpec
CONSTANTS
  SurfaceIds = {s1, s2}
  Slots = {c1}
  FrameIds = {f1}
  Colors = {black, red}
  Black = black
  MaxU16 = 3
  MaxU32 = 1
  TileSize = 2
  SurfaceSizes <- StoreSizes
  Rectangles <- StoreRects
  Points <- StorePoints
  Tiles <- StoreTiles
  Origins = {o0}
  NoOrigin = o0
  MaxEvents = 1
  MaxFrames = 0
  MaxTime = 2
INVARIANT EgfxTypeOK
INVARIANT StoreMatchesPainted
INVARIANT TimestampsIncrease
\* The server may stop sending, and a failed or closed channel stays so.
CHECK_DEADLOCK FALSE
