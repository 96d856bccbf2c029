SPECIFICATION FairPSpec
CONSTANTS
  Surfaces = {s1, s2}
  Nobody = nobody
  Observed = s1
  QueueLimit = 1
  MaxPackets = 2
  Cells <- MCCells
  Regions <- MCRegions
  Sizes <- MCSizes
  FirstSize = {1, 2}
  MaxArrivals = 3
  MaxControls = 1
INVARIANT PageTypeOK
INVARIANT OnlyFramesComeLate
INVARIANT TilesStay
INVARIANT ClosedIsShown
PROPERTY CanvasSettles
\* Packets may stop coming.
CHECK_DEADLOCK FALSE
